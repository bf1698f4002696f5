--------------------------- MODULE TransferQueue ---------------------------
(***************************************************************************)
(* The queue window on top of the engine's transfers:                      *)
(* crates/okuri/src/transfers.rs.  What the engine tells of a transfer     *)
(* crosses to the interface thread in the order it was told (relay.rs) and *)
(* changes that transfer's row; the row's button sends a command back,     *)
(* which the engine handles some time later on a task of its own.          *)
(*                                                                         *)
(* A row depends on its own transfer's news alone, so the one channel is   *)
(* modelled as a channel per transfer: told[t], read up to read[t].        *)
(***************************************************************************)
EXTENDS Transfers

VARIABLES
    row,      \* what each transfer's row says, "absent" where it has none
    read,     \* how much of told[t] has reached the interface
    clicked   \* cancel commands sent and not handled yet

queue == <<row, read, clicked>>

qvars == <<vars, queue>>

Active == {"queued", "running"}

(* State::is_finished. *)
Finished == Settled

Rows == {"absent"} \cup Active \cup Finished

QInit ==
    /\ Init
    /\ row = [t \in Transfers |-> "absent"]
    /\ read = [t \in Transfers |-> 0]
    /\ clicked = {}

-----------------------------------------------------------------------------

Heard(t) == told[t][read[t] + 1]

Hear(t) ==
    /\ read[t] < Len(told[t])
    /\ read' = [read EXCEPT ![t] = @ + 1]
    /\ UNCHANGED <<vars, clicked>>

Add(t) ==
    /\ Hear(t)
    /\ Heard(t) = "added"
    /\ row' = [row EXCEPT ![t] = "queued"]

(* A row that is not indexed any more is not touched. *)
Touch(t, says) ==
    row' = IF row[t] = "absent" THEN row ELSE [row EXCEPT ![t] = says]

Advance(t) ==
    /\ Hear(t)
    /\ Heard(t) = "progress"
    /\ Touch(t, "running")

(* Slip: whatever it came to, the row says done. *)
FinishRowDone(t) ==
    /\ Hear(t)
    /\ Heard(t) \in Finished
    /\ Touch(t, "done")

(* Slip: a failure is not listened for. *)
FinishRowUnlessFailed(t) ==
    /\ Hear(t)
    /\ Heard(t) \in Finished
    /\ IF Heard(t) = "failed" THEN UNCHANGED row ELSE Touch(t, Heard(t))

FinishRow(t) ==
    /\ Hear(t)
    /\ Heard(t) \in Finished
    /\ Touch(t, Heard(t))

ClearFinished ==
    /\ \E t \in Transfers : row[t] \in Finished
    /\ row' = [t \in Transfers |-> IF row[t] \in Finished THEN "absent" ELSE row[t]]
    /\ UNCHANGED <<vars, read, clicked>>

(* The button is there while the row is not finished. *)
ClickCancel(t) ==
    /\ t \in Cancellable \ clicked
    /\ row[t] \in Active
    /\ clicked' = clicked \cup {t}
    /\ UNCHANGED <<vars, row, read>>

HandleCancel(t) ==
    /\ t \in clicked
    /\ Cancel(t)
    /\ clicked' = clicked \ {t}
    /\ UNCHANGED <<row, read>>

-----------------------------------------------------------------------------

Interface(t) == Add(t) \/ Advance(t) \/ FinishRow(t)

Engine(t) ==
    /\ Start(t) \/ Book(t) \/ Task(t)
    /\ UNCHANGED queue

QNext ==
    \/ \E t \in Transfers :
          Engine(t) \/ Interface(t) \/ ClickCancel(t) \/ HandleCancel(t)
    \/ ClearFinished
    \/ \E s \in Sessions : Disconnect(s) /\ UNCHANGED queue

QSpec == QInit /\ [][QNext]_qvars

(* The engine's fairness, and a main loop that delivers what is idle. *)
QFairness ==
    \A t \in Transfers :
        /\ WF_qvars(Book(t) /\ UNCHANGED queue)
        /\ WF_qvars(GetSlot(t) /\ UNCHANGED queue)
        /\ WF_qvars(Work(t) /\ UNCHANGED queue)
        /\ WF_qvars(Finish(t) /\ UNCHANGED queue)
        /\ WF_qvars(AfterWork(t) /\ UNCHANGED queue)
        /\ WF_qvars(Drop(t) /\ UNCHANGED queue)
        /\ WF_qvars(Interface(t))

FairQSpec == QSpec /\ QFairness

-----------------------------------------------------------------------------
(* Properties. *)

Caught(t) == read[t] = Len(told[t])

(* Once everything told of a transfer nobody called off has been heard and *)
(* its task is gone, its row says what the work came to, unless it has     *)
(* been cleared away.  (transfers.rs finish.)                              *)
RowTellsTheOutcome ==
    \A t \in Transfers \ aborted :
        Caught(t) /\ phase[t] = "over" => row[t] \in {outcome[t], "absent"}

(* The badge (transfers.rs:61) goes down to nothing in the end, whatever   *)
(* nobody called off.                                                      *)
RowsSettle ==
    \A t \in Transfers :
        row[t] \in Active ~> (row[t] \notin Active \/ t \in aborted)
=============================================================================
