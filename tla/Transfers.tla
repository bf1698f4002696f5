----------------------------- MODULE Transfers -----------------------------
(***************************************************************************)
(* The engine's transfer queue: Running::start, Running::still_working and *)
(* Running::cancel of crates/okuri-engine/src/engine.rs.                   *)
(*                                                                         *)
(* A transfer is one Tokio task.  It takes a slot of every connection it   *)
(* occupies, in the order of the session ids, does its work, leaves the    *)
(* registry of what is in flight, says how it ended and, when it was the   *)
(* last on its connection, has the folder listed again.  Cancelling takes  *)
(* it out of the registry from another thread and aborts the task, which   *)
(* stops it at its next await and not before.                              *)
(*                                                                         *)
(* One action is one stretch of code between two points at which another   *)
(* thread can be seen to act: an await, or a lock taken or released.       *)
(***************************************************************************)
EXTENDS Integers, Sequences, FiniteSets

CONSTANTS
    Transfers,    \* the transfers that may be started
    Sessions,     \* the ids of the connections, which are numbers: they are sorted
    Local,        \* the end of a transfer that is this machine
    From, To,     \* the two ends of each transfer
    Slots,        \* Capabilities::transfer_slots of each connection
    Cancellable,  \* the transfers somebody may ask to cancel
    MaxNews       \* bound: how much each has told when its progress is last reported

ASSUME SessionsAssumption ==
    /\ IsFiniteSet(Sessions)
    /\ Sessions \subseteq Nat
    /\ Local \notin Sessions

ASSUME TransfersAssumption ==
    /\ IsFiniteSet(Transfers)
    /\ Cancellable \subseteq Transfers
    /\ From \in [Transfers -> Sessions \cup {Local}]
    /\ To \in [Transfers -> Sessions \cup {Local}]
    /\ \A t \in Transfers : From[t] # Local \/ To[t] # Local

ASSUME SlotsAssumption == Slots \in [Sessions -> Nat \ {0}]

ASSUME BoundsAssumption == MaxNews \in [Transfers -> Nat]

VARIABLES
    open,      \* the sessions in the registry of open connections
    phase,     \* how far the task of each transfer has got
    held,      \* the sessions each transfer holds a slot of
    permits,   \* the free slots of each session's semaphore
    line,      \* who waits for a slot of each session, first come first served
    running,   \* Running::running, the registry of what is in flight
    booked,    \* the transfers whose spawner has put them in the registry
    early,     \* those that left the registry before they were put there
    aborted,   \* the tasks that have been told to stop
    outcome,   \* what the work of each transfer came to
    told,      \* what the interface has been told of each transfer, in order
    dirty,     \* the files that landed on each session since it last began to list
    spinning   \* the sessions whose last Working event said they are busy

slots == <<held, permits, line>>
registry == <<running, booked, early, aborted>>
folders == <<dirty, spinning>>

vars == <<open, phase, slots, registry, outcome, told, folders>>

Phases == {"none", "waiting", "working", "landed", "deregistered", "reported",
           "stale", "listing", "over"}

News == {"added", "progress", "done", "failed", "cancelled"}

-----------------------------------------------------------------------------

(* The connections a transfer occupies: the sorted, deduplicated `holding`. *)
Ends(t) == {From[t], To[t]} \ {Local}

LandsRemotely(t) == To[t] # Local

(* Transfer::session: the end that is written to, where it is a connection. *)
On(t) == IF LandsRemotely(t) THEN To[t] ELSE From[t]

(* Slip: the slots of one end are counted and not of the other. *)
MissingAtOneEnd(t) == {On(t)} \ held[t]

Missing(t) == Ends(t) \ held[t]

(* Slip: the slots are taken from one end to the other, unsorted. *)
NextSlotUnsorted(t) == IF From[t] \in Missing(t) THEN From[t] ELSE To[t]

(* The slot the loop over the sorted slots asks for next. *)
NextSlot(t) == CHOOSE s \in Missing(t) : \A r \in Missing(t) : s <= r

Holders(s) == {t \in Transfers : s \in held[t]}

(* Slip: a transfer between two servers counts for either of them. *)
StillWorkingAtEitherEnd(s) == \E t \in running : s \in Ends(t)

StillWorking(s) == \E t \in running : On(t) = s

(* A line that the one place of t has been taken out of. *)
Without(seq, t) ==
    IF \E i \in DOMAIN seq : seq[i] = t
    THEN LET gone == CHOOSE i \in DOMAIN seq : seq[i] = t
         IN  [i \in 1 .. Len(seq) - 1 |-> IF i < gone THEN seq[i] ELSE seq[i + 1]]
    ELSE seq

(* The emitter, seen from one transfer. *)
Tell(t, news) == told' = [told EXCEPT ![t] = Append(@, news)]

(* Slip: the permits are forgotten instead of dropped. *)
LetGoForgetting(t) ==
    /\ held' = [held EXCEPT ![t] = {}]
    /\ UNCHANGED permits

(* What a task gives back when it ends or is dropped: its permits. *)
LetGo(t) ==
    /\ held' = [held EXCEPT ![t] = {}]
    /\ permits' = [s \in Sessions |->
                     IF s \in held[t] THEN permits[s] + 1 ELSE permits[s]]

End(t) ==
    /\ phase' = [phase EXCEPT ![t] = "over"]
    /\ LetGo(t)

-----------------------------------------------------------------------------

Init ==
    /\ open = Sessions
    /\ phase = [t \in Transfers |-> "none"]
    /\ held = [t \in Transfers |-> {}]
    /\ permits = Slots
    /\ line = [s \in Sessions |-> <<>>]
    /\ running = {}
    /\ booked = {}
    /\ early = {}
    /\ aborted = {}
    /\ outcome = [t \in Transfers |-> "none"]
    /\ told = [t \in Transfers |-> <<>>]
    /\ dirty = [s \in Sessions |-> {}]
    /\ spinning = {}

-----------------------------------------------------------------------------
(* The command that starts a transfer: the task is spawned first and the   *)
(* registry is told of it on the next line.                                *)

Start(t) ==
    /\ phase[t] = "none"
    /\ phase' = [phase EXCEPT ![t] = "waiting"]
    /\ Tell(t, "added")
    /\ UNCHANGED <<open, slots, registry, outcome, folders>>

Book(t) ==
    /\ phase[t] # "none"
    /\ t \notin booked
    /\ booked' = booked \cup {t}
    /\ running' = running \cup {t}
    /\ UNCHANGED <<open, phase, slots, early, aborted, outcome, told,
                   folders>>

-----------------------------------------------------------------------------
(* The task.  Its steps are enabled whether or not it was aborted: a task  *)
(* that is on a thread when it is aborted runs on to its next await.  A    *)
(* task standing in line is on no thread, so it is granted nothing then.   *)

WantsSlot(t) ==
    /\ phase[t] = "waiting"
    /\ Missing(t) # {}

TakeSlot(t, s) ==
    /\ held' = [held EXCEPT ![t] = @ \cup {s}]
    /\ permits' = [permits EXCEPT ![s] = @ - 1]

(* A semaphore with a free permit has nobody waiting in line. *)
Acquire(t) ==
    /\ WantsSlot(t)
    /\ line[NextSlot(t)] = <<>>
    /\ permits[NextSlot(t)] > 0
    /\ TakeSlot(t, NextSlot(t))
    /\ UNCHANGED <<open, phase, line, registry, outcome, told, folders>>

Queue(t) ==
    LET s == NextSlot(t) IN
    /\ WantsSlot(t)
    /\ line[s] # <<>> \/ permits[s] = 0
    /\ \A i \in DOMAIN line[s] : line[s][i] # t
    /\ line' = [line EXCEPT ![s] = Append(@, t)]
    /\ UNCHANGED <<open, phase, held, permits, registry, outcome, told,
                   folders>>

Granted(t) ==
    LET s == NextSlot(t) IN
    /\ WantsSlot(t)
    /\ line[s] # <<>>
    /\ Head(line[s]) = t
    /\ permits[s] > 0
    /\ t \notin aborted
    /\ TakeSlot(t, s)
    /\ line' = [line EXCEPT ![s] = Tail(@)]
    /\ UNCHANGED <<open, phase, registry, outcome, told, folders>>

Work(t) ==
    /\ phase[t] = "waiting"
    /\ Missing(t) = {}
    /\ phase' = [phase EXCEPT ![t] = "working"]
    /\ UNCHANGED <<open, slots, registry, outcome, told, folders>>

Progress(t) ==
    /\ phase[t] = "working"
    /\ Len(told[t]) < MaxNews[t]
    /\ Tell(t, "progress")
    /\ UNCHANGED <<open, phase, slots, registry, outcome, folders>>

(* The work's last await has answered. *)
Land(t, came) ==
    /\ phase[t] = "working"
    /\ phase' = [phase EXCEPT ![t] = "landed"]
    /\ outcome' = [outcome EXCEPT ![t] = came]
    /\ dirty' = IF came = "done" /\ LandsRemotely(t)
                THEN [dirty EXCEPT ![To[t]] = @ \cup {t}]
                ELSE dirty
    /\ UNCHANGED <<open, slots, registry, told, spinning>>

Deregister(t) ==
    /\ phase[t] = "landed"
    /\ phase' = [phase EXCEPT ![t] = "deregistered"]
    /\ running' = running \ {t}
    /\ early' = early \cup ({t} \ booked)
    /\ UNCHANGED <<open, slots, booked, aborted, outcome, told, folders>>

(* Slip: a failure is reported as a success. *)
ReportDone(t) ==
    /\ phase[t] = "deregistered"
    /\ phase' = [phase EXCEPT ![t] = "reported"]
    /\ Tell(t, "done")
    /\ UNCHANGED <<open, slots, registry, outcome, folders>>

Report(t) ==
    /\ phase[t] = "deregistered"
    /\ phase' = [phase EXCEPT ![t] = "reported"]
    /\ Tell(t, outcome[t])
    /\ UNCHANGED <<open, slots, registry, outcome, folders>>

(* Is this the one that has the folder listed again? *)
LastOne(t) ==
    /\ On(t) \in open
    /\ LandsRemotely(t)
    /\ ~StillWorking(On(t))

LeaveFolder(t) ==
    /\ phase[t] = "reported"
    /\ ~LastOne(t)
    /\ End(t)
    /\ UNCHANGED <<open, line, registry, outcome, told, folders>>

WantFolder(t) ==
    /\ phase[t] = "reported"
    /\ LastOne(t)
    /\ phase' = [phase EXCEPT ![t] = "stale"]
    /\ UNCHANGED <<open, slots, registry, outcome, told, folders>>

(* Running::refresh up to its listing.  The session is looked up again. *)
BeginListing(t) ==
    /\ phase[t] = "stale"
    /\ On(t) \in open
    /\ phase' = [phase EXCEPT ![t] = "listing"]
    /\ dirty' = [dirty EXCEPT ![On(t)] = {}]
    /\ spinning' = spinning \cup {On(t)}
    /\ UNCHANGED <<open, slots, registry, outcome, told>>

NoSuchSession(t) ==
    /\ phase[t] = "stale"
    /\ On(t) \notin open
    /\ End(t)
    /\ UNCHANGED <<open, line, registry, outcome, told, folders>>

(* The listing has answered, with the folder or with an error; which       *)
(* folder the window then shows is module Navigation's.                    *)
EndListing(t) ==
    /\ phase[t] = "listing"
    /\ spinning' = spinning \ {On(t)}
    /\ End(t)
    /\ UNCHANGED <<open, line, registry, outcome, told, dirty>>

(* Slip: a task that is dropped keeps the slots it held. *)
DropKeepingSlots(t) ==
    /\ t \in aborted
    /\ phase[t] \in {"waiting", "working", "listing"}
    /\ phase' = [phase EXCEPT ![t] = "over"]
    /\ held' = [held EXCEPT ![t] = {}]
    /\ line' = [s \in Sessions |-> Without(line[s], t)]
    /\ UNCHANGED <<open, permits, registry, outcome, told, folders>>

(* An aborted task is dropped at an await. *)
Drop(t) ==
    /\ t \in aborted
    /\ phase[t] \in {"waiting", "working", "listing"}
    /\ End(t)
    /\ line' = [s \in Sessions |-> Without(line[s], t)]
    /\ UNCHANGED <<open, registry, outcome, told, folders>>

-----------------------------------------------------------------------------
(* Commands of other tasks. *)

(* Running::cancel holds the registry's lock from the removal to the end   *)
(* of the event.  A transfer that is not in the registry is left alone.    *)
Cancel(t) ==
    /\ t \in Cancellable
    /\ phase[t] # "none"
    /\ IF t \in running
       THEN /\ running' = running \ {t}
            /\ aborted' = aborted \cup {t}
            /\ Tell(t, "cancelled")
       ELSE UNCHANGED <<running, aborted, told>>
    /\ UNCHANGED <<open, phase, slots, booked, early, outcome, folders>>

Disconnect(s) ==
    /\ s \in open
    /\ open' = open \ {s}
    /\ UNCHANGED <<phase, slots, registry, outcome, told, folders>>

-----------------------------------------------------------------------------

GetSlot(t) == Acquire(t) \/ Queue(t) \/ Granted(t)

Finish(t) == \E came \in {"done", "failed"} : Land(t, came)

AfterWork(t) ==
    \/ Deregister(t)
    \/ Report(t)
    \/ LeaveFolder(t)
    \/ WantFolder(t)
    \/ BeginListing(t)
    \/ NoSuchSession(t)
    \/ EndListing(t)

Task(t) ==
    \/ GetSlot(t)
    \/ Work(t)
    \/ Progress(t)
    \/ Finish(t)
    \/ AfterWork(t)
    \/ Drop(t)

Next ==
    \/ \E t \in Transfers : Start(t) \/ Book(t) \/ Task(t) \/ Cancel(t)
    \/ \E s \in Sessions : Disconnect(s)

Spec == Init /\ [][Next]_vars

(* A spawned task is polled, a provider answers in the end, and an aborted *)
(* task is dropped.  Nobody has to start, cancel or disconnect anything.   *)
Fairness ==
    \A t \in Transfers :
        /\ WF_vars(Book(t))
        /\ WF_vars(GetSlot(t))
        /\ WF_vars(Work(t))
        /\ WF_vars(Finish(t))
        /\ WF_vars(AfterWork(t))
        /\ WF_vars(Drop(t))

FairSpec == Spec /\ Fairness

-----------------------------------------------------------------------------
(* Properties. *)

(* The type of every variable. *)
TypeOK ==
    /\ open \subseteq Sessions
    /\ phase \in [Transfers -> Phases]
    /\ held \in [Transfers -> SUBSET Sessions]
    /\ permits \in [Sessions -> Nat]
    /\ line \in [Sessions -> Seq(Transfers)]
    /\ running \subseteq Transfers
    /\ booked \subseteq Transfers
    /\ early \subseteq Transfers
    /\ aborted \subseteq Transfers
    /\ outcome \in [Transfers -> {"none", "done", "failed"}]
    /\ told \in [Transfers -> Seq(News)]
    /\ dirty \in [Sessions -> SUBSET Transfers]
    /\ spinning \subseteq Sessions

(* No slot is lost and none is made: whatever is cancelled, dropped,       *)
(* failed or disconnected, each semaphore's free permits and the transfers *)
(* holding one of it always add up to the connection's transfer_slots.     *)
SlotsConserved ==
    \A s \in Sessions : permits[s] + Cardinality(Holders(s)) = Slots[s]

(* The transfer waits for a slot that only members of D could give back. *)
StuckBehind(t, D) ==
    /\ phase[t] = "waiting"
    /\ Missing(t) # {}
    /\ permits[NextSlot(t)] = 0
    /\ Holders(NextSlot(t)) \subseteq D

(* Files dragged both ways at once cannot each hold the slot the other is  *)
(* waiting for: no set of transfers waits only for slots its own members   *)
(* hold, which is what taking the slots in the order of the ids is for.    *)
NoCircularWait ==
    \A D \in (SUBSET Transfers) \ {{}} : \E t \in D : ~StuckBehind(t, D)

(* Somebody is still going to ask for the folder of session s again. *)
WillRedraw(s) ==
    \E t \in Transfers :
        /\ On(t) = s
        /\ phase[t] \in {"waiting", "working", "landed", "deregistered",
                         "reported", "stale"}

(* The connection only ever receives files, none was called off, and none  *)
(* left the registry before it was put there.                              *)
OnlyArrivals(s) ==
    \A t \in Transfers :
        On(t) = s => LandsRemotely(t) /\ t \notin aborted \cup early

(* The last of a batch redraws the list: while a file that has landed on   *)
(* an open connection has not been listed for, a transfer of that          *)
(* connection is left to see to it.  Start promises this for a batch of    *)
(* uploads, not with downloads and cancellations about (engine.rs:1109).   *)
LastOneRedraws ==
    \A s \in open : OnlyArrivals(s) /\ dirty[s] # {} => WillRedraw(s)

InFlight(t) == phase[t] \in {"waiting", "working", "landed"}

(* "What is in flight" (engine.rs:179), which still_working reads to find  *)
(* out who is last: the registry holds nothing that has ended or is only   *)
(* listing a folder, whoever is cancelled or disconnected, but for a task  *)
(* that was done before the line after its spawn was.                      *)
RegistryIsInFlight == \A t \in running \ early : InFlight(t)

Settled == {"done", "failed", "cancelled"}

(* A transfer that nobody called off is told to have ended once, with what *)
(* its work came to, and nothing is told of it afterwards.                 *)
EndIsToldOnce ==
    \A t \in Transfers \ aborted : \A i \in DOMAIN told[t] :
        told[t][i] \in Settled => i = Len(told[t]) /\ told[t][i] = outcome[t]

(* Every transfer that is started comes to its end, however many others    *)
(* wait for the same slots.                                                *)
EveryTransferEnds ==
    \A t \in Transfers : phase[t] = "waiting" ~> phase[t] = "over"

(* How far a transfer is, to somebody who sees only that it waits, moves   *)
(* or is over.  It moves from its first step with every slot in hand until *)
(* it gives them back.                                                     *)
Stage(t) ==
    CASE phase[t] = "none" -> "absent"
      [] phase[t] = "waiting" -> "waiting"
      [] phase[t] = "over" -> "over"
      [] OTHER -> "moving"

stages == [t \in Transfers |-> Stage(t)]

Life == INSTANCE TransferLife WITH
    Occupied <- [t \in Transfers |-> Ends(t)],
    stage <- stages

(* Start keeps its promise: every step of the tasks, the registry, the     *)
(* semaphores and the cancellations is a step of TransferLife or none.     *)
KeepsItsPromise == Life!Spec
=============================================================================
