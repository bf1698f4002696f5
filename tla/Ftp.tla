-------------------------------- MODULE Ftp --------------------------------
(***************************************************************************)
(* The one control connection of ftp.rs.  Operations queue for its lock;   *)
(* the one that has it says a command and reads an answer, and a file or a *)
(* listing comes or goes on a connection of its own, with a closing answer *)
(* after it.  Answers bear no name: whoever reads takes the oldest.        *)
(*                                                                         *)
(* A task may be dropped wherever it waits, and what it leaves unread      *)
(* there the next one reads.  A download that is let go of half way is     *)
(* called off behind it, with the lock kept until that is done.            *)
(***************************************************************************)
EXTENDS Integers, Sequences, FiniteSets, SequencesExt

CONSTANTS
    Ops,     \* operations on this connection
    Kinds,   \* what each of them may be
    Nobody

(* What each says and does while it has the lock.  A deletion lists first, *)
(* to know what it deletes, and lets go of the lock in between.            *)
Script ==
    [list   |-> <<"command", "transfer", "closing">>,
     change |-> <<"command">>,
     rename |-> <<"command", "command">>,
     delete |-> <<"command", "transfer", "closing", "again", "command">>,
     read   |-> <<"asking", "command", "transfer", "closing">>,
     write  |-> <<"command", "transfer", "closing">>]

ASSUME FtpAssumption ==
    /\ Kinds \in [Ops -> SUBSET DOMAIN Script]
    /\ Nobody \notin Ops

VARIABLES
    kind,      \* what each operation is
    phase,     \* how far it has got
    rest,      \* what it has still to do
    holder,    \* who has the lock
    line,      \* who waits for it, first come first served
    answers,   \* what the server has said and nobody has read
    serving,   \* whose file or listing the server takes to be moving
    \* What happened, for the properties to speak of:
    strays,    \* who left an answer unread, and doing what
    misled     \* who read somebody else's answer

lock == <<holder, line>>
channel == <<answers, serving>>
ftp == <<kind, phase, rest, lock, channel, strays, misled>>

FtpInit ==
    /\ kind \in [Ops -> DOMAIN Script] /\ \A o \in Ops : kind[o] \in Kinds[o]
    /\ phase = [o \in Ops |-> "idle"]
    /\ rest = [o \in Ops |-> Script[kind[o]]]
    /\ holder = Nobody
    /\ line = <<>>
    /\ answers = <<>>
    /\ serving = Nobody
    /\ strays = {}
    /\ misled = {}

Step(o, to) == phase' = [phase EXCEPT ![o] = to]
Doing(o, what) == rest[o] # <<>> /\ Head(rest[o]) = what
GoOn(o) == rest' = [rest EXCEPT ![o] = Tail(@)]
Answer(o, good) == [to |-> o, good |-> good]

(* The lock: tokio's Mutex, which is handed on in the order it was asked for. *)
Want(o) ==
    IF holder = Nobody THEN holder' = o /\ UNCHANGED line
    ELSE line' = Append(line, o) /\ UNCHANGED holder

Release ==
    IF line = <<>> THEN holder' = Nobody /\ UNCHANGED line
    ELSE holder' = Head(line) /\ line' = Tail(line)

(* The server stops moving what nobody takes any more, and says so. *)
ServerStops(o) ==
    /\ answers' = IF serving = o THEN Append(answers, Answer(o, FALSE)) ELSE answers
    /\ serving' = IF serving = o THEN Nobody ELSE serving

End(o, to) == Step(o, to) /\ Release

Begin(o) ==
    /\ phase[o] = "idle"
    /\ Step(o, "queued")
    /\ Want(o)
    /\ UNCHANGED <<kind, rest, channel, strays, misled>>

Got(o) ==
    /\ phase[o] = "queued" /\ holder = o
    /\ Step(o, "ready")
    /\ UNCHANGED <<kind, rest, lock, channel, strays, misled>>

(* A command is sent; the server does as it is told or refuses. *)
Say(o) ==
    /\ phase[o] = "ready" /\ (Doing(o, "asking") \/ Doing(o, "command"))
    /\ \E good \in BOOLEAN :
          /\ answers' = Append(answers, Answer(o, good))
          /\ serving' = IF good /\ Len(rest[o]) > 1 /\ rest[o][2] = "transfer" THEN o ELSE serving
    /\ Step(o, "awaiting")
    /\ UNCHANGED <<kind, rest, lock, strays, misled>>

(* The data connection is shut; the closing answer says whether it was     *)
(* whole, as far as the server knows.                                      *)
Close(o, whole) ==
    /\ phase[o] = "ready" /\ Doing(o, "closing")
    /\ answers' = IF serving = o THEN Append(answers, Answer(o, whole)) ELSE answers
    /\ serving' = IF serving = o THEN Nobody ELSE serving
    /\ Step(o, "awaiting")
    /\ UNCHANGED <<kind, rest, lock, strays, misled>>

(* Whoever reads an answer believes it.  A file whose size the server will *)
(* not say is read to its end.                                             *)
Believe(o, good) ==
    IF good \/ Doing(o, "asking")
    THEN /\ GoOn(o)
         /\ IF Len(rest[o]) = 1 THEN End(o, "done") ELSE Step(o, "ready") /\ UNCHANGED lock
    ELSE End(o, "failed") /\ UNCHANGED rest

Hear(o) ==
    /\ phase[o] = "awaiting" /\ answers # <<>>
    /\ misled' = IF Head(answers).to = o THEN misled ELSE misled \cup {o}
    /\ Believe(o, Head(answers).good)
    /\ LET left == Tail(answers)
           stops == phase'[o] = "failed" /\ serving = o
       IN  /\ answers' = IF stops THEN Append(left, Answer(o, FALSE)) ELSE left
           /\ serving' = IF stops THEN Nobody ELSE serving
    /\ UNCHANGED <<kind, strays>>

(* All of it has come or gone. *)
Transferred(o) ==
    /\ phase[o] = "ready" /\ Doing(o, "transfer")
    /\ GoOn(o)
    /\ UNCHANGED <<kind, phase, lock, channel, strays, misled>>

Again(o) ==
    /\ phase[o] = "ready" /\ Doing(o, "again")
    /\ GoOn(o)
    /\ Step(o, "queued")
    /\ IF line = <<>> THEN UNCHANGED lock
       ELSE holder' = Head(line) /\ line' = Append(Tail(line), o)
    /\ UNCHANGED <<kind, channel, strays, misled>>

ForgetAborting(o) ==    \* a mutant of StartAborting
    End(o, "over") /\ ServerStops(o) /\ UNCHANGED strays

(* A download that is not taken to its end: ABOR goes out behind it. *)
StartAborting(o) == Step(o, "aborting") /\ UNCHANGED <<lock, channel, strays>>

LeaveUnread(o) ==
    /\ End(o, "over")
    /\ ServerStops(o)
    /\ strays' = strays \cup {[op |-> o, at |-> Head(rest[o])]}

(* The transfer breaks off: a read fails, or the body being sent does. *)
BreakOff(o) ==
    /\ phase[o] = "ready" /\ Doing(o, "transfer")
    /\ IF kind[o] = "read" THEN StartAborting(o) ELSE LeaveUnread(o)
    /\ UNCHANGED <<kind, rest, misled>>

(* A mutant of Aborted. *)
AbortedHolding(o) ==
    /\ phase[o] = "aborting"
    /\ Step(o, "over")
    /\ serving' = IF serving = o THEN Nobody ELSE serving
    /\ UNCHANGED <<kind, rest, lock, answers, strays, misled>>

(* ABOR's answers are read, or as many older ones. *)
Aborted(o) ==
    /\ phase[o] = "aborting"
    /\ End(o, "over")
    /\ answers' = IF answers = <<>> THEN answers ELSE Append(Tail(answers), Answer(o, FALSE))
    /\ serving' = IF serving = o THEN Nobody ELSE serving
    /\ UNCHANGED <<kind, rest, strays, misled>>

(* A task is dropped where it waits: for the lock, for an answer, or while *)
(* a file or a listing moves.                                              *)
DropInLine(o) ==
    /\ phase[o] = "queued"
    /\ Step(o, "over")
    /\ IF holder = o THEN Release
       ELSE \E i \in DOMAIN line : line[i] = o /\ line' = RemoveAt(line, i) /\ UNCHANGED holder
    /\ UNCHANGED <<channel, strays>>

DropWaiting(o) == phase[o] = "awaiting" /\ LeaveUnread(o)

DropMoving(o) ==
    /\ phase[o] = "ready" /\ Doing(o, "transfer")
    /\ IF kind[o] = "read" THEN StartAborting(o) ELSE LeaveUnread(o)

Drop(o) ==
    /\ DropInLine(o) \/ DropWaiting(o) \/ DropMoving(o)
    /\ UNCHANGED <<kind, rest, misled>>

-----------------------------------------------------------------------------
(* Properties. *)

(* The conversation stays in step: as long as nobody was dropped while it  *)
(* waited for an answer, and no upload or listing broke off, every command *)
(* reads its own answer and leaves nothing behind - downloads let go of    *)
(* half way, refusals and deletions that take the lock twice included.     *)
InStep ==
    strays = {} => misled = {} /\ (holder = Nobody => answers = <<>> /\ serving = Nobody)

=============================================================================
