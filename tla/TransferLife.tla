---------------------------- MODULE TransferLife ----------------------------
(***************************************************************************)
(* What Running::start promises whoever hands it a transfer, with nothing  *)
(* of how it is done: the transfer waits, moves while every connection it  *)
(* occupies has room for it, and is over; it may be called off while it    *)
(* waits; and no connection ever moves more transfers than it has slots.   *)
(***************************************************************************)
EXTENDS Integers, FiniteSets

CONSTANTS
    Transfers,
    Sessions,
    Occupied,   \* the connections each transfer occupies
    Slots       \* how many transfers each connection moves at once

VARIABLE stage

Stages == {"absent", "waiting", "moving", "over"}

Moving(s) == {t \in Transfers : stage[t] = "moving" /\ s \in Occupied[t]}

HasRoom(s) == Cardinality(Moving(s)) < Slots[s]

Init == stage = [t \in Transfers |-> "absent"]

Add(t) ==
    /\ stage[t] = "absent"
    /\ stage' = [stage EXCEPT ![t] = "waiting"]

Move(t) ==
    /\ stage[t] = "waiting"
    /\ \A s \in Occupied[t] : HasRoom(s)
    /\ stage' = [stage EXCEPT ![t] = "moving"]

Leave(t) ==
    /\ stage[t] \in {"waiting", "moving"}
    /\ stage' = [stage EXCEPT ![t] = "over"]

Next == \E t \in Transfers : Add(t) \/ Move(t) \/ Leave(t)

Spec == Init /\ [][Next]_stage
=============================================================================
