-------------------------- MODULE MCTransferQueue --------------------------
(***************************************************************************)
(* Two uploads to one connection of one slot, one of which may be called   *)
(* off, and the window that shows them.                                    *)
(***************************************************************************)
EXTENDS TransferQueue, TLC

CONSTANTS t1, t2

UploadsFrom == t1 :> Local @@ t2 :> Local
UploadsTo == t1 :> 1 @@ t2 :> 1

OneSlotEach == [s \in Sessions |-> 1]

TwoEach == [t \in Transfers |-> 2]
=============================================================================
