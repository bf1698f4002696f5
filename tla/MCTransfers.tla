---------------------------- MODULE MCTransfers ----------------------------
(***************************************************************************)
(* A small instance of Transfers.  Two connections with a slot each, which *)
(* are fought over, and three transfers, so that one can be the last of a  *)
(* batch while another is called off.                                      *)
(***************************************************************************)
EXTENDS Transfers, TLC

CONSTANTS t1, t2, t3

(* Files dragged both ways between two connections, and an upload. *)
CrossingFrom == t1 :> 1 @@ t2 :> 2 @@ t3 :> Local
CrossingTo == t1 :> 2 @@ t2 :> 1 @@ t3 :> 1

OneSlotEach == [s \in Sessions |-> 1]

OneReports == t1 :> 1 @@ t2 :> 1 @@ t3 :> 2
=============================================================================
