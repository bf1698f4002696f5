------------------------------- MODULE MCParts -------------------------------
(***************************************************************************)
(* Small instances of Parts.  A megabyte is two bytes and the budget four  *)
(* megabytes.                                                              *)
(***************************************************************************)
EXTENDS Parts, TLC

CONSTANTS s3, azure, d1, d2, d3, u1, u2, u3

Store == [smallest |-> 2, largest |-> 12, most |-> 3]

Stores == s3 :> Store @@ azure :> [Store EXCEPT !.most = 2]

Where == d1 :> s3 @@ d2 :> s3 @@ d3 :> s3 @@ u1 :> s3 @@ u2 :> azure @@ u3 :> azure

(* The second upload is a copy. *)
From == u1 :> File @@ u2 :> d2 @@ u3 :> File

(* For each flow, how long it is and how long it was listed as: longer or  *)
(* shorter than it is, a copy whose pieces are smaller than its parts, an  *)
(* upload of more parts than may be in the air, and one whose parts are    *)
(* larger than the budget.                                                 *)
Long ==
    d1 :> {<<5, 3>>} @@ d2 :> {<<5, 3>>}
        @@ d3 :> {<<3, 5>>} @@ u1 :> {<<9, 9>>} @@ u2 :> {<<5, 3>>} @@ u3 :> {<<17, 17>>}

(* A download beside an upload, one beside a copy from the same store, and *)
(* the upload that is larger than the budget.                              *)
SideBySide == {{d1, u1}, {d2, d3, u2}, {u3}}

(* A download of pieces as large as parts.rs prefers, half the budget: a   *)
(* piece to begin with, and four more.                                     *)
Alone == {{d1}}

Large == [x \in {d1, d2, d3, u1, u2, u3} |-> {<<20, 20>>}]

AnyStore == [c \in {s3, azure} |-> [Store EXCEPT !.largest = 40, !.most = 40]]
=============================================================================
