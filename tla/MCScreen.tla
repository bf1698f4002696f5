------------------------------ MODULE MCScreen ------------------------------
(***************************************************************************)
(* A folder with a file and one without: one command opens a folder, one   *)
(* opens one, deletes or moves, and the third reads the folder again, for  *)
(* a person or for two uploads into one folder.                            *)
(***************************************************************************)
EXTENDS Screen, TLC

CONSTANTS c1, c2, c3, root, photos, note, pear, up, also

MCKinds ==
    c1 :> {"open"} @@ c2 :> {"open", "change", "create"} @@ c3 :> {"refresh"}
MCHeld == root :> {} @@ photos :> {note}
MCInto == up :> root @@ also :> root
MCCalled == up :> pear @@ also :> note
MCAfterwards == up :> c3 @@ also :> c3
=============================================================================
