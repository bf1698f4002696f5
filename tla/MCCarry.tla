------------------------------ MODULE MCCarry ------------------------------
(***************************************************************************)
(* One file carried either way, and on the same FTP connection a deletion, *)
(* which is a listing and a command, and a renaming, which is two commands.*)
(***************************************************************************)
EXTENDS Carry, TLC

CONSTANTS c, p, q

OneFile == c :> {"read", "write"} @@ p :> {"delete"} @@ q :> {"rename"}
=============================================================================
