---------------------------- MODULE MCConnecting ----------------------------
(***************************************************************************)
(* A small instance of Connecting: two windows, two attempts that may cross *)
(* or follow one another, and something to do with the first connection.   *)
(***************************************************************************)
EXTENDS Connecting, TLC

CONSTANTS w1, w2, t1, t2, t3

AttemptsAndAnother ==
    t1 :> {"connect"} @@ t2 :> {"connect", "change"} @@ t3 :> {"upload"}

(* The windows are alike, so it is of no account which one asks first. *)
FirstInOneWindow == t1 :> {w1} @@ t2 :> {w1, w2} @@ t3 :> {w1, w2}
=============================================================================
