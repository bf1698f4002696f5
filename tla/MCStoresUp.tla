----------------------------- MODULE MCStoresUp -----------------------------
(***************************************************************************)
(* Folders of one name inside one another: the middle one is moved up,     *)
(* onto the outer one.                                                     *)
(***************************************************************************)
EXTENDS Stores, TLC

CONSTANTS t1, x, f, m1, m2, m3, c, h1, none

InOrder == <<Folder(<<x>>), File(<<x, f>>), Folder(<<x, x>>), File(<<x, x, f>>),
             Folder(<<x, x, x>>), File(<<x, x, x, f>>)>>
AllKeys == {InOrder[i] : i \in DOMAIN InOrder}
AllContents == {m1, m2, m3, c, t1, h1}

HalfWritten == t1 :> h1
KeptAtFirst ==
    [k \in AllKeys |-> IF k = Folder(<<x>>) THEN m1
                       ELSE IF k = Folder(<<x, x>>) THEN m2
                       ELSE IF k = Folder(<<x, x, x>>) THEN m3
                       ELSE IF k = File(<<x, x, x, f>>) THEN c ELSE none]

TheWishes == t1 :> {[do |-> "rename", at |-> <<x, x>>, to |-> <<x>>]}
NoReferences == <<>>
=============================================================================
