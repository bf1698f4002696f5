------------------------------- MODULE Memory -------------------------------
(***************************************************************************)
(* What a destination promises: the provider in memory (memory.rs), which  *)
(* the conformance tests (conformance.rs) hold every other provider to.    *)
(* Every operation is one step, and one that is refused changes nothing.   *)
(***************************************************************************)
EXTENDS Tree

VARIABLES
    tree,
    told    \* what the last question was answered with

vars == <<tree, told>>

Write(p, c) == CanWrite(tree, p) /\ tree' = Put(tree, File(p), c) /\ UNCHANGED told
Delete(p) == CanDelete(tree, p) /\ tree' = Without(tree, Moving(tree, p)) /\ UNCHANGED told
CreateFolder(p) ==
    /\ \E c \in Contents : CanCreate(tree, p) /\ tree' = Put(tree, Folder(p), c)
    /\ UNCHANGED told
Rename(p, q) == CanRename(tree, p, q) /\ tree' = Moved(tree, p, q) /\ UNCHANGED told

List(p) == HasFolder(tree, p) /\ told' = Listed(tree, p) /\ UNCHANGED tree
Read(p) == There(tree, File(p)) /\ told' = {tree[File(p)]} /\ UNCHANGED tree

Init ==
    /\ tree \in [Keys -> Contents \cup {None}]
    /\ WellFormed(tree)
    /\ told = {}

Next ==
    \/ \E p \in Paths \cup {<<>>} : List(p)
    \/ \E p \in Paths :
        \/ \E c \in Contents : Write(p, c)
        \/ Delete(p)
        \/ CreateFolder(p)
        \/ Read(p)
        \/ \E q \in Paths : Rename(p, q)

Spec == Init /\ [][Next]_vars
=============================================================================
