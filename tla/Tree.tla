-------------------------------- MODULE Tree --------------------------------
(***************************************************************************)
(* What a destination keeps, and what the provider in memory (memory.rs)   *)
(* makes of each operation and when it takes it.                           *)
(*                                                                         *)
(* A path is a sequence of names.  A tree says what is kept under each     *)
(* key: the key of a folder is there when the folder is, the key of a file *)
(* holds its contents.                                                     *)
(***************************************************************************)
EXTENDS Integers, Sequences, FiniteSets, SequencesExt

CONSTANTS
    Keys,      \* the keys of every file and folder there may be
    Contents,  \* what a file may hold
    None       \* nothing is kept here

File(p) == [path |-> p, folder |-> FALSE]
Folder(p) == [path |-> p, folder |-> TRUE]

ASSUME TreeAssumption ==
    /\ \A k \in Keys : /\ k = File(k.path) \/ k = Folder(k.path)
                       /\ k.path # <<>> /\ k.path \in Seq(Range(k.path))
    /\ None \notin Contents

Paths == {k.path : k \in Keys}

(* What is kept under a folder, the folder itself included. *)
Under(p) == {k \in Keys : IsPrefix(p, k.path) /\ k # File(p)}

There(t, k) == k \in Keys /\ t[k] # None

HasFolder(t, p) == p = <<>> \/ There(t, Folder(p))      \* require_folder
IsFree(t, p) == ~There(t, File(p)) /\ ~HasFolder(t, p)  \* require_free
HasParent(t, p) == p # <<>> /\ HasFolder(t, Front(p))   \* require_parent_folder
IsEmptyFolder(t, p) == \A k \in Under(p) \ {Folder(p)} : t[k] = None

(* The same place, seen from the folder's new name. *)
Rebase(k, from, to) == [k EXCEPT !.path = to \o SubSeq(@, Len(from) + 1, Len(@))]

Put(t, k, c) == [t EXCEPT ![k] = c]
Without(t, ks) == [k \in Keys |-> IF k \in ks THEN None ELSE t[k]]
Moving(t, p) == IF There(t, Folder(p)) THEN Under(p) ELSE {File(p)}
Moved(t, from, to) ==
    [k \in Keys |->
        LET was == {j \in Moving(t, from) : t[j] # None /\ Rebase(j, from, to) = k}
        IN  IF was # {} THEN t[CHOOSE j \in was : TRUE]
            ELSE IF k \in Moving(t, from) THEN None ELSE t[k]]

CanWrite(t, p) == ~HasFolder(t, p) /\ HasParent(t, p)
CanDelete(t, p) == There(t, File(p)) \/ (There(t, Folder(p)) /\ IsEmptyFolder(t, p))
CanCreate(t, p) == HasParent(t, p) /\ IsFree(t, p)
CanRename(t, p, q) == (p # <<>> /\ ~IsFree(t, p)) /\ HasParent(t, q) /\ IsFree(t, q) /\ ~IsPrefix(p, q)

(* What a folder shows: what lies directly in it. *)
Listed(t, p) == {k \in Keys : t[k] # None /\ Front(k.path) = p}

(* Everything lies in a folder, and nothing is a file and a folder at once. *)
WellFormed(t) ==
    \A k \in Keys : t[k] # None =>
        HasParent(t, k.path) /\ ~(There(t, File(k.path)) /\ There(t, Folder(k.path)))
=============================================================================
