------------------------------- MODULE Stores -------------------------------
(***************************************************************************)
(* What the destinations make of a write, a read, a listing, a deletion, a *)
(* new folder and a renaming: s3.rs, azure/mod.rs, webdav.rs, sftp.rs and  *)
(* ftp.rs.                                                                 *)
(*                                                                         *)
(* An object store has keys and no folders: a folder is whatever shares a  *)
(* prefix, and an empty one a marker.  There an operation is many requests,*)
(* a listing comes in pages, and whatever else is asked of the store comes *)
(* in between.  The others have folders of their own, and an operation is  *)
(* the one request that decides.  Any request may fail, and any operation  *)
(* may be dropped where it stands, as rename_into (engine.rs) drops those  *)
(* beside one that failed.                                                 *)
(***************************************************************************)
EXTENDS Tree, Answers

CONSTANTS
    KeyOrder,               \* the keys in the order a store lists them
    Makes,                  \* which destinations are looked at
    Tasks,                  \* operations
    Wishes,                 \* what each of them may be
    Torn,                   \* what each leaves while it is filling a file
    AtFirst,                \* what is kept before any of them
    PageSize,               \* how much one page of a listing holds
    BatchSize,              \* how many keys one request deletes
    CopiesAtOnce            \* COPIES_AT_ONCE

ObjectStores == {"s3", "azure"}
Ops == [do : {"write", "read", "list", "delete", "create", "rename"},
        at : Paths \cup {<<>>}, to : Paths]

ASSUME StoresAssumption ==
    /\ Makes \subseteq ObjectStores \cup {"dav", "sftp"}
    /\ Wishes \in [Tasks -> SUBSET Ops]
    /\ AtFirst \in [Keys -> Contents \cup {None}]
    /\ Makes \subseteq ObjectStores \/ WellFormed(AtFirst)
    /\ KeyOrder \in Seq(Keys) /\ Range(KeyOrder) = Keys /\ IsInjective(KeyOrder)
    /\ \A k \in Keys : Front(k.path) = <<>> \/ Folder(Front(k.path)) \in Keys
    /\ Tasks \subseteq Contents /\ Torn \in [Tasks -> Contents \ Tasks]
    /\ \A t \in Tasks, k \in Keys : AtFirst[k] # Torn[t]
    /\ \A t \in Tasks : \A o \in Wishes[t] :
          o.do = "rename" /\ ~IsPrefix(o.at, o.to) =>
              \A k \in Under(o.at) \cup ({File(o.at)} \cap Keys) : Rebase(k, o.at, o.to) \in Keys
    /\ PageSize \in Nat \ {0} /\ BatchSize \in Nat \ {0} /\ CopiesAtOnce \in Nat \ {0}

(* No name is written with a reference: webdav.rs and azure/mod.rs read    *)
(* those wrong, and find nothing under what they read.                     *)
ASSUME NamesArePlain == Keys \cap DOMAIN AfterReference = {}

VARIABLES
    make,     \* what kind of destination this is
    objects,  \* what it keeps
    op,       \* what each operation is
    phase,    \* how far it has got
    folder,   \* what it was told the thing is
    cursor,   \* how far its listing has come
    keys,     \* what its listing has named
    moved,    \* what it has copied or deleted of that
    clearing, \* is it a renaming that is down to its deletion?
    \* What happened, for the properties to speak of:
    stood,    \* what has been there, as it was, ever since the operation began
    meant,    \* what a renaming that is down to its deletion was to move
    spared,   \* what the store refused to delete without saying so
    excused,  \* contents somebody asked to be rid of
    astray,   \* contents a renaming took away from where it had copied nothing
    seen,     \* the tree as somebody who waits for every answer sees it
    heard,    \* the answer to their last question
    apart     \* have the operations kept apart, and been answered?

mine == <<op, folder, cursor, keys, moved, clearing>>
history == <<stood, meant, spared, excused, astray, seen, heard, apart>>
vars == <<make, objects, mine, phase, history>>

M == INSTANCE Memory WITH tree <- seen, told <- heard

Rank(k) == CHOOSE i \in DOMAIN KeyOrder : KeyOrder[i] = k
First(ks, n) == {k \in ks : Cardinality({j \in ks : Rank(j) < Rank(k)}) < n}
Held(ks) == {k \in ks : There(objects, k)}

IsObjectStore == make \in ObjectStores

Init ==
    /\ make \in Makes
    /\ objects = AtFirst
    /\ op \in [Tasks -> Ops] /\ \A t \in Tasks : op[t] \in Wishes[t]
    /\ phase = [t \in Tasks |-> "idle"]
    /\ folder = [t \in Tasks |-> FALSE]
    /\ cursor = [t \in Tasks |-> 0]
    /\ keys = [t \in Tasks |-> {}]
    /\ moved = [t \in Tasks |-> {}]
    /\ clearing = [t \in Tasks |-> FALSE]
    /\ stood = [t \in Tasks |-> {}]
    /\ meant = [t \in Tasks |-> {}]
    /\ spared = {}
    /\ excused = {}
    /\ astray = {}
    /\ seen = AtFirst
    /\ heard = {}
    /\ apart = TRUE

-----------------------------------------------------------------------------
(* How an operation goes on. *)

Over == {"idle", "done", "failed"}
Live(t) == phase[t] \notin Over
Step(t, to) == phase' = [phase EXCEPT ![t] = to]

(* Every change of what is kept is noted by the operations beside it, and  *)
(* what one puts in the way of itself by that one too.                     *)
Change(t, after) ==
    /\ objects' = after
    /\ stood' = [u \in Tasks |->
                   {k \in stood[u] : after[k] = objects[k] \/ (u = t /\ after[k] = None)}]
    /\ UNCHANGED meant

Excuse(contents) == excused' = excused \cup (contents \ {None})
NothingKept == UNCHANGED <<objects, stood, meant, spared, excused, astray>>

Lawful(o, t) ==
    CASE o.do = "write" -> CanWrite(t, o.at)
      [] o.do = "read" -> There(t, File(o.at))
      [] o.do = "list" -> HasFolder(t, o.at)
      [] o.do = "delete" -> CanDelete(t, o.at)
      [] o.do = "create" -> CanCreate(t, o.at)
      [] o.do = "rename" -> CanRename(t, o.at, o.to)

Begin(t) ==
    /\ phase[t] = "idle"
    /\ ~(op[t].do = "rename" /\ IsPrefix(op[t].at, op[t].to))
    /\ Step(t, CASE op[t].do = "write" -> "sending"
                 [] op[t].do = "list" /\ IsObjectStore -> "leafing"
                 [] op[t].do = "create" /\ IsObjectStore -> "probing"
                 [] op[t].do \in {"delete", "rename"} /\ IsObjectStore -> "heading"
                 [] op[t].do = "delete" /\ make = "sftp" -> "heading"
                 [] OTHER -> "sending")
    /\ stood' = [stood EXCEPT ![t] = Held(Under(op[t].at) \cup {File(op[t].at)})]
    /\ apart' = (apart /\ (\A u \in Tasks : ~Live(u)) /\ Lawful(op[t], seen))
    /\ UNCHANGED <<make, objects, mine, meant, spared, excused, astray, seen, heard>>

(* A folder is not moved inside itself: relocate says so before anything   *)
(* is asked of the destination.                                            *)
RefuseInside(t) ==
    /\ phase[t] = "idle"
    /\ op[t].do = "rename" /\ IsPrefix(op[t].at, op[t].to)
    /\ Step(t, "failed")
    /\ UNCHANGED <<make, objects, mine, history>>

(* A request is refused, or the operation is dropped. *)
Fail(t) ==
    /\ Live(t)
    /\ Step(t, "failed")
    /\ apart' = FALSE
    /\ UNCHANGED <<make, mine, seen, heard>>

FailQuietly(t) == Fail(t) /\ phase[t] \notin {"copying", "deleting"} /\ NothingKept

(* It is done, and whoever waited for it looks at what there is now. *)
Done(t, after, answer) ==
    /\ Step(t, "done")
    /\ seen' = IF apart THEN after ELSE seen
    /\ heard' = IF apart THEN answer ELSE heard
    /\ UNCHANGED <<make, apart>>

-----------------------------------------------------------------------------
(* The file is put where it is to be; a folder is asked for. *)

(* A store takes whatever it is sent, and gives what it has.  Any other    *)
(* destination has the rules of the provider in memory, but webdav takes a *)
(* folder away with all that is in it, and lists a file as an empty folder.*)
StoreTakes(t) == op[t].do = "read" => There(objects, File(op[t].at))
Finds(t) == Held({File(op[t].at), Folder(op[t].at)}) # {}

Takes(t) ==
    \/ IsObjectStore /\ StoreTakes(t)
    \/ op[t].do \in {"delete", "list"} /\ make = "dav" /\ Finds(t)
    \/ op[t].do = "delete" /\ make = "sftp"
         /\ folder[t] = There(objects, Folder(op[t].at)) /\ Lawful(op[t], objects)
    \/ op[t].do # "delete" /\ ~IsObjectStore /\ Lawful(op[t], objects)

Result(t) ==
    CASE op[t].do = "write" -> Put(objects, File(op[t].at), t)
      [] op[t].do = "create" -> Put(objects, Folder(op[t].at), t)
      [] op[t].do = "delete" -> Without(objects, Moving(objects, op[t].at))
      [] op[t].do = "rename" -> Moved(objects, op[t].at, op[t].to)
      [] op[t].do \in {"read", "list"} -> objects

(* A multistatus names the folder itself among what is in it, and a file   *)
(* when it was a file that was listed.                                     *)
Propfind(p) ==
    parse_multistatus(MultistatusOf(Held({File(p), Folder(p)}) \cup Listed(objects, p), Len(p) > 0))

IsSamePlaceAs(k, p) == k.path = p
IntoEntry(found) == IF found.isCollection THEN Folder(found.href.path) ELSE File(found.href.path)

ListedByDav(p) ==
    LET found == Propfind(p)
    IN  {IntoEntry(found[i]) :
            i \in {j \in DOMAIN found : ~IsSamePlaceAs(found[j].href, p)}}

Got(t) == {objects[File(op[t].at)]}

Reply(t) ==
    CASE op[t].do = "read" -> Got(t)
      [] op[t].do = "list" /\ make = "dav" -> ListedByDav(op[t].at)
      [] op[t].do = "list" /\ make # "dav" -> Listed(objects, op[t].at)
      [] OTHER -> heard

Send(t) ==
    /\ phase[t] = "sending" /\ ~(op[t].do = "write" /\ make = "sftp")
    /\ Takes(t)
    /\ Change(t, Result(t))
    /\ Excuse(IF op[t].do = "write" THEN {objects[File(op[t].at)]}
              ELSE IF op[t].do = "delete" THEN {objects[k] : k \in Moving(objects, op[t].at)}
              ELSE {})
    /\ Done(t, Result(t), Reply(t))
    /\ UNCHANGED <<mine, spared, astray>>

(* A file of a filesystem is emptied when it is opened, and filled after.  *)
Truncate(t) ==
    /\ phase[t] = "sending" /\ op[t].do = "write" /\ make = "sftp"
    /\ Takes(t)
    /\ Change(t, Put(objects, File(op[t].at), Torn[t]))
    /\ Excuse({objects[File(op[t].at)]})
    /\ Step(t, "filling")
    /\ UNCHANGED <<make, mine, spared, astray, seen, heard, apart>>

(* What is open is filled wherever it has been moved to. *)
Fill(t) ==
    LET filled == [k \in Keys |-> IF objects[k] = Torn[t] THEN t ELSE objects[k]]
    IN  /\ phase[t] = "filling"
        /\ Change(t, filled)
        /\ Done(t, filled, heard)
        /\ UNCHANGED <<mine, spared, excused, astray>>

-----------------------------------------------------------------------------
(* What is it?  An object of that name, or a prefix others share. *)

HeadFile(t) ==
    /\ phase[t] = "heading" /\ IsObjectStore
    /\ There(objects, File(op[t].at))
    /\ folder' = [folder EXCEPT ![t] = FALSE]
    /\ keys' = [keys EXCEPT ![t] = {File(op[t].at)}]
    /\ moved' = [moved EXCEPT ![t] = {}]
    /\ Step(t, IF op[t].do = "rename" /\ ~clearing[t] THEN "copying" ELSE "deleting")
    /\ UNCHANGED <<make, op, cursor, clearing, seen, heard, apart>>

(* S3's says that there is none whenever there was no answer. *)
HeadNothing(t) ==
    /\ phase[t] = "heading" /\ IsObjectStore
    /\ ~There(objects, File(op[t].at)) \/ make = "s3"
    /\ Step(t, "probing")
    /\ apart' = (apart /\ ~There(objects, File(op[t].at)))
    /\ UNCHANGED <<make, mine, seen, heard>>

StatOne(t) ==
    /\ phase[t] = "heading" /\ ~IsObjectStore
    /\ Held({File(op[t].at), Folder(op[t].at)}) # {}
    /\ folder' = [folder EXCEPT ![t] = There(objects, Folder(op[t].at))]
    /\ Step(t, "sending")
    /\ UNCHANGED <<make, op, cursor, keys, moved, clearing, seen, heard, apart>>

FolderExists(t) == Held(Under(op[t].at)) # {}

Probe(t) ==
    /\ phase[t] = "probing" /\ FolderExists(t) = (op[t].do # "create")
    /\ IF op[t].do = "create"
       THEN Step(t, "sending") /\ UNCHANGED mine
       ELSE /\ Step(t, "listing")
            /\ folder' = [folder EXCEPT ![t] = TRUE]
            /\ cursor' = [cursor EXCEPT ![t] = 0]
            /\ keys' = [keys EXCEPT ![t] = {}]
            /\ moved' = [moved EXCEPT ![t] = {}]
            /\ UNCHANGED <<op, clearing>>
    /\ UNCHANGED <<make, seen, heard, apart>>

(* A store answers with so much, and where to go on.  Azure's answers are  *)
(* documents, S3's are taken apart by its client.                          *)
Answered(rest, prefixes) ==
    LET page == First(rest, PageSize)
        ends == CHOOSE k \in page : \A j \in page : Rank(j) <= Rank(k)
    IN  [blobs |-> page \ prefixes, folders |-> page \cap prefixes,
         next |-> IF page = rest THEN <<>> ELSE <<Rank(ends)>>]

Heard(answer) == IF make = "azure" THEN parse_listing(EnumerationOf(answer)) ELSE answer

OnlyOnePage(answer) == TRUE    \* a mutant of NoMorePages
NoMorePages(answer) == answer.next = <<>>

(* Everything under the prefix, page after page. *)
Page(t) ==
    LET rest == {k \in Held(Under(op[t].at)) : Rank(k) > cursor[t]}
        answer == Heard(Answered(rest, {}))
    IN  /\ phase[t] = "listing"
        /\ keys' = [keys EXCEPT ![t] = @ \cup answer.blobs]
        /\ IF NoMorePages(answer)
           THEN /\ keys'[t] # {} \/ op[t].do = "delete" \/ clearing[t]
                /\ Step(t, IF op[t].do = "rename" /\ ~clearing[t] THEN "copying" ELSE "deleting")
                /\ UNCHANGED cursor
           ELSE /\ cursor' = [cursor EXCEPT ![t] = answer.next[1]]
                /\ UNCHANGED phase
        /\ UNCHANGED <<make, op, folder, moved, clearing, seen, heard, apart>>

(* With a delimiter, whatever lies deeper is named once, as the folder it  *)
(* is in.                                                                  *)
Deeper(p) ==
    {Folder(SubSeq(k.path, 1, Len(p) + 1)) :
        k \in {j \in Held(Under(p)) \ {Folder(p)} : j.folder \/ Len(j.path) > Len(p) + 1}}
Directly(p) == {k \in Held(Under(p)) : k = Folder(p) \/ (~k.folder /\ Len(k.path) = Len(p) + 1)}

(* The marker of the folder itself is not one of its entries. *)
Entries(p, answer) == answer.folders \cup (answer.blobs \ {Folder(p)})

LeafPage(t) ==
    LET p == op[t].at
        rest == {k \in Directly(p) \cup Deeper(p) : Rank(k) > cursor[t]}
        answer == Heard(Answered(rest, Deeper(p)))
    IN  /\ phase[t] = "leafing"
        /\ keys' = [keys EXCEPT ![t] = @ \cup Entries(p, answer)]
        /\ IF NoMorePages(answer)
           THEN Done(t, objects, keys'[t]) /\ UNCHANGED cursor
           ELSE /\ cursor' = [cursor EXCEPT ![t] = answer.next[1]]
                /\ UNCHANGED <<make, phase, seen, heard, apart>>
        /\ UNCHANGED <<op, folder, moved, clearing>>

Asking(t) == LeafPage(t) \/ HeadFile(t) \/ HeadNothing(t) \/ StatOne(t) \/ Probe(t) \/ Page(t)

-----------------------------------------------------------------------------
(* A renaming is copies, and then deletions. *)

TargetAsOne(t, k) == File(op[t].to)    \* a mutant of Target
Target(t, k) ==
    IF folder[t] THEN Rebase(k, op[t].at, op[t].to) ELSE File(op[t].to)

InTheAir(t) == First(keys[t] \ moved[t], CopiesAtOnce)

Copied(t, ks) ==
    [k \in Keys |->
        IF \E j \in ks : Target(t, j) = k
        THEN objects[CHOOSE j \in ks : Target(t, j) = k] ELSE objects[k]]

CopyEach(t, ks) ==
    /\ Change(t, Copied(t, ks))
    /\ Excuse({objects[Target(t, k)] : k \in ks})
    /\ UNCHANGED <<spared, astray>>

Copy(t) ==
    /\ phase[t] = "copying"
    /\ \E k \in Held(InTheAir(t)) :
          CopyEach(t, {k}) /\ moved' = [moved EXCEPT ![t] = @ \cup {k}]
    /\ UNCHANGED <<make, phase, op, folder, cursor, keys, clearing, seen, heard, apart>>

(* One that fails drops the others, which the store may carry out all the  *)
(* same.                                                                   *)
CopyFails(t) ==
    /\ phase[t] = "copying"
    /\ Fail(t)
    /\ \E ks \in SUBSET Held(InTheAir(t)) : CopyEach(t, ks)

SomeMoved(t) == moved[t] # {}    \* a mutant of AllMoved
AllMoved(t) == moved[t] = keys[t]

(* S3 goes on to delete what was copied; Azure deletes the old name, and   *)
(* asks once more what it is.                                              *)
AllCopied(t) ==
    /\ phase[t] = "copying" /\ AllMoved(t)
    /\ clearing' = [clearing EXCEPT ![t] = TRUE]
    /\ moved' = [moved EXCEPT ![t] = {}]
    /\ Step(t, IF make = "s3" THEN "deleting" ELSE "heading")
    /\ meant' = [meant EXCEPT ![t] = keys[t]]
    /\ UNCHANGED <<make, objects, op, folder, cursor, keys, stood, spared, excused, astray,
                   seen, heard, apart>>

-----------------------------------------------------------------------------
(* Deletions: Azure's one by one, S3's by the thousand, with an answer     *)
(* that succeeds whatever became of each key.                              *)

Batch(t) == First(keys[t] \ moved[t], IF make = "s3" THEN BatchSize ELSE 1)

(* What a renaming has copied, and has stayed as it was copied since. *)
CopiedFrom(t) == meant[t] \cap stood[t]

(* Deleting was asked for.  A renaming takes away what it copied, but what  *)
(* has been put there since goes with it, and so does what Azure's finds   *)
(* when it asks once more.                                                 *)
DeleteEach(t, ks) ==
    /\ IF op[t].do = "delete"
       THEN Excuse({objects[k] : k \in ks}) /\ UNCHANGED astray
       ELSE /\ astray' = astray \cup {objects[k] : k \in ks \ CopiedFrom(t)}
            /\ UNCHANGED excused
    /\ Change(t, Without(objects, ks))

DeleteSome(t) ==
    /\ phase[t] = "deleting" /\ keys[t] # moved[t]
    /\ \E kept \in IF make = "s3" THEN SUBSET Batch(t) ELSE {{}} :
          /\ DeleteEach(t, Batch(t) \ kept)
          /\ spared' = spared \cup Held(kept)
          /\ apart' = (apart /\ kept = {})
    /\ moved' = [moved EXCEPT ![t] = @ \cup Batch(t)]
    /\ UNCHANGED <<make, phase, op, folder, cursor, keys, clearing, seen, heard>>

DeleteFails(t) ==
    /\ phase[t] = "deleting" /\ keys[t] # moved[t]
    /\ Fail(t)
    /\ \E ks \in SUBSET Batch(t) : DeleteEach(t, ks)
    /\ UNCHANGED spared

AllDeleted(t) ==
    /\ phase[t] = "deleting" /\ AllMoved(t)
    /\ Done(t, objects, heard)
    /\ NothingKept
    /\ UNCHANGED mine

-----------------------------------------------------------------------------
Task(t) ==
    \/ Begin(t) \/ RefuseInside(t) \/ FailQuietly(t)
    \/ Send(t) \/ Truncate(t) \/ Fill(t)
    \/ Asking(t) /\ NothingKept
    \/ Copy(t) \/ CopyFails(t) \/ AllCopied(t)
    \/ DeleteSome(t) \/ DeleteFails(t) \/ AllDeleted(t)

Next == \E t \in Tasks : Task(t)

Spec == Init /\ [][Next]_vars

-----------------------------------------------------------------------------
(* Properties. *)

(* Nothing is ever lost to a renaming: whatever a file held is still kept   *)
(* under some key unless somebody asked to be rid of it.  Asking is a      *)
(* deletion or writing over it; a store also lets a renaming write over    *)
(* what it finds.  Failures and dropped operations lose nothing.  What a   *)
(* renaming takes away from where it had copied nothing is left out here:  *)
(* what was put under the old names while it copied, by others or by the   *)
(* renaming itself, and what only Azure's second look finds.               *)
NothingIsLost ==
    \A k \in Keys : AtFirst[k] # None /\ ~k.folder =>
        AtFirst[k] \in excused \cup astray \/ \E j \in Keys : objects[j] = AtFirst[k]

(* And none is taken away before it is copied (azure/mod.rs rename: "every  *)
(* one of them before anything is deleted").                               *)
EveryCopyComesFirst ==
    \A k \in Keys : AtFirst[k] # None /\ ~k.folder =>
        AtFirst[k] \in excused \/ \E j \in Keys : objects[j] = AtFirst[k]

(* A deletion or a renaming that is told done has taken away all that was  *)
(* there from its beginning, however many pages it was listed in - except  *)
(* what the store spared without saying so - and a listing names all that  *)
(* was in the folder from its beginning to its end, whatever came and went *)
(* between its pages.                                                      *)
NothingIsOverlooked ==
    \A t \in Tasks : phase[t] = "done" /\ IsObjectStore =>
        /\ op[t].do \in {"delete", "rename"} =>
              \A k \in stood[t] : folder[t] = (k # File(op[t].at)) =>
                  objects[k] = None \/ k \in spared
        /\ op[t].do = "list" =>
              \A k \in (stood[t] \cap Under(op[t].at)) \ {Folder(op[t].at)} : \E shown \in keys[t] :
                  k = shown \/ (shown.folder /\ IsPrefix(shown.path, k.path))

(* To somebody who does one thing after another, each of them one that the *)
(* provider in memory takes, and sees no request refused, every            *)
(* destination is the provider in memory.                                  *)
ConformsToMemory == M!Spec
=============================================================================
