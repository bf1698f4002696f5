------------------------------- MODULE Trees -------------------------------
(***************************************************************************)
(* Dropping files and folders somewhere, and deleting them: upload,        *)
(* carry_across, download and delete of engine.rs, and delete_recursively  *)
(* of provider.rs.  Each decides what is to travel and under which name;   *)
(* the transfers it hands over are those of Transfers.                     *)
(*                                                                         *)
(* A name is a sequence: the name proper, and the numbers Keep Both has    *)
(* put after it.  A path is a sequence of names, and Nodes holds the paths *)
(* of what may be dragged: those of a server, and for an upload those of   *)
(* this machine.  Drops and deletions run side by side, and every request  *)
(* may be refused.                                                         *)
(***************************************************************************)
EXTENDS Integers, Sequences, FiniteSets, SequencesExt

CONSTANTS
    Drops,          \* gestures that bring something somewhere
    Kinds,          \* what each of them may be
    Into,           \* the folder each of them is dropped into
    Dragged,        \* what it brings, in order
    Held,           \* the names each such folder holds to begin with
    Deletions,      \* deletions
    Doomed,         \* what each of them is to take away, in order
    Nodes,          \* every path there is at first
    Folders,        \* those of them that are folders
    FoldersAtOnce   \* FOLDERS_AT_ONCE

DropKinds == {"upload", "carry", "download"}

ASSUME TreesAssumption ==
    /\ Kinds \in [Drops -> SUBSET DropKinds]
    /\ Dragged \in [Drops -> Seq(Nodes)]
    /\ Doomed \in [Deletions -> Seq(Nodes)]
    /\ \A p \in Nodes : p # <<>> /\ Last(p) \in Seq(Range(Last(p)))
    /\ Folders \subseteq Nodes
    /\ IsFiniteSet(Nodes) /\ \A d \in Drops : IsFiniteSet(Held[Into[d]])
    /\ FoldersAtOnce \in Nat \ {0}

(* Whatever lies below something lies in a folder that is there too.  What *)
(* is dragged is picked from one list, each thing once, and on a server    *)
(* nothing together with what it holds.                                    *)
ASSUME ForestAssumption ==
    /\ \A p \in Nodes :
          /\ p \in Seq(Range(p))
          /\ Front(p) \in Folders \/ \A q \in Nodes : IsPrefix(q, p) => q = p
    /\ \A d \in Drops :
          /\ IsInjective(Dragged[d])
          /\ Kinds[d] # {"upload"} =>
                \A p, q \in Range(Dragged[d]) : IsPrefix(p, q) => p = q

VARIABLES
    kind,     \* what each drop is
    phase,    \* how far it has got
    todo,     \* what it has not looked at yet
    taken,    \* the names it takes to be in use where it is dropped
    called,   \* what the one it is looking at will be called
    waiting,  \* the queue of its walk
    air,      \* the folders it is making and listing
    handed,   \* the files it has handed over, in order
    there,    \* the paths that exist in each folder dropped into
    gone,     \* what has been deleted
    doing,    \* how far each deletion has got
    left,     \* what it was asked for and has not begun
    stack,    \* the folders it is in the middle of
    \* What happened, for the properties to speak of:
    found,    \* the names each drop found where it was dropped
    brought   \* what it set out to bring, as what, and what a person said of it

drops == <<kind, phase, todo, taken, called, waiting, air, handed, found, brought>>
deletions == <<gone, doing, left, stack>>
vars == <<drops, there, deletions>>

Name(at) == Last(at)
Path(item) == Append(item.in, item.name)
Children(at) == {p \in Nodes \ gone : Front(p) = at}
Below(at) == {p \in Nodes : IsPrefix(at, p)}

(* What "keep both" means: the first number that makes the name free. *)
Beside(name, used) ==
    LET free == {k \in 2..(Cardinality(used) + 2) : Append(name, k) \notin used}
    IN  Append(name, CHOOSE k \in free : \A j \in free : k <= j)

Init ==
    /\ kind \in [Drops -> DropKinds]
    /\ \A d \in Drops : kind[d] \in Kinds[d]
    /\ phase = [d \in Drops |-> IF kind[d] = "download" THEN "next" ELSE "reading"]
    /\ todo = Dragged
    /\ taken = [d \in Drops |-> {}]
    /\ called = [d \in Drops |-> <<>>]
    /\ waiting = [d \in Drops |-> <<>>]
    /\ air = [d \in Drops |-> {}]
    /\ handed = [d \in Drops |-> <<>>]
    /\ there = [f \in {Into[d] : d \in Drops} |-> {<<n>> : n \in Held[f]}]
    /\ gone = {}
    /\ doing = [x \in Deletions |-> "next"]
    /\ left = Doomed
    /\ stack = [x \in Deletions |-> <<>>]
    /\ found = [d \in Drops |-> {}]
    /\ brought = [d \in Drops |-> <<>>]

Step(d, to) == phase' = [phase EXCEPT ![d] = to]

-----------------------------------------------------------------------------
(* What to bring, and as what. *)

(* What the folder holds is asked once for the whole drop. *)
ReadFolder(d) ==
    /\ phase[d] = "reading"
    /\ LET names == {p[1] : p \in there[Into[d]]}
       IN  /\ taken' = [taken EXCEPT ![d] = names]
           /\ found' = [found EXCEPT ![d] = names]
    /\ Step(d, "next")
    /\ UNCHANGED <<kind, todo, called, waiting, air, handed, brought>>

(* Whatever fails ends the drop: what was handed over stays handed over.   *)
Fail(d) ==
    /\ Step(d, "failed")
    /\ UNCHANGED <<kind, todo, taken, called, waiting, handed, found, brought>>

CannotRead(d) ==
    /\ phase[d] = "reading"
    /\ Fail(d)
    /\ UNCHANGED air

HandOver(d, item) == handed' = [handed EXCEPT ![d] = Append(@, item)]

Item(at, in, name) == [at |-> at, in |-> in, name |-> name]

ClaimNothing(d, name) == UNCHANGED taken    \* a mutant of Claim
Claim(d, name) == taken' = [taken EXCEPT ![d] = @ \cup {name}]

(* The next thing arrives under this name, which is in use from now on.  A *)
(* file of this machine is started upon at once; what is on a server is    *)
(* asked about first.                                                      *)
Arrive(d, name, said) ==
    LET at == Head(todo[d]) IN
    /\ brought' = [brought EXCEPT ![d] = Append(@, [at |-> at, name |-> name, said |-> said])]
    /\ Claim(d, name)
    /\ \/ /\ kind[d] = "upload"
          /\ HandOver(d, Item(at, <<>>, name))
          /\ todo' = [todo EXCEPT ![d] = Tail(@)]
          /\ Step(d, "next")
          /\ UNCHANGED called
       \/ /\ kind[d] # "upload"
          /\ called' = [called EXCEPT ![d] = name]
          /\ Step(d, "asking the server")
          /\ UNCHANGED <<handed, todo>>
    /\ UNCHANGED <<kind, waiting, air, found>>

LookAtNext(d) ==
    /\ phase[d] = "next" /\ todo[d] # <<>>
    /\ \/ /\ kind[d] = "download" \/ Name(Head(todo[d])) \notin taken[d]
          /\ Arrive(d, Name(Head(todo[d])), "nothing")
       \/ /\ kind[d] # "download" /\ Name(Head(todo[d])) \in taken[d]
          /\ Step(d, "asking the person")
          /\ UNCHANGED <<kind, todo, taken, called, waiting, air, handed, found, brought>>

(* A path of this machine may end in no name. *)
HasNoName(d) ==
    /\ phase[d] = "next" /\ todo[d] # <<>> /\ kind[d] = "upload"
    /\ Fail(d)
    /\ UNCHANGED air

Replace(d) ==
    /\ phase[d] = "asking the person"
    /\ Arrive(d, Name(Head(todo[d])), "replace")

KeepBoth(d) ==
    /\ phase[d] = "asking the person"
    /\ Arrive(d, Beside(Name(Head(todo[d])), taken[d]), "keep both")

(* A mutant of Skip. *)
SkipAskingAgain(d) ==
    /\ phase[d] = "asking the person"
    /\ Step(d, "next")
    /\ UNCHANGED <<kind, todo, taken, called, waiting, air, handed, found, brought>>

(* Declined, or never answered because the window is gone. *)
Skip(d) ==
    /\ phase[d] = "asking the person"
    /\ todo' = [todo EXCEPT ![d] = Tail(@)]
    /\ Step(d, "next")
    /\ UNCHANGED <<kind, taken, called, waiting, air, handed, found, brought>>

(* Only what was dragged is asked about; what is under it comes listed. *)
Stat(d) ==
    /\ phase[d] = "asking the server"
    /\ Head(todo[d]) \notin gone
    /\ waiting' = [waiting EXCEPT ![d] = Append(@, Item(Head(todo[d]), <<>>, called[d]))]
    /\ todo' = [todo EXCEPT ![d] = Tail(@)]
    /\ Step(d, "next")
    /\ UNCHANGED <<kind, taken, called, air, handed, found, brought>>

CannotStat(d) ==
    /\ phase[d] = "asking the server"
    /\ Fail(d)
    /\ UNCHANGED air

LookedAtAll(d) ==
    /\ phase[d] = "next" /\ todo[d] = <<>>
    /\ Step(d, IF kind[d] = "upload" THEN "done" ELSE "walking")
    /\ UNCHANGED <<kind, todo, taken, called, waiting, air, handed, found, brought>>

-----------------------------------------------------------------------------
(* The walk: folders are made on the far side and listed, a few at once;   *)
(* files are handed over.                                                  *)

HasRoom(d) == waiting[d] # <<>> /\ Cardinality(air[d]) < FoldersAtOnce

Take(d) ==
    /\ phase[d] = "walking" /\ HasRoom(d)
    /\ LET item == Head(waiting[d]) IN
       \/ /\ item.at \notin Folders
          /\ HandOver(d, item)
          /\ UNCHANGED air
       \/ /\ item.at \in Folders
          /\ air' = [air EXCEPT ![d] = @ \cup {[item |-> item, made |-> FALSE]}]
          /\ UNCHANGED handed
    /\ waiting' = [waiting EXCEPT ![d] = Tail(@)]
    /\ UNCHANGED <<kind, phase, todo, taken, called, found, brought>>

(* The listings are looked after only once no more can be begun. *)
Listing(d, one) == phase[d] = "walking" /\ ~HasRoom(d) /\ one \in air[d]

(* The folder is made, or was there already, which is as good. *)
Make(d, one) ==
    /\ Listing(d, one) /\ ~one.made
    /\ there' = [there EXCEPT ![Into[d]] = @ \cup {Path(one.item)}]
    /\ air' = [air EXCEPT ![d] = (@ \ {one}) \cup {[one EXCEPT !.made = TRUE]}]
    /\ UNCHANGED <<kind, phase, todo, taken, called, waiting, handed, found, brought>>

MayList(one) == TRUE    \* a mutant of HasMade
HasMade(one) == one.made

(* The server names what is in the folder in an order of its own. *)
List(d, one) ==
    /\ Listing(d, one) /\ HasMade(one)
    /\ one.item.at \notin gone
    /\ LET children == Children(one.item.at)
           itemOf(p) == Item(p, Path(one.item), Name(p))
       IN  \E order \in [1..Cardinality(children) -> children] :
              /\ IsInjective(order)
              /\ waiting' = [waiting EXCEPT ![d] =
                                @ \o [i \in DOMAIN order |-> itemOf(order[i])]]
    /\ air' = [air EXCEPT ![d] = @ \ {one}]
    /\ UNCHANGED <<kind, phase, todo, taken, called, handed, found, brought>>

(* A mutant of Break. *)
BreakQuietly(d, one) ==
    /\ Listing(d, one)
    /\ air' = [air EXCEPT ![d] = @ \ {one}]
    /\ UNCHANGED <<kind, phase, todo, taken, called, waiting, handed, found, brought, there>>

(* One that is refused ends the walk and drops the others: what they had   *)
(* asked to be made may be made all the same.                              *)
Break(d, one) ==
    /\ Listing(d, one)
    /\ Fail(d)
    /\ air' = [air EXCEPT ![d] = {}]
    /\ \E asked \in SUBSET {other \in air[d] \ {one} : ~other.made} :
          there' = [there EXCEPT ![Into[d]] = @ \cup {Path(other.item) : other \in asked}]

WalkEnds(d) ==
    /\ phase[d] = "walking" /\ waiting[d] = <<>> /\ air[d] = {}
    /\ Step(d, "done")
    /\ UNCHANGED <<kind, todo, taken, called, waiting, air, handed, found, brought>>

(* A file that was handed over lands.  Only those at the top are read by   *)
(* anybody here.                                                           *)
Land(d) ==
    /\ \E i \in DOMAIN handed[d] :
          /\ handed[d][i].in = <<>>
          /\ Path(handed[d][i]) \notin there[Into[d]]
          /\ there' = [there EXCEPT ![Into[d]] = @ \cup {Path(handed[d][i])}]
    /\ UNCHANGED <<drops, deletions>>

-----------------------------------------------------------------------------
(* Deleting: delete and delete_recursively, depth first. *)

Go(x, to) == doing' = [doing EXCEPT ![x] = to]

Frame(at) == [at |-> at, listed |-> FALSE, inside |-> {}]
Top(x) == Last(stack[x])
Push(x, at) == stack' = [stack EXCEPT ![x] = Append(@, Frame(at))]
SetTop(x, frame) == stack' = [stack EXCEPT ![x] = Append(Front(@), frame)]

BeginNext(x) ==
    /\ doing[x] = "next" /\ stack[x] = <<>> /\ left[x] # <<>>
    /\ Push(x, Head(left[x]))
    /\ left' = [left EXCEPT ![x] = Tail(@)]
    /\ UNCHANGED <<gone, doing>>

(* What it is is asked, and a folder is listed. *)
LookInside(x) ==
    /\ doing[x] = "next" /\ stack[x] # <<>> /\ ~Top(x).listed
    /\ Top(x).at \notin gone
    /\ SetTop(x, [Top(x) EXCEPT !.listed = TRUE, !.inside = Children(Top(x).at)])
    /\ UNCHANGED <<gone, doing, left>>

Descend(x) ==
    /\ doing[x] = "next" /\ stack[x] # <<>> /\ Top(x).listed
    /\ \E p \in Top(x).inside :
          stack' = [stack EXCEPT ![x] =
              Append(Append(Front(@), [Top(x) EXCEPT !.inside = @ \ {p}]), Frame(p))]
    /\ UNCHANGED <<gone, doing, left>>

(* The server takes away what is empty. *)
TakeAway(x) ==
    /\ doing[x] = "next" /\ stack[x] # <<>> /\ Top(x).listed /\ Top(x).inside = {}
    /\ Top(x).at \notin gone /\ Children(Top(x).at) = {}
    /\ gone' = gone \cup {Top(x).at}
    /\ stack' = [stack EXCEPT ![x] = Front(@)]
    /\ UNCHANGED <<doing, left>>

(* A mutant of CannotDelete. *)
CannotDeleteAndGoesOn(x) ==
    /\ doing[x] = "next" /\ stack[x] # <<>>
    /\ stack' = [stack EXCEPT ![x] = Front(@)]
    /\ UNCHANGED <<gone, doing, left>>

(* It refuses, or there is no such thing any more: the deletion ends here. *)
CannotDelete(x) ==
    /\ doing[x] = "next" /\ stack[x] # <<>>
    /\ Go(x, "failed")
    /\ UNCHANGED <<gone, left, stack>>

DeletedAll(x) ==
    /\ doing[x] = "next" /\ stack[x] = <<>> /\ left[x] = <<>>
    /\ Go(x, "done")
    /\ UNCHANGED <<gone, left, stack>>

-----------------------------------------------------------------------------
Answer(d) == Replace(d) \/ KeepBoth(d) \/ Skip(d)

Planning(d) ==
    \/ ReadFolder(d) \/ CannotRead(d) \/ LookAtNext(d) \/ HasNoName(d)
    \/ Stat(d) \/ CannotStat(d) \/ LookedAtAll(d) \/ Take(d) \/ WalkEnds(d)

Work(d) ==
    \/ (Planning(d) \/ \E one \in air[d] : List(d, one)) /\ UNCHANGED <<there, deletions>>
    \/ (\E one \in air[d] : Make(d, one) \/ Break(d, one)) /\ UNCHANGED deletions

Delete(x) ==
    /\ \/ BeginNext(x) \/ LookInside(x) \/ Descend(x) \/ TakeAway(x)
       \/ CannotDelete(x) \/ DeletedAll(x)
    /\ UNCHANGED <<drops, there>>

Next ==
    \/ \E d \in Drops : Work(d) \/ Land(d)
    \/ \E d \in Drops : Answer(d) /\ UNCHANGED <<there, deletions>>
    \/ \E x \in Deletions : Delete(x)

Spec == Init /\ [][Next]_vars

(* The engine's tasks go on.  Nobody has to answer a question, and nothing *)
(* that was handed over has to land.                                       *)
FairSpec ==
    /\ Spec
    /\ \A d \in Drops : WF_vars(Work(d))
    /\ \A x \in Deletions : WF_vars(Delete(x))

-----------------------------------------------------------------------------
(* Properties. *)

(* Whatever is handed over, the folder it goes into has been made: mirror   *)
(* and children_of make a folder before they list it, and only its listing *)
(* names what is in it, however many listings are in the air.              *)
FolderFirst ==
    \A d \in Drops : \A i \in DOMAIN handed[d] :
        handed[d][i].in # <<>> => handed[d][i].in \in there[Into[d]]

(* Where a root's descendant belongs. *)
Rebased(b, p) == <<b.name>> \o SubSeq(p, Len(b.at) + 1, Len(p))

(* What comes with a thing that is brought: all that lies below it, but an *)
(* upload does not look inside, and hands a folder over as if it were a    *)
(* file, which fails as a transfer.                                        *)
Comes(d, at) == IF kind[d] = "upload" THEN {at} ELSE Below(at)

(* A drop that comes to its end without an error has handed over every     *)
(* file of what it set out to bring, has made every folder, empty ones     *)
(* too, each under the name its root arrives as; and no drop ever hands a  *)
(* file over twice.  What somebody deletes in the meantime may be missing. *)
DoneIsComplete ==
    \A d \in Drops :
        /\ IsInjective([i \in DOMAIN handed[d] |-> handed[d][i].at])
        /\ phase[d] = "done" =>
              \A b \in Range(brought[d]) : \A p \in Comes(d, b.at) \ gone :
                  IF p \in Folders /\ kind[d] # "upload"
                  THEN Rebased(b, p) \in there[Into[d]]
                  ELSE \E i \in DOMAIN handed[d] :
                          handed[d][i].at = p /\ Path(handed[d][i]) = Rebased(b, p)

(* Nothing the folder held when the drop began, and nothing the same drop  *)
(* has brought already, is written over unless a person said so; what is   *)
(* kept beside gets a name of its own.  arriving_as asks of the names read *)
(* once, so what another drop brings meanwhile is not protected.           *)
NothingReplacedUnasked ==
    \A d \in Drops : kind[d] # "download" =>
        \A i \in DOMAIN brought[d] :
            brought[d][i].name \in found[d] \cup {brought[d][j].name : j \in 1..(i - 1)}
                => brought[d][i].said = "replace"

(* A deletion that is told done has taken everything away, and however     *)
(* deletions and walks cross, nothing is ever left without its folder.     *)
DeletedIsGone ==
    /\ \A x \in Deletions : doing[x] = "done" =>
          \A p \in Range(Doomed[x]) : Below(p) \subseteq gone
    /\ \A p \in gone : Below(p) \subseteq gone

(* A drop ends, or waits for an answer; a deletion ends. *)
EveryDropEnds ==
    /\ \A d \in Drops : <>[](phase[d] \in {"done", "failed", "asking the person"})
    /\ \A x \in Deletions : <>(doing[x] \in {"done", "failed"})

=============================================================================
