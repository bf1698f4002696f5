---------------------------- MODULE TreesProofs ----------------------------
(***************************************************************************)
(* What Trees keeps for any drops and deletions, of any folders however    *)
(* deep, and with any number of listings in the air.                       *)
(***************************************************************************)
EXTENDS Trees, SequenceTheorems, FiniteSetTheorems, FunctionTheorems, NaturalsInduction,
        WellFoundedInduction, TLAPS

-----------------------------------------------------------------------------
(* Queues. *)

(* What is in a queue after one is put at its end. *)
LEMMA RangeOfAppend ==
    ASSUME NEW s, s \in Seq(Range(s)), NEW e
    PROVE  /\ Append(s, e) \in Seq(Range(Append(s, e)))
           /\ Range(Append(s, e)) = Range(s) \cup {e}
           /\ Len(Append(s, e)) = Len(s) + 1
           /\ DOMAIN Append(s, e) = 1 .. Len(s) + 1
           /\ \A i \in 1 .. Len(s) : Append(s, e)[i] = s[i]
           /\ Append(s, e)[Len(s) + 1] = e
<1> DEFINE S == Range(s) \cup {e}
<1>1. s \in Seq(S) /\ e \in S
  BY SeqMonotonic
<1>2. /\ Append(s, e) \in Seq(S)
      /\ Len(Append(s, e)) = Len(s) + 1
      /\ \A i \in 1 .. Len(s) : Append(s, e)[i] = s[i]
      /\ Append(s, e)[Len(s) + 1] = e
  BY <1>1, AppendProperties
<1>3. DOMAIN Append(s, e) = 1 .. Len(s) + 1 /\ DOMAIN s = 1 .. Len(s) /\ Len(s) \in Nat
  BY <1>1, <1>2, LenProperties
<1>4. Range(Append(s, e)) = S
  <2>1. ASSUME NEW x \in S
        PROVE  x \in Range(Append(s, e))
    <3>1. CASE x = e
      BY <3>1, <1>2, <1>3 DEF Range
    <3>2. CASE x \in Range(s)
      <4>1. PICK i \in DOMAIN s : s[i] = x
        BY <3>2 DEF Range
      <4> QED BY <4>1, <1>2, <1>3 DEF Range
    <3> QED BY <3>1, <3>2
  <2>2. ASSUME NEW x \in Range(Append(s, e))
        PROVE  x \in S
    <3>1. PICK i \in 1 .. Len(s) + 1 : Append(s, e)[i] = x
      BY <2>2, <1>3 DEF Range
    <3>2. CASE i = Len(s) + 1
      BY <3>1, <3>2, <1>2
    <3>3. CASE i \in 1 .. Len(s)
      BY <3>1, <3>3, <1>2, <1>3 DEF Range
    <3> QED BY <3>1, <3>2, <3>3, <1>3
  <2> QED BY <2>1, <2>2
<1> HIDE DEF S
<1>5. Append(s, e) \in Seq(Range(Append(s, e)))
  BY <1>2, <1>4
<1> QED BY <1>2, <1>3, <1>4, <1>5 DEF S

(* What is in it after the foremost is taken. *)
LEMMA RangeOfTail ==
    ASSUME NEW s, s \in Seq(Range(s)), s # <<>>
    PROVE  /\ Tail(s) \in Seq(Range(Tail(s)))
           /\ Range(Tail(s)) \subseteq Range(s)
           /\ Head(s) \in Range(s)
<1>1. /\ Tail(s) \in Seq(Range(s))
      /\ Head(s) \in Range(s)
  BY HeadTailProperties
<1>2. Range(Tail(s)) \subseteq Range(s)
  <2>1. DOMAIN Tail(s) = 1 .. Len(Tail(s))
    BY <1>1, LenProperties
  <2>2. \A i \in 1 .. Len(Tail(s)) : Tail(s)[i] \in Range(s)
    BY <1>1, ElementOfSeq
  <2> QED BY <2>1, <2>2 DEF Range
<1>3. Tail(s) \in Seq(Range(Tail(s)))
  BY <1>1, SeqOfRange
<1> QED BY <1>1, <1>2, <1>3

(* What is in two put one after the other. *)
LEMMA RangeOfBoth ==
    ASSUME NEW s, NEW r, s \in Seq(Range(s)), r \in Seq(Range(r))
    PROVE  /\ s \o r \in Seq(Range(s \o r))
           /\ Range(s \o r) \subseteq Range(s) \cup Range(r)
<1> DEFINE S == Range(s) \cup Range(r)
<1>1. s \in Seq(S) /\ r \in Seq(S)
  BY SeqMonotonic
<1> HIDE DEF S
<1>2. s \o r \in Seq(S)
  BY <1>1, ConcatProperties
<1> QED BY <1>1, <1>2, SeqOfRange, RangeConcatenation

-----------------------------------------------------------------------------
(* No file before its folder. *)

(* The variables are functions of what they should be. *)
Shape ==
    /\ DOMAIN there = {Into[d] : d \in Drops}
    /\ DOMAIN waiting = Drops
    /\ DOMAIN handed = Drops
    /\ DOMAIN air = Drops
    /\ \A d \in Drops : \A one \in air[d] : "item" \in DOMAIN one

(* What it goes into is there: nowhere in particular, or a folder made.    *)
Ready(d, item) == item.in # <<>> => item.in \in there[Into[d]]

(* Whatever waits to be looked at comes out of a folder that is there, and *)
(* so does whatever is handed over; a folder is said to be made once it is *)
(* there, and only then listed.                                            *)
MadeBefore ==
    \A d \in Drops :
        /\ waiting[d] \in Seq(Range(waiting[d]))
        /\ handed[d] \in Seq(Range(handed[d]))
        /\ \A item \in Range(waiting[d]) \cup Range(handed[d]) : Ready(d, item)
        /\ \A one \in air[d] : one.made => Path(one.item) \in there[Into[d]]

FolderInv == Shape /\ MadeBefore

LEMMA FolderInit == Init => FolderInv
<1> SUFFICES ASSUME Init
             PROVE  FolderInv
  OBVIOUS
<1>1. Shape
  BY DEF Init, Shape
<1>2. <<>> \in Seq(Range(<<>>)) /\ Range(<<>>) = {}
  BY EmptySeq DEF Range
<1>3. MadeBefore
  BY <1>2 DEF Init, MadeBefore
<1> QED BY <1>1, <1>3 DEF FolderInv

(* A step that only makes more folders, and leaves queues and walks be.    *)
LEMMA MoreIsThere ==
    ASSUME FolderInv, DOMAIN there' = DOMAIN there,
           \A f \in DOMAIN there : there[f] \subseteq there'[f],
           UNCHANGED <<waiting, handed>>,
           DOMAIN air' = Drops, \A d \in Drops : air'[d] \subseteq air[d]
    PROVE  FolderInv'
<1>1. Shape'
  BY DEF FolderInv, Shape
<1>2. MadeBefore'
  BY DEF FolderInv, Shape, MadeBefore, Ready, Path
<1> QED BY <1>1, <1>2 DEF FolderInv

(* A step of one drop that only moves its own queues and walk.             *)
LEMMA OnlyThisDrop ==
    ASSUME FolderInv, NEW d \in Drops, UNCHANGED there, Shape',
           \A e \in Drops \ {d} : waiting'[e] = waiting[e] /\ handed'[e] = handed[e]
                                   /\ air'[e] = air[e],
           waiting'[d] \in Seq(Range(waiting'[d])),
           handed'[d] \in Seq(Range(handed'[d])),
           \A item \in Range(waiting'[d]) \cup Range(handed'[d]) : Ready(d, item),
           \A one \in air'[d] : one.made => Path(one.item) \in there[Into[d]]
    PROVE  FolderInv'
<1>1. MadeBefore'
  <2> SUFFICES ASSUME NEW e \in Drops
               PROVE  /\ waiting'[e] \in Seq(Range(waiting'[e]))
                      /\ handed'[e] \in Seq(Range(handed'[e]))
                      /\ \A item \in Range(waiting'[e]) \cup Range(handed'[e]) : Ready(e, item)'
                      /\ \A one \in air'[e] : one.made => Path(one.item) \in there'[Into[e]]
    BY DEF MadeBefore, Path
  <2>1. CASE e = d
    BY <2>1 DEF Ready
  <2>2. CASE e # d
    BY <2>2 DEF FolderInv, MadeBefore, Ready
  <2> QED BY <2>1, <2>2
<1> QED BY <1>1 DEF FolderInv

LEMMA ArriveKeepsFolders ==
    ASSUME FolderInv, NEW d \in Drops, NEW name, NEW said, Arrive(d, name, said),
           UNCHANGED there
    PROVE  FolderInv'
<1>1. CASE UNCHANGED handed
  BY <1>1, MoreIsThere DEF Arrive, FolderInv, Shape
<1>2. CASE HandOver(d, Item(Head(todo[d]), <<>>, name))
  <2> DEFINE item == Item(Head(todo[d]), <<>>, name)
  <2>1. handed'[d] = Append(handed[d], item) /\ item.in = <<>>
    BY <1>2 DEF HandOver, Item, FolderInv, Shape
  <2>2. Shape'
    BY <1>2 DEF HandOver, Arrive, FolderInv, Shape
  <2>3. /\ handed'[d] \in Seq(Range(handed'[d]))
        /\ Range(handed'[d]) = Range(handed[d]) \cup {item}
    BY <2>1, RangeOfAppend DEF FolderInv, MadeBefore
  <2>4. /\ UNCHANGED <<waiting, air>>
        /\ \A e \in Drops \ {d} : handed'[e] = handed[e]
    BY <1>2 DEF Arrive, HandOver, FolderInv, Shape
  <2>5. \A i \in Range(waiting'[d]) \cup Range(handed'[d]) : Ready(d, i)
    BY <2>1, <2>3, <2>4 DEF FolderInv, MadeBefore, Ready
  <2> QED BY <2>2, <2>3, <2>4, <2>5, OnlyThisDrop DEF FolderInv, MadeBefore
<1> QED BY <1>1, <1>2 DEF Arrive

LEMMA StatKeepsFolders ==
    ASSUME FolderInv, NEW d \in Drops, Stat(d), UNCHANGED there
    PROVE  FolderInv'
<1> DEFINE item == Item(Head(todo[d]), <<>>, called[d])
<1>1. waiting'[d] = Append(waiting[d], item) /\ item.in = <<>>
  BY DEF Stat, Item, FolderInv, Shape
<1>2. Shape'
  BY DEF Stat, FolderInv, Shape
<1>3. /\ waiting'[d] \in Seq(Range(waiting'[d]))
      /\ Range(waiting'[d]) = Range(waiting[d]) \cup {item}
  BY <1>1, RangeOfAppend DEF FolderInv, MadeBefore
<1>4. /\ UNCHANGED <<handed, air>>
      /\ \A e \in Drops \ {d} : waiting'[e] = waiting[e]
  BY DEF Stat, FolderInv, Shape
<1>5. \A i \in Range(waiting'[d]) \cup Range(handed'[d]) : Ready(d, i)
  BY <1>1, <1>3, <1>4 DEF FolderInv, MadeBefore, Ready
<1> QED BY <1>2, <1>3, <1>4, <1>5, OnlyThisDrop DEF FolderInv, MadeBefore

(* What is taken from the queue was ready there. *)
LEMMA TakeKeepsFolders ==
    ASSUME FolderInv, NEW d \in Drops, Take(d), UNCHANGED there
    PROVE  FolderInv'
<1> DEFINE item == Head(waiting[d])
           one == [item |-> item, made |-> FALSE]
<1>1. waiting[d] # <<>> /\ waiting'[d] = Tail(waiting[d])
  BY DEF Take, HasRoom, FolderInv, Shape
<1>2. /\ waiting'[d] \in Seq(Range(waiting'[d]))
      /\ Range(waiting'[d]) \subseteq Range(waiting[d])
      /\ item \in Range(waiting[d])
  <2>1. waiting[d] \in Seq(Range(waiting[d]))
    BY DEF FolderInv, MadeBefore
  <2> QED BY <1>1, <2>1, RangeOfTail
<1>3. \A e \in Drops \ {d} : waiting'[e] = waiting[e]
  BY DEF Take, FolderInv, Shape
<1>4. CASE HandOver(d, item) /\ UNCHANGED air
  <2>1. handed'[d] = Append(handed[d], item)
    BY <1>4 DEF HandOver, FolderInv, Shape
  <2>2. /\ handed'[d] \in Seq(Range(handed'[d]))
        /\ Range(handed'[d]) = Range(handed[d]) \cup {item}
    BY <2>1, RangeOfAppend DEF FolderInv, MadeBefore
  <2>3. Shape' /\ (\A e \in Drops \ {d} : handed'[e] = handed[e])
    BY <1>4 DEF Take, HandOver, FolderInv, Shape
  <2>4. \A i \in Range(waiting'[d]) \cup Range(handed'[d]) : Ready(d, i)
    BY <1>2, <2>2 DEF FolderInv, MadeBefore
  <2> QED BY <1>2, <1>3, <1>4, <2>2, <2>3, <2>4, OnlyThisDrop DEF FolderInv, MadeBefore
<1>5. CASE air' = [air EXCEPT ![d] = @ \cup {one}] /\ UNCHANGED handed
  <2>1. air'[d] = air[d] \cup {one} /\ (\A e \in Drops \ {d} : air'[e] = air[e])
    BY <1>5 DEF FolderInv, Shape
  <2>2. Shape'
    BY <1>5, <2>1 DEF Take, FolderInv, Shape
  <2>3. \A i \in Range(waiting'[d]) \cup Range(handed'[d]) : Ready(d, i)
    BY <1>2, <1>5 DEF FolderInv, MadeBefore
  <2>4. \A other \in air'[d] : other.made => Path(other.item) \in there[Into[d]]
    BY <2>1 DEF FolderInv, MadeBefore
  <2>5. handed'[d] \in Seq(Range(handed'[d]))
    BY <1>5 DEF FolderInv, MadeBefore
  <2> QED BY <1>2, <1>3, <1>5, <2>1, <2>2, <2>3, <2>4, <2>5, OnlyThisDrop
<1> QED BY <1>4, <1>5 DEF Take

(* What is listed comes out of a folder that was made. *)
LEMMA ListKeepsFolders ==
    ASSUME FolderInv, NEW d \in Drops, NEW one \in air[d], List(d, one), UNCHANGED there
    PROVE  FolderInv'
<1> DEFINE children == Children(one.item.at)
           itemOf(p) == Item(p, Path(one.item), Name(p))
<1>1. PICK order \in [1 .. Cardinality(children) -> children] :
        waiting' = [waiting EXCEPT ![d] = @ \o [i \in DOMAIN order |-> itemOf(order[i])]]
  BY DEF List
<1> DEFINE listed == [i \in DOMAIN order |-> itemOf(order[i])]
<1>2. Cardinality(children) \in Nat
  <2>1. IsFiniteSet(children)
    BY TreesAssumption, FS_Subset DEF Children
  <2> QED BY <2>1, FS_CardinalityType
<1>3. /\ DOMAIN order = 1 .. Cardinality(children)
      /\ \A i \in DOMAIN order : order[i] \in children
  OBVIOUS
<1>4. \A i \in DOMAIN listed : listed[i].in = Path(one.item)
  BY <1>3 DEF Item
<1>5. listed \in Seq(Range(listed))
  <2>1. listed \in [1 .. Cardinality(children) -> Range(listed)]
    BY <1>3 DEF Range
  <2> HIDE DEF listed
  <2> QED BY <1>2, <2>1, SeqDef
<1>6. one.made /\ Path(one.item) \in there[Into[d]]
  BY DEF List, HasMade, FolderInv, MadeBefore
<1>7. \A item \in Range(listed) : Ready(d, item)
  BY <1>4, <1>6 DEF Range, Ready
<1>8. waiting'[d] = waiting[d] \o listed
  BY <1>1 DEF FolderInv, Shape
<1> HIDE DEF listed
<1>9. /\ waiting'[d] \in Seq(Range(waiting'[d]))
      /\ Range(waiting'[d]) \subseteq Range(waiting[d]) \cup Range(listed)
  BY <1>5, <1>8, RangeOfBoth DEF FolderInv, MadeBefore
<1>10. /\ UNCHANGED handed /\ air'[d] \subseteq air[d]
       /\ \A e \in Drops \ {d} : waiting'[e] = waiting[e] /\ air'[e] = air[e]
  BY <1>1 DEF List, FolderInv, Shape
<1>11. Shape'
  BY <1>1, <1>10 DEF List, FolderInv, Shape
<1>12. \A item \in Range(waiting'[d]) \cup Range(handed'[d]) : Ready(d, item)
  BY <1>7, <1>9, <1>10 DEF FolderInv, MadeBefore
<1> QED BY <1>9, <1>10, <1>11, <1>12, OnlyThisDrop DEF FolderInv, MadeBefore

(* What is said to be made has just been.                                  *)
LEMMA MakeKeepsFolders ==
    ASSUME FolderInv, NEW d \in Drops, NEW one \in air[d], Make(d, one)
    PROVE  FolderInv'
<1> DEFINE made == [one EXCEPT !.made = TRUE]
<1>1. made.item = one.item /\ "item" \in DOMAIN made
  BY DEF FolderInv, Shape
<1> HIDE DEF made
<1>2. /\ there'[Into[d]] = there[Into[d]] \cup {Path(one.item)}
      /\ DOMAIN there' = DOMAIN there
      /\ \A f \in DOMAIN there : there[f] \subseteq there'[f]
      /\ air'[d] = (air[d] \ {one}) \cup {made}
      /\ \A e \in Drops \ {d} : air'[e] = air[e]
      /\ DOMAIN air' = Drops
      /\ UNCHANGED <<waiting, handed>>
  BY DEF Make, FolderInv, Shape, made
<1>3. Shape'
  BY <1>1, <1>2 DEF FolderInv, Shape
<1>4. \A e \in Drops : there[Into[e]] \subseteq there'[Into[e]]
  BY <1>2 DEF FolderInv, Shape
<1>5. MadeBefore'
  <2> SUFFICES ASSUME NEW e \in Drops
               PROVE  /\ waiting'[e] \in Seq(Range(waiting'[e]))
                      /\ handed'[e] \in Seq(Range(handed'[e]))
                      /\ \A item \in Range(waiting'[e]) \cup Range(handed'[e]) : Ready(e, item)'
                      /\ \A other \in air'[e] : other.made => Path(other.item) \in there'[Into[e]]
    BY DEF MadeBefore, Path
  <2>1. /\ waiting'[e] \in Seq(Range(waiting'[e]))
        /\ handed'[e] \in Seq(Range(handed'[e]))
        /\ \A item \in Range(waiting'[e]) \cup Range(handed'[e]) : Ready(e, item)'
    BY <1>2, <1>4 DEF FolderInv, MadeBefore, Ready
  <2>2. ASSUME NEW other \in air'[e], other.made
        PROVE  Path(other.item) \in there'[Into[e]]
    <3>1. CASE other \in air[e]
      BY <2>2, <3>1, <1>4 DEF FolderInv, MadeBefore
    <3>2. CASE e = d /\ other = made
      BY <3>2, <1>1, <1>2
    <3> QED BY <2>2, <3>1, <3>2, <1>2
  <2> QED BY <2>1, <2>2
<1> QED BY <1>3, <1>5 DEF FolderInv

LEMMA BreakKeepsFolders ==
    ASSUME FolderInv, NEW d \in Drops, NEW one \in air[d], Break(d, one)
    PROVE  FolderInv'
<1>1. PICK asked \in SUBSET {other \in air[d] \ {one} : ~other.made} :
        there' = [there EXCEPT ![Into[d]] = @ \cup {Path(other.item) : other \in asked}]
  BY DEF Break
<1>2. DOMAIN there' = DOMAIN there /\ \A f \in DOMAIN there : there[f] \subseteq there'[f]
  BY <1>1
<1>3. /\ UNCHANGED <<waiting, handed>> /\ DOMAIN air' = Drops
      /\ \A e \in Drops : air'[e] \subseteq air[e]
  BY DEF Break, Fail, FolderInv, Shape
<1> QED BY <1>2, <1>3, MoreIsThere

LEMMA FolderStep == FolderInv /\ [Next]_vars => FolderInv'
<1> SUFFICES ASSUME FolderInv, [Next]_vars
             PROVE  FolderInv'
  OBVIOUS
<1>1. ASSUME UNCHANGED <<waiting, handed, air, there>>
      PROVE  FolderInv'
  BY <1>1, MoreIsThere DEF FolderInv, Shape
<1>2. ASSUME NEW d \in Drops, UNCHANGED <<there, deletions>>, Planning(d)
      PROVE  FolderInv'
  <2>1. CASE ReadFolder(d) \/ CannotRead(d) \/ HasNoName(d) \/ CannotStat(d)
             \/ LookedAtAll(d) \/ WalkEnds(d)
    BY <2>1, <1>1, <1>2 DEF ReadFolder, CannotRead, HasNoName, CannotStat, LookedAtAll,
                            WalkEnds, Fail
  <2>2. CASE LookAtNext(d)
    BY <2>2, <1>1, <1>2, ArriveKeepsFolders DEF LookAtNext
  <2>3. CASE Stat(d)
    BY <2>3, <1>2, StatKeepsFolders
  <2>4. CASE Take(d)
    BY <2>4, <1>2, TakeKeepsFolders
  <2> QED BY <1>2, <2>1, <2>2, <2>3, <2>4 DEF Planning
<1>3. ASSUME NEW d \in Drops, Work(d)
      PROVE  FolderInv'
  BY <1>2, <1>3, ListKeepsFolders, MakeKeepsFolders, BreakKeepsFolders DEF Work
<1>4. ASSUME NEW d \in Drops, Answer(d), UNCHANGED there
      PROVE  FolderInv'
  BY <1>1, <1>4, ArriveKeepsFolders DEF Answer, Replace, KeepBoth, Skip
<1>5. ASSUME NEW d \in Drops, Land(d)
      PROVE  FolderInv'
  <2>1. /\ DOMAIN there' = DOMAIN there
        /\ \A f \in DOMAIN there : there[f] \subseteq there'[f]
        /\ UNCHANGED <<waiting, handed, air>>
    BY <1>5 DEF Land, drops
  <2> QED BY <2>1, MoreIsThere DEF FolderInv, Shape
<1>6. ASSUME NEW x \in Deletions, Delete(x)
      PROVE  FolderInv'
  BY <1>1, <1>6 DEF Delete, drops
<1>7. CASE UNCHANGED vars
  BY <1>1, <1>7 DEF vars, drops
<1> QED BY <1>3, <1>4, <1>5, <1>6, <1>7 DEF Next

(* However many listings are in the air and however drops cross, nothing   *)
(* is handed over before the folder it goes into has been made (engine.rs  *)
(* mirror, spread).                                                        *)
THEOREM FoldersComeFirst == Spec => []FolderFirst
<1>1. FolderInv => FolderFirst
  BY RangeOfSeq DEF FolderInv, MadeBefore, FolderFirst, Ready, Range
<1> QED BY <1>1, FolderInit, FolderStep, PTL DEF Spec
-----------------------------------------------------------------------------
(* Nothing replaced unasked. *)

(* What is made out of the members of a finite set is finitely many.       *)
LEMMA ImageIsFinite ==
    ASSUME NEW S, IsFiniteSet(S), NEW h, h = [x \in S |-> h[x]]
    PROVE  IsFiniteSet(Range(h))
<1>1. h \in [S -> Range(h)]
  BY DEF Range
<1>2. h \in Surjection(S, Range(h))
  BY <1>1, Fun_RangeProperties
<1> QED BY <1>2, FS_Surjection

(* Of the numbers in a set that is not empty one is the least. *)
LEMMA LeastOfNumbers ==
    ASSUME NEW K \in SUBSET Nat, K # {}
    PROVE  \E k \in K : \A j \in K : k <= j
<1>1. \E k \in K : \A j \in K : ~ (<<j, k>> \in OpToRel(<, Nat))
  BY WFMin, NatLessThanWellFounded
<1>2. \A j, k \in Nat : <<j, k>> \in OpToRel(<, Nat) <=> j < k
  BY DEF OpToRel
<1>3. PICK k \in K : \A j \in K : ~ (j < k)
  BY <1>1, <1>2
<1>4. \A j \in K : k <= j
  BY <1>3
<1> QED BY <1>4

(* The name beside another is always free. *)
LEMMA BesideIsFree ==
    ASSUME NEW name, name \in Seq(Range(name)), NEW used, IsFiniteSet(used)
    PROVE  Beside(name, used) \notin used
<1> DEFINE numbers == 2 .. (Cardinality(used) + 2)
           free == {k \in numbers : Append(name, k) \notin used}
<1>1. Cardinality(used) \in Nat
  BY FS_CardinalityType
<1>2. \A j, k : Append(name, j) = Append(name, k) => j = k
  <2> SUFFICES ASSUME NEW j, NEW k, Append(name, j) = Append(name, k)
               PROVE  j = k
    OBVIOUS
  <2>1. Append(name, j)[Len(name) + 1] = j /\ Append(name, k)[Len(name) + 1] = k
    BY RangeOfAppend
  <2> QED BY <2>1
<1>3. free # {}
  <2> SUFFICES ASSUME free = {}
               PROVE  FALSE
    OBVIOUS
  <2> DEFINE beside == [k \in numbers |-> Append(name, k)]
  <2>1. beside \in [numbers -> used]
    OBVIOUS
  <2>2. IsFiniteSet(numbers) /\ Cardinality(numbers) = Cardinality(used) + 1
    <3>1. 2 \in Int /\ Cardinality(used) + 2 \in Int /\ ~(2 > Cardinality(used) + 2)
      BY <1>1
    <3>2. /\ IsFiniteSet(numbers)
          /\ Cardinality(numbers) = IF 2 > Cardinality(used) + 2 THEN 0
                                    ELSE (Cardinality(used) + 2) - 2 + 1
      BY <3>1, FS_Interval
    <3> HIDE DEF numbers
    <3> QED BY <1>1, <3>1, <3>2
  <2>3. Cardinality(used) < Cardinality(numbers)
    BY <1>1, <2>2
  <2> HIDE DEF beside, numbers
  <2>4. PICK j, k \in numbers : j # k /\ beside[j] = beside[k]
    BY <2>1, <2>2, <2>3, FS_PigeonHole
  <2>5. beside[j] = Append(name, j) /\ beside[k] = Append(name, k)
    BY DEF beside
  <2> QED BY <1>2, <2>4, <2>5
<1>4. free \in SUBSET Nat
  BY <1>1
<1>5. \E k \in free : \A j \in free : k <= j
  BY <1>3, <1>4, LeastOfNumbers
<1>6. (CHOOSE k \in free : \A j \in free : k <= j) \in free
  BY <1>5
<1> QED BY <1>6 DEF Beside

(* The variables are functions of what they should be, and hold no more    *)
(* than can be counted.                                                    *)
Counted ==
    /\ DOMAIN there = {Into[d] : d \in Drops}
    /\ DOMAIN air = Drops /\ DOMAIN phase = Drops /\ DOMAIN taken = Drops
    /\ DOMAIN found = Drops /\ DOMAIN brought = Drops /\ DOMAIN todo = Drops
    /\ \A d \in Drops :
          /\ IsFiniteSet(there[Into[d]]) /\ IsFiniteSet(air[d]) /\ IsFiniteSet(taken[d])
          /\ todo[d] \in Seq(Nodes)
          /\ phase[d] \in {"asking the person", "asking the server"} => todo[d] # <<>>

NamesBrought(d) == {brought[d][i].name : i \in DOMAIN brought[d]}

(* Every name that was found or brought is one the drop takes to be in     *)
(* use; it reads the folder before it brings anything.                     *)
NamesKept(d) ==
    /\ brought[d] \in Seq(Range(brought[d]))
    /\ phase[d] = "reading" => brought[d] = <<>>
    /\ found[d] \cup NamesBrought(d) \subseteq taken[d]

Unasked(d) ==
    kind[d] # "download" =>
        \A i \in DOMAIN brought[d] :
            brought[d][i].name \in found[d] \cup {brought[d][j].name : j \in 1..(i - 1)}
                => brought[d][i].said = "replace"

NamesInv == Counted /\ \A d \in Drops : NamesKept(d) /\ Unasked(d)

LEMMA NamesInit == Init => NamesInv
<1> SUFFICES ASSUME Init
             PROVE  NamesInv
  OBVIOUS
<1>1. ASSUME NEW d \in Drops
      PROVE  IsFiniteSet(there[Into[d]])
  <2> DEFINE put == [n \in Held[Into[d]] |-> <<n>>]
  <2>1. put = [n \in Held[Into[d]] |-> put[n]] /\ IsFiniteSet(Held[Into[d]])
    BY TreesAssumption
  <2>2. there[Into[d]] = Range(put)
    BY DEF Init, Range
  <2> HIDE DEF put
  <2> QED BY <2>1, <2>2, ImageIsFinite
<1>2. Counted
  BY <1>1, FS_EmptySet, TreesAssumption DEF Init, Counted
<1>3. ASSUME NEW d \in Drops
      PROVE  NamesKept(d) /\ Unasked(d)
  <2>1. found[d] = {} /\ brought[d] = <<>> /\ DOMAIN brought[d] = {}
    BY DEF Init
  <2>2. <<>> \in Seq(Range(<<>>)) /\ NamesBrought(d) = {}
    BY <2>1, EmptySeq DEF NamesBrought
  <2> QED BY <2>1, <2>2 DEF NamesKept, Unasked
<1> QED BY <1>2, <1>3 DEF NamesInv

(* A step that reads no folder and brings nothing.                         *)
LEMMA NothingBrought ==
    ASSUME NamesInv, Counted', UNCHANGED <<kind, taken, found, brought>>,
           \A d \in Drops : phase'[d] = "reading" => phase[d] = "reading"
    PROVE  NamesInv'
<1>1. ASSUME NEW d \in Drops
      PROVE  NamesKept(d)' /\ Unasked(d)'
  <2>1. NamesBrought(d)' = NamesBrought(d)
    BY DEF NamesBrought
  <2> QED BY <2>1 DEF NamesInv, NamesKept, Unasked
<1> QED BY <1>1 DEF NamesInv

(* Whatever is brought next has a name that is free, or was said to        *)
(* replace.                                                                *)
LEMMA ArriveKeepsNames ==
    ASSUME NamesInv, NEW d \in Drops, NEW name, NEW said, Arrive(d, name, said),
           UNCHANGED there, phase[d] # "reading", todo[d] # <<>>,
           kind[d] # "download" => name \notin taken[d] \/ said = "replace"
    PROVE  NamesInv'
<1> DEFINE new == [at |-> Head(todo[d]), name |-> name, said |-> said]
<1>1. /\ brought'[d] = Append(brought[d], new)
      /\ taken'[d] = taken[d] \cup {name}
      /\ \A e \in Drops \ {d} : /\ brought'[e] = brought[e] /\ taken'[e] = taken[e]
                                /\ phase'[e] = phase[e]
      /\ UNCHANGED <<kind, found>>
      /\ phase'[d] # "reading"
  BY DEF Arrive, Claim, Step, NamesInv, Counted
<1>2. Counted'
  <2>1. IsFiniteSet(taken[d] \cup {name})
    BY FS_AddElement DEF NamesInv, Counted
  <2>2. todo[d] \in Seq(Nodes) /\ Tail(todo[d]) \in Seq(Nodes)
    BY HeadTailProperties DEF NamesInv, Counted
  <2>3. /\ DOMAIN todo' = Drops
        /\ \A e \in Drops : todo'[e] \in Seq(Nodes)
        /\ \A e \in Drops : phase'[e] \in {"asking the person", "asking the server"} => todo'[e] # <<>>
    BY <2>2 DEF Arrive, Step, NamesInv, Counted
  <2> QED BY <1>1, <2>1, <2>3 DEF Arrive, Claim, Step, NamesInv, Counted
<1>3. brought[d] \in Seq(Range(brought[d]))
  BY DEF NamesInv, NamesKept
<1> HIDE DEF new
<1>4. /\ brought'[d] \in Seq(Range(brought'[d]))
      /\ DOMAIN brought[d] = 1 .. Len(brought[d]) /\ Len(brought[d]) \in Nat
      /\ DOMAIN brought'[d] = 1 .. Len(brought[d]) + 1
      /\ \A i \in 1 .. Len(brought[d]) : brought'[d][i] = brought[d][i]
      /\ brought'[d][Len(brought[d]) + 1] = new
  BY <1>1, <1>3, RangeOfAppend, LenProperties
<1>5. NamesKept(d)'
  <2>1. NamesBrought(d)' = NamesBrought(d) \cup {name}
    BY <1>4 DEF NamesBrought, new
  <2> QED BY <1>1, <1>4, <2>1 DEF NamesInv, NamesKept
<1>6. Unasked(d)'
  <2> SUFFICES ASSUME kind[d] # "download", NEW i \in DOMAIN brought'[d],
                      brought'[d][i].name \in
                          found[d] \cup {brought'[d][j].name : j \in 1..(i - 1)}
               PROVE  brought'[d][i].said = "replace"
    BY <1>1 DEF Unasked
  <2>1. \A j \in 1..(i - 1) : j \in DOMAIN brought[d] /\ brought'[d][j] = brought[d][j]
    BY <1>4
  <2>2. CASE i \in DOMAIN brought[d]
    <3>1. brought[d][i].name \in found[d] \cup {brought[d][j].name : j \in 1..(i - 1)}
      BY <1>4, <2>1, <2>2
    <3> QED BY <1>4, <2>2, <3>1 DEF NamesInv, Unasked
  <2>3. CASE i = Len(brought[d]) + 1
    <3>1. brought'[d][i].name = name /\ brought'[d][i].said = said
      BY <1>4, <2>3 DEF new
    <3>2. name \in taken[d]
      BY <2>1, <3>1 DEF NamesInv, NamesKept, NamesBrought
    <3> QED BY <3>1, <3>2
  <2> QED BY <1>4, <2>2, <2>3
<1>7. ASSUME NEW e \in Drops \ {d}
      PROVE  NamesKept(e)' /\ Unasked(e)'
  <2>1. NamesBrought(e)' = NamesBrought(e)
    BY <1>1 DEF NamesBrought
  <2>2. /\ UNCHANGED <<brought[e], found[e], kind[e], taken[e], phase[e]>>
        /\ NamesKept(e) /\ Unasked(e)
    BY <1>1 DEF NamesInv
  <2>3. NamesKept(e)'
    BY <2>1, <2>2 DEF NamesKept
  <2>4. Unasked(e)'
    BY <2>2 DEF Unasked
  <2> QED BY <2>3, <2>4
<1> QED BY <1>2, <1>5, <1>6, <1>7 DEF NamesInv

(* The folder is read before anything is brought. *)
LEMMA ReadFolderKeepsNames ==
    ASSUME NamesInv, NEW d \in Drops, ReadFolder(d), UNCHANGED there
    PROVE  NamesInv'
<1> DEFINE names == {p[1] : p \in there[Into[d]]}
<1>1. /\ taken'[d] = names /\ found'[d] = names
      /\ phase[d] = "reading" /\ phase'[d] = "next"
      /\ UNCHANGED <<kind, brought, todo, air>>
      /\ \A e \in Drops \ {d} : UNCHANGED <<taken[e], found[e], phase[e]>>
      /\ DOMAIN taken' = Drops /\ DOMAIN found' = Drops /\ DOMAIN phase' = Drops
  BY DEF ReadFolder, Step, NamesInv, Counted
<1>2. IsFiniteSet(names)
  <2> DEFINE first == [p \in there[Into[d]] |-> p[1]]
  <2>1. first = [p \in there[Into[d]] |-> first[p]] /\ names = Range(first)
    BY DEF Range
  <2>2. IsFiniteSet(there[Into[d]])
    BY DEF NamesInv, Counted
  <2> HIDE DEF first, names
  <2> QED BY <2>1, <2>2, ImageIsFinite
<1> HIDE DEF names
<1>3. Counted'
  BY <1>1, <1>2 DEF NamesInv, Counted
<1>4. NamesKept(d)' /\ Unasked(d)'
  <2>1. brought[d] = <<>> /\ brought[d] \in Seq(Range(brought[d]))
    BY <1>1 DEF NamesInv, NamesKept
  <2>2. DOMAIN brought[d] = {} /\ NamesBrought(d)' = {}
    BY <1>1, <2>1 DEF NamesBrought
  <2> QED BY <1>1, <2>1, <2>2 DEF NamesKept, Unasked
<1>5. ASSUME NEW e \in Drops \ {d}
      PROVE  NamesKept(e)' /\ Unasked(e)'
  <2>1. NamesBrought(e)' = NamesBrought(e)
    BY <1>1 DEF NamesBrought
  <2>2. /\ UNCHANGED <<brought[e], found[e], kind[e], taken[e], phase[e]>>
        /\ NamesKept(e) /\ Unasked(e)
    BY <1>1 DEF NamesInv
  <2>3. NamesKept(e)'
    BY <2>1, <2>2 DEF NamesKept
  <2>4. Unasked(e)'
    BY <2>2 DEF Unasked
  <2> QED BY <2>3, <2>4
<1> QED BY <1>3, <1>4, <1>5 DEF NamesInv

(* What is asked about has a name, and one kept beside it has another.     *)
LEMMA AnswerKeepsNames ==
    ASSUME NamesInv, NEW d \in Drops, Answer(d), UNCHANGED there
    PROVE  NamesInv'
<1>1. phase[d] = "asking the person" /\ todo[d] # <<>> /\ todo[d] \in Seq(Nodes)
  BY DEF Answer, Replace, KeepBoth, Skip, NamesInv, Counted
<1>2. CASE Replace(d)
  BY <1>1, <1>2, ArriveKeepsNames DEF Replace
<1>3. CASE KeepBoth(d)
  <2> DEFINE name == Name(Head(todo[d]))
  <2>1. Head(todo[d]) \in Nodes
    BY <1>1, HeadTailProperties
  <2>2. name \in Seq(Range(name))
    BY <2>1, TreesAssumption DEF Name
  <2>3. IsFiniteSet(taken[d])
    BY DEF NamesInv, Counted
  <2> HIDE DEF name
  <2>4. Beside(name, taken[d]) \notin taken[d]
    BY <2>2, <2>3, BesideIsFree
  <2>5. Arrive(d, Beside(name, taken[d]), "keep both")
    BY <1>3 DEF KeepBoth, name
  <2> QED BY <1>1, <2>4, <2>5, ArriveKeepsNames
<1>4. CASE Skip(d)
  <2>1. Tail(todo[d]) \in Seq(Nodes)
    BY <1>1, HeadTailProperties
  <2>2. Counted'
    BY <1>4, <2>1 DEF Skip, Step, NamesInv, Counted
  <2> QED BY <1>4, <2>2, NothingBrought DEF Skip, Step, NamesInv, Counted
<1> QED BY <1>2, <1>3, <1>4 DEF Answer

(* A step of a drop that looks at what is next, or walks.                  *)
LEMMA PlanningKeepsNames ==
    ASSUME NamesInv, NEW d \in Drops, Planning(d), UNCHANGED there
    PROVE  NamesInv'
<1>1. CASE ReadFolder(d)
  BY <1>1, ReadFolderKeepsNames
<1>2. CASE CannotRead(d) \/ HasNoName(d) \/ CannotStat(d) \/ LookedAtAll(d) \/ WalkEnds(d)
  <2>1. /\ UNCHANGED <<kind, taken, found, brought, todo, air>>
        /\ DOMAIN phase' = Drops
        /\ phase'[d] \in {"failed", "done", "walking"}
        /\ \A e \in Drops \ {d} : phase'[e] = phase[e]
    BY <1>2 DEF CannotRead, HasNoName, CannotStat, LookedAtAll, WalkEnds, Fail, Step,
                NamesInv, Counted
  <2>2. Counted'
    BY <2>1 DEF NamesInv, Counted
  <2> QED BY <2>1, <2>2, NothingBrought
<1>3. CASE LookAtNext(d)
  <2>1. CASE Arrive(d, Name(Head(todo[d])), "nothing")
             /\ (kind[d] = "download" \/ Name(Head(todo[d])) \notin taken[d])
    BY <1>3, <2>1, ArriveKeepsNames DEF LookAtNext
  <2>2. CASE Step(d, "asking the person")
             /\ UNCHANGED <<kind, todo, taken, called, waiting, air, handed, found, brought>>
    <3>1. Counted'
      BY <1>3, <2>2 DEF LookAtNext, Step, NamesInv, Counted
    <3> QED BY <2>2, <3>1, NothingBrought DEF Step, NamesInv, Counted
  <2> QED BY <1>3, <2>1, <2>2 DEF LookAtNext
<1>4. CASE Stat(d)
  <2>1. todo[d] \in Seq(Nodes) /\ todo[d] # <<>>
    BY <1>4 DEF Stat, NamesInv, Counted
  <2>2. Tail(todo[d]) \in Seq(Nodes)
    BY <2>1, HeadTailProperties
  <2>3. Counted'
    BY <1>4, <2>2 DEF Stat, Step, NamesInv, Counted
  <2> QED BY <1>4, <2>3, NothingBrought DEF Stat, Step, NamesInv, Counted
<1>5. CASE Take(d)
  <2>1. ASSUME NEW one
        PROVE  IsFiniteSet(air[d] \cup {one})
    BY FS_AddElement DEF NamesInv, Counted
  <2>2. PICK one : air' = air \/ air' = [air EXCEPT ![d] = @ \cup {one}]
    BY <1>5 DEF Take
  <2>3. DOMAIN air' = Drops /\ \A e \in Drops : IsFiniteSet(air'[e])
    <3>1. DOMAIN air = Drops /\ \A e \in Drops : IsFiniteSet(air[e])
      BY DEF NamesInv, Counted
    <3>2. CASE air' = air
      BY <3>1, <3>2
    <3>3. CASE air' = [air EXCEPT ![d] = @ \cup {one}]
      BY <2>1, <3>1, <3>3
    <3> QED BY <2>2, <3>2, <3>3
  <2>4. UNCHANGED <<kind, phase, todo, taken, found, brought>>
    BY <1>5 DEF Take
  <2>5. Counted'
    BY <2>3, <2>4 DEF NamesInv, Counted
  <2> QED BY <2>4, <2>5, NothingBrought
<1> QED BY <1>1, <1>2, <1>3, <1>4, <1>5 DEF Planning

(* A step of a walk that makes folders, lists one, or breaks off.          *)
LEMMA WalkKeepsNames ==
    ASSUME NamesInv, NEW d \in Drops, NEW one \in air[d],
           (List(d, one) /\ UNCHANGED there) \/ Make(d, one) \/ Break(d, one)
    PROVE  NamesInv'
<1>1. IsFiniteSet(air[d]) /\ IsFiniteSet(there[Into[d]]) /\ IsFiniteSet(air[d] \ {one})
  BY FS_RemoveElement DEF NamesInv, Counted
<1>2. CASE List(d, one) /\ UNCHANGED there
  <2>1. Counted'
    BY <1>1, <1>2 DEF List, NamesInv, Counted
  <2> QED BY <1>2, <2>1, NothingBrought DEF List
<1>3. CASE Make(d, one)
  <2>1. /\ \A other : IsFiniteSet((air[d] \ {one}) \cup {other})
        /\ \A p : IsFiniteSet(there[Into[d]] \cup {p})
    BY <1>1, FS_AddElement
  <2>2. Counted'
    BY <1>3, <2>1 DEF Make, NamesInv, Counted
  <2> QED BY <1>3, <2>2, NothingBrought DEF Make
<1>4. CASE Break(d, one)
  <2>1. PICK asked \in SUBSET {other \in air[d] \ {one} : ~other.made} :
          there' = [there EXCEPT ![Into[d]] = @ \cup {Path(other.item) : other \in asked}]
    BY <1>4 DEF Break
  <2>2. IsFiniteSet({Path(other.item) : other \in asked})
    <3> DEFINE h == [other \in asked |-> Path(other.item)]
    <3>1. h = [other \in asked |-> h[other]] /\ {Path(other.item) : other \in asked} = Range(h)
      BY DEF Range
    <3>2. IsFiniteSet(asked)
      BY <1>1, FS_Subset
    <3> HIDE DEF h
    <3> QED BY <3>1, <3>2, ImageIsFinite
  <2> DEFINE more == {Path(other.item) : other \in asked}
  <2> HIDE DEF more
  <2>3. IsFiniteSet(there[Into[d]] \cup more) /\ IsFiniteSet({})
    BY <1>1, <2>2, FS_Union, FS_EmptySet DEF more
  <2>4. there' = [there EXCEPT ![Into[d]] = @ \cup more]
    BY <2>1 DEF more
  <2>5. /\ UNCHANGED <<kind, taken, found, brought, todo>>
        /\ phase' = [phase EXCEPT ![d] = "failed"] /\ air' = [air EXCEPT ![d] = {}]
    BY <1>4 DEF Break, Fail, Step
  <2>6. Counted'
    BY <2>3, <2>4, <2>5 DEF NamesInv, Counted
  <2> QED BY <2>5, <2>6, NothingBrought DEF NamesInv, Counted
<1> QED BY <1>2, <1>3, <1>4

LEMMA NamesStep == NamesInv /\ [Next]_vars => NamesInv'
<1> SUFFICES ASSUME NamesInv, [Next]_vars
             PROVE  NamesInv'
  OBVIOUS
<1>1. ASSUME NEW d \in Drops, Work(d)
      PROVE  NamesInv'
  BY <1>1, PlanningKeepsNames, WalkKeepsNames DEF Work
<1>2. ASSUME NEW d \in Drops, Answer(d), UNCHANGED there
      PROVE  NamesInv'
  BY <1>2, AnswerKeepsNames
<1>3. ASSUME NEW d \in Drops, Land(d)
      PROVE  NamesInv'
  <2>1. ASSUME NEW p
        PROVE  IsFiniteSet(there[Into[d]] \cup {p})
    BY FS_AddElement DEF NamesInv, Counted
  <2>2. PICK p : there' = [there EXCEPT ![Into[d]] = @ \cup {p}]
    BY <1>3 DEF Land
  <2>3. DOMAIN there' = DOMAIN there /\ \A e \in Drops : IsFiniteSet(there'[Into[e]])
    BY <2>1, <2>2 DEF NamesInv, Counted
  <2>4. UNCHANGED <<kind, phase, todo, taken, air, found, brought>>
    BY <1>3 DEF Land, drops
  <2>5. Counted'
    BY <2>3, <2>4 DEF NamesInv, Counted
  <2> QED BY <2>4, <2>5, NothingBrought
<1>4. ASSUME UNCHANGED <<drops, there>>
      PROVE  NamesInv'
  <2>1. Counted'
    BY <1>4 DEF drops, NamesInv, Counted
  <2> QED BY <1>4, <2>1, NothingBrought DEF drops
<1>5. ASSUME NEW x \in Deletions, Delete(x)
      PROVE  NamesInv'
  BY <1>4, <1>5 DEF Delete
<1>6. CASE UNCHANGED vars
  BY <1>4, <1>6 DEF vars
<1> QED BY <1>1, <1>2, <1>3, <1>5, <1>6 DEF Next

(* Nothing the folder held when a drop began, and nothing the same drop    *)
(* has brought, is written over unless a person said so; the name Keep     *)
(* Both makes is one that is free (engine.rs arriving_as, beside).         *)
THEOREM NamesAreAskedAbout == Spec => []NothingReplacedUnasked
<1>1. NamesInv => NothingReplacedUnasked
  BY DEF NamesInv, Unasked, NothingReplacedUnasked
<1> QED BY <1>1, NamesInit, NamesStep, PTL DEF Spec
-----------------------------------------------------------------------------
(* Paths. *)

(* A path is a prefix of another when the other begins with it. *)
LEMMA PrefixMeans ==
    ASSUME NEW S, NEW s \in Seq(S), NEW t \in Seq(S)
    PROVE  IsPrefix(s, t) <=> Len(s) <= Len(t) /\ \A i \in 1 .. Len(s) : s[i] = t[i]
<1>1. /\ Len(s) \in Nat /\ Len(t) \in Nat
      /\ \A i \in 1 .. Len(s) : s[i] \in S
      /\ \A i \in 1 .. Len(t) : t[i] \in S
  BY LenProperties, ElementOfSeq
<1>2. SubSeq(s, 1, Len(s)) = s
  BY SubSeqFull
<1>3. ASSUME Len(s) <= Len(t)
      PROVE  SubSeq(t, 1, Len(s)) = s <=> \A i \in 1 .. Len(s) : s[i] = t[i]
  <2> DEFINE u == SubSeq(t, 1, Len(s))
  <2>1. \A i \in 1 .. Len(s) : t[i] \in S
    BY <1>1, <1>3
  <2>2. /\ u \in Seq(S)
        /\ Len(u) = IF 1 <= Len(s) THEN Len(s) - 1 + 1 ELSE 0
        /\ \A i \in 1 .. Len(s) - 1 + 1 : u[i] = t[1 + i - 1]
    BY <1>1, <2>1, SubSeqProperties
  <2> HIDE DEF u
  <2>3. Len(u) = Len(s) /\ \A i \in 1 .. Len(s) : u[i] = t[i]
    BY <1>1, <2>2
  <2>4. (\A i \in 1 .. Len(s) : s[i] = t[i]) => u = s
    BY <2>2, <2>3, SeqEqual
  <2>5. u = s => \A i \in 1 .. Len(s) : s[i] = t[i]
    BY <2>3
  <2> QED BY <2>4, <2>5 DEF u
<1> QED BY <1>2, <1>3 DEF IsPrefix

LEMMA PrefixOrder ==
    ASSUME NEW S, NEW s \in Seq(S), NEW t \in Seq(S), NEW u \in Seq(S)
    PROVE  /\ IsPrefix(s, s)
           /\ IsPrefix(s, t) /\ IsPrefix(t, u) => IsPrefix(s, u)
           /\ IsPrefix(s, t) /\ Len(s) = Len(t) => s = t
           /\ IsPrefix(s, t) => Len(s) <= Len(t)
           /\ IsPrefix(s, u) /\ IsPrefix(t, u) /\ Len(s) <= Len(t) => IsPrefix(s, t)
<1>1. Len(s) \in Nat /\ Len(t) \in Nat /\ Len(u) \in Nat
  BY LenProperties
<1>2. IsPrefix(s, s)
  BY <1>1, PrefixMeans
<1>3. IsPrefix(s, t) /\ IsPrefix(t, u) => IsPrefix(s, u)
  <2> SUFFICES ASSUME IsPrefix(s, t), IsPrefix(t, u)
               PROVE  IsPrefix(s, u)
    OBVIOUS
  <2>1. Len(s) <= Len(t) /\ \A i \in 1 .. Len(s) : s[i] = t[i]
    BY PrefixMeans
  <2>2. Len(t) <= Len(u) /\ \A i \in 1 .. Len(t) : t[i] = u[i]
    BY PrefixMeans
  <2>3. Len(s) <= Len(u) /\ \A i \in 1 .. Len(s) : s[i] = u[i]
    BY <1>1, <2>1, <2>2
  <2> QED BY <2>3, PrefixMeans
<1>4. IsPrefix(s, t) /\ Len(s) = Len(t) => s = t
  BY <1>1, PrefixMeans, SeqEqual
<1>5. IsPrefix(s, t) => Len(s) <= Len(t)
  BY PrefixMeans
<1>6. IsPrefix(s, u) /\ IsPrefix(t, u) /\ Len(s) <= Len(t) => IsPrefix(s, t)
  <2> SUFFICES ASSUME IsPrefix(s, u), IsPrefix(t, u), Len(s) <= Len(t)
               PROVE  IsPrefix(s, t)
    OBVIOUS
  <2>1. \A i \in 1 .. Len(s) : s[i] = u[i]
    BY PrefixMeans
  <2>2. \A i \in 1 .. Len(t) : t[i] = u[i]
    BY PrefixMeans
  <2>3. \A i \in 1 .. Len(s) : s[i] = t[i]
    BY <1>1, <2>1, <2>2
  <2> QED BY <2>3, PrefixMeans
<1> QED BY <1>2, <1>3, <1>4, <1>5, <1>6

LEMMA FrontMeans ==
    ASSUME NEW S, NEW s \in Seq(S), s # <<>>
    PROVE  /\ Front(s) \in Seq(S)
           /\ Len(Front(s)) = Len(s) - 1
           /\ Len(s) \in Nat \ {0}
           /\ \A i \in 1 .. Len(s) - 1 : Front(s)[i] = s[i]
           /\ IsPrefix(Front(s), s)
           /\ Last(s) \in S
<1>1. Len(s) \in Nat \ {0} /\ \A i \in 1 .. Len(s) : s[i] \in S
  BY LenProperties, ElementOfSeq, EmptySeq
<1>2. \A i \in 1 .. Len(s) - 1 : s[i] \in S
  BY <1>1
<1> DEFINE n == Len(s) - 1
           u == SubSeq(s, 1, n)
<1>3. n \in Nat /\ n \in Int /\ 1 \in Int
  BY <1>1
<1> HIDE DEF n
<1>4. /\ u \in Seq(S)
      /\ Len(u) = IF 1 <= n THEN n - 1 + 1 ELSE 0
      /\ \A i \in 1 .. n - 1 + 1 : u[i] = s[1 + i - 1]
  BY <1>2, <1>3, SubSeqProperties DEF n
<1> HIDE DEF u
<1>5. Len(u) = n /\ \A i \in 1 .. n : u[i] = s[i]
  BY <1>3, <1>4
<1>6. u = Front(s)
  BY DEF Front, u, n
<1>7. IsPrefix(Front(s), s)
  BY <1>1, <1>4, <1>5, <1>6, PrefixMeans DEF n
<1> QED BY <1>1, <1>4, <1>5, <1>6, <1>7 DEF n, Last

(* A path that begins with another, and is longer, lies in a folder that   *)
(* begins with it.                                                         *)
LEMMA FrontBegins ==
    ASSUME NEW S, NEW s \in Seq(S), NEW t \in Seq(S), IsPrefix(s, t), s # t
    PROVE  t # <<>> /\ IsPrefix(s, Front(t))
<1>1. Len(s) \in Nat /\ Len(t) \in Nat /\ Len(s) < Len(t)
  BY PrefixOrder, LenProperties
<1>2. t # <<>>
  BY <1>1, EmptySeq
<1>3. Front(t) \in Seq(S) /\ IsPrefix(Front(t), t) /\ Len(Front(t)) = Len(t) - 1
  BY <1>2, FrontMeans
<1>4. Len(s) <= Len(Front(t))
  BY <1>1, <1>3
<1> QED BY <1>2, <1>3, <1>4, PrefixOrder

(* The same place, seen from what a thing arrives as. *)
LEMMA RebasedIn ==
    ASSUME NEW S, NEW p \in Seq(S), NEW c \in Seq(S), c # <<>>, IsPrefix(p, Front(c)),
           NEW name
    PROVE  <<name>> \o SubSeq(c, Len(p) + 1, Len(c))
               = Append(<<name>> \o SubSeq(Front(c), Len(p) + 1, Len(Front(c))), Last(c))
<1> DEFINE q == Front(c)
           m == Len(p) + 1
           n == Len(c)
           R == S \cup {name}
<1>1. /\ q \in Seq(S) /\ Len(q) = n - 1 /\ n \in Nat \ {0}
      /\ \A i \in 1 .. n - 1 : q[i] = c[i]
      /\ Last(c) \in S
      /\ Last(c) = c[n]
  BY FrontMeans DEF Last
<1>2. Len(p) \in Nat /\ Len(p) <= n - 1
  BY <1>1, PrefixMeans
<1>3. m \in 1 .. n /\ n \in m .. n /\ m \in Int /\ n - 1 \in Int
  BY <1>1, <1>2
<1>4. SubSeq(c, m, n) = SubSeq(c, m, n - 1) \o <<c[n]>>
  BY <1>3, SubSeqRecursiveSecond
<1> HIDE DEF q, m, n, R
<1>5. \A i \in m .. n - 1 : c[i] \in S /\ q[i] \in S /\ q[i] = c[i]
  <2>1. \A i \in m .. n - 1 : i \in 1 .. Len(c) /\ i \in 1 .. n - 1
    BY <1>1, <1>3 DEF n
  <2> QED BY <1>1, <2>1, ElementOfSeq
<1>6. SubSeq(c, m, n - 1) \in Seq(S) /\ SubSeq(c, m, n - 1) = SubSeq(q, m, n - 1)
  <2> DEFINE u == SubSeq(c, m, n - 1)
             v == SubSeq(q, m, n - 1)
  <2>1. /\ u \in Seq(S)
        /\ Len(u) = IF m <= n - 1 THEN (n - 1) - m + 1 ELSE 0
        /\ \A i \in 1 .. (n - 1) - m + 1 : u[i] = c[m + i - 1]
    BY <1>3, <1>5, SubSeqProperties
  <2>2. /\ v \in Seq(S)
        /\ Len(v) = IF m <= n - 1 THEN (n - 1) - m + 1 ELSE 0
        /\ \A i \in 1 .. (n - 1) - m + 1 : v[i] = q[m + i - 1]
    BY <1>3, <1>5, SubSeqProperties
  <2> HIDE DEF u, v
  <2>3. ASSUME NEW i \in 1 .. Len(u)
        PROVE  u[i] = v[i]
    <3>1. i \in 1 .. (n - 1) - m + 1 /\ m + i - 1 \in m .. n - 1
      BY <1>1, <1>3, <2>1
    <3> QED BY <1>5, <2>1, <2>2, <3>1
  <2>4. u = v
    BY <2>1, <2>2, <2>3, SeqEqual
  <2> QED BY <2>1, <2>4 DEF u, v
<1> DEFINE w == SubSeq(q, m, n - 1)
<1>7. w \in Seq(R) /\ <<name>> \in Seq(R) /\ <<c[n]>> \in Seq(R) /\ c[n] \in R
  <2>1. Seq(S) \subseteq Seq(R)
    BY SeqMonotonic DEF R
  <2>2. c[n] \in R /\ name \in R
    BY <1>1 DEF R
  <2>3. <<name>> \in Seq(R) /\ <<c[n]>> \in Seq(R)
    BY <2>2
  <2>4. w \in Seq(R)
    BY <1>6, <2>1
  <2> QED BY <2>2, <2>3, <2>4
<1> HIDE DEF w
<1>8. <<name>> \o w \in Seq(R)
  BY <1>7, ConcatProperties
<1>9. <<name>> \o (w \o <<c[n]>>) = (<<name>> \o w) \o <<c[n]>>
  BY <1>7, ConcatAssociative
<1>10. Append(<<name>> \o w, c[n]) = (<<name>> \o w) \o <<c[n]>>
  BY <1>7, <1>8, AppendIsConcat
<1>11. SubSeq(c, m, n) = w \o <<c[n]>>
  BY <1>4, <1>6 DEF w
<1> QED BY <1>1, <1>9, <1>10, <1>11 DEF q, m, n, w

-----------------------------------------------------------------------------
(* The forest of what there is to begin with. *)

Names == UNION {Range(p) : p \in Nodes}

LEMMA NodesArePaths == \A p \in Nodes : p \in Seq(Names) /\ p # <<>> /\ Len(p) \in Nat
<1> SUFFICES ASSUME NEW p \in Nodes
             PROVE  p \in Seq(Names) /\ p # <<>> /\ Len(p) \in Nat
  OBVIOUS
<1>1. p \in Seq(Range(p)) /\ p # <<>>
  BY ForestAssumption, TreesAssumption
<1>2. Range(p) \subseteq Names
  BY DEF Names
<1>3. p \in Seq(Names)
  BY <1>1, <1>2, SeqMonotonic
<1> QED BY <1>1, <1>3, LenProperties

LEMMA NodeOrder ==
    ASSUME NEW p \in Nodes, NEW q \in Nodes, NEW r \in Nodes
    PROVE  /\ IsPrefix(p, p)
           /\ IsPrefix(p, q) /\ IsPrefix(q, r) => IsPrefix(p, r)
           /\ IsPrefix(p, q) /\ Len(p) = Len(q) => p = q
           /\ IsPrefix(p, q) => Len(p) <= Len(q)
BY NodesArePaths, PrefixOrder

(* Of what lies strictly below something, all lies in a folder below it,   *)
(* or in it.                                                               *)
LEMMA LiesInFolder ==
    ASSUME NEW p \in Nodes, NEW q \in Nodes, IsPrefix(p, q), p # q
    PROVE  /\ Front(q) \in Folders /\ Front(q) \in Nodes
           /\ IsPrefix(p, Front(q))
           /\ Len(Front(q)) = Len(q) - 1
           /\ IsPrefix(Front(q), q)
<1>1. p \in Seq(Names) /\ q \in Seq(Names) /\ q # <<>>
  BY NodesArePaths
<1>2. Front(q) \in Folders
  BY ForestAssumption
<1> QED BY <1>1, <1>2, FrontBegins, FrontMeans, TreesAssumption

(* On the way from something to what lies below it is one of its children. *)
LEMMA ChildOnTheWay ==
    ASSUME NEW p \in Nodes, NEW q \in Nodes, IsPrefix(p, q), p # q
    PROVE  \E c \in Nodes : Front(c) = p /\ IsPrefix(c, q) /\ IsPrefix(p, c) /\ c # p
<1> DEFINE between == {c \in Nodes : IsPrefix(p, c) /\ IsPrefix(c, q) /\ c # p}
           lengths == {Len(c) : c \in between}
<1>1. q \in between
  BY NodeOrder
<1>2. lengths \in SUBSET Nat /\ lengths # {}
  BY <1>1, NodesArePaths
<1>3. PICK k \in lengths : \A j \in lengths : k <= j
  BY <1>2, LeastOfNumbers
<1>4. PICK c \in between : Len(c) = k
  BY <1>3
<1>5. /\ Front(c) \in Nodes
      /\ IsPrefix(p, Front(c))
      /\ Len(Front(c)) = Len(c) - 1
      /\ IsPrefix(Front(c), c)
  BY <1>4, LiesInFolder
<1>6. IsPrefix(Front(c), q)
  BY <1>4, <1>5, NodeOrder
<1>7. Front(c) = p
  <2> SUFFICES ASSUME Front(c) # p
               PROVE  FALSE
    OBVIOUS
  <2>1. Front(c) \in between
    BY <1>5, <1>6
  <2>2. Len(Front(c)) \in lengths
    BY <2>1
  <2> HIDE DEF between, lengths
  <2>3. k <= Len(Front(c)) /\ k \in Nat
    BY <1>2, <1>3, <2>2
  <2> QED BY <1>4, <1>5, <2>3
<1> QED BY <1>4, <1>7

-----------------------------------------------------------------------------
(* What is deleted is gone. *)

Frames == [at : Nodes, listed : BOOLEAN, inside : SUBSET Nodes]

GoneTypeOK ==
    /\ gone \subseteq Nodes
    /\ DOMAIN doing = Deletions
    /\ left \in [Deletions -> Seq(Nodes)]
    /\ stack \in [Deletions -> Seq(Frames)]

(* Nothing is gone whose insides are not. *)
GoneBelow == \A p \in gone : Below(p) \subseteq gone

(* What a deletion was asked for is gone, is being taken away or is next.  *)
Underway ==
    \A x \in Deletions :
        /\ doing[x] = "done" => left[x] = <<>> /\ stack[x] = <<>>
        /\ \A p \in Range(Doomed[x]) :
              \/ p \in gone
              \/ p \in Range(left[x])
              \/ stack[x] # <<>> /\ stack[x][1].at = p

GoneInv == GoneTypeOK /\ GoneBelow /\ Underway

LEMMA GoneInit == Init => GoneInv
<1> SUFFICES ASSUME Init
             PROVE  GoneInv
  OBVIOUS
<1>1. left \in [Deletions -> Seq(Nodes)] /\ left = Doomed
  BY TreesAssumption DEF Init
<1>2. \A x \in Deletions : <<>> \in Seq(Frames)
  BY EmptySeq
<1>3. GoneTypeOK
  BY <1>1, <1>2 DEF Init, GoneTypeOK
<1> QED BY <1>1, <1>3 DEF Init, GoneInv, GoneBelow, Underway

(* What has nothing in it any more has nothing below it any more.          *)
LEMMA NothingBelow ==
    ASSUME GoneInv, NEW p \in Nodes, Children(p) = {}, NEW q \in Below(p), q # p
    PROVE  q \in gone
<1>1. q \in Nodes /\ IsPrefix(p, q)
  BY DEF Below
<1>2. PICK c \in Nodes : Front(c) = p /\ IsPrefix(c, q) /\ IsPrefix(p, c) /\ c # p
  BY <1>1, ChildOnTheWay
<1>3. c \in gone
  BY <1>2 DEF Children
<1> QED BY <1>1, <1>2, <1>3 DEF GoneInv, GoneBelow, Below

(* A stack that is not empty, with something else on its top. *)
LEMMA StackTop ==
    ASSUME NEW S, NEW s \in Seq(S), s # <<>>, NEW e \in S
    PROVE  /\ Front(s) \in Seq(S)
           /\ Last(s) \in S
           /\ Front(s) = <<>> <=> Len(s) = 1
           /\ Front(s) # <<>> => Front(s)[1] = s[1]
           /\ Front(s) = <<>> => s[1] = Last(s)
           /\ Append(Front(s), e) \in Seq(S)
           /\ Append(Front(s), e) # <<>>
           /\ Append(Front(s), e)[1] = IF Len(s) = 1 THEN e ELSE s[1]
<1>1. /\ Front(s) \in Seq(S)
      /\ Len(Front(s)) = Len(s) - 1
      /\ Len(s) \in Nat \ {0}
      /\ \A i \in 1 .. Len(s) - 1 : Front(s)[i] = s[i]
      /\ Last(s) \in S
  BY FrontMeans
<1> DEFINE u == Front(s)
<1> HIDE DEF u
<1>2. u = <<>> <=> Len(u) = 0
  BY <1>1, EmptySeq DEF u
<1>3. Front(s) = <<>> <=> Len(s) = 1
  BY <1>1, <1>2 DEF u
<1>4. Front(s) # <<>> => Front(s)[1] = s[1]
  BY <1>1, <1>3
<1>5. Front(s) = <<>> => s[1] = Last(s)
  BY <1>3 DEF Last
<1>6. /\ Append(u, e) \in Seq(S)
      /\ Append(u, e) # <<>>
      /\ \A i \in 1 .. Len(u) : Append(u, e)[i] = u[i]
      /\ Append(u, e)[Len(u) + 1] = e
  BY <1>1, AppendProperties DEF u
<1>7. Append(u, e)[1] = IF Len(s) = 1 THEN e ELSE s[1]
  <2>1. CASE Len(s) = 1
    <3>1. Len(u) + 1 = 1
      BY <1>1, <2>1 DEF u
    <3> QED BY <1>6, <2>1, <3>1
  <2>2. CASE Len(s) # 1
    <3>1. 1 \in 1 .. Len(u) /\ u[1] = s[1]
      BY <1>1, <2>2 DEF u
    <3> QED BY <1>6, <2>2, <3>1
  <2> QED BY <2>1, <2>2
<1> QED BY <1>1, <1>3, <1>4, <1>5, <1>6, <1>7 DEF u

(* A step of one deletion leaves the others as they were. *)
LEMMA OnlyThisDeletion ==
    ASSUME GoneInv, NEW x \in Deletions,
           DOMAIN doing' = Deletions,
           \A y \in Deletions \ {x} : UNCHANGED <<doing[y], left[y], stack[y]>>,
           left' \in [Deletions -> Seq(Nodes)],
           stack' \in [Deletions -> Seq(Frames)],
           gone \subseteq gone', gone' \subseteq Nodes,
           \A p \in gone' : Below(p) \subseteq gone',
           doing'[x] = "done" => left'[x] = <<>> /\ stack'[x] = <<>>,
           \A p \in Range(Doomed[x]) :
              \/ p \in gone'
              \/ p \in Range(left'[x])
              \/ stack'[x] # <<>> /\ stack'[x][1].at = p
    PROVE  GoneInv'
<1>1. GoneTypeOK'
  BY DEF GoneTypeOK
<1>2. GoneBelow'
  BY DEF GoneBelow, Below
<1>3. ASSUME NEW y \in Deletions
      PROVE  /\ doing'[y] = "done" => left'[y] = <<>> /\ stack'[y] = <<>>
             /\ \A p \in Range(Doomed[y]) :
                   \/ p \in gone'
                   \/ p \in Range(left'[y])
                   \/ stack'[y] # <<>> /\ stack'[y][1].at = p
  <2>1. CASE y = x
    BY <2>1
  <2>2. CASE y # x
    <3>1. doing'[y] = doing[y] /\ left'[y] = left[y] /\ stack'[y] = stack[y]
      BY <2>2
    <3> QED BY <3>1 DEF GoneInv, Underway
  <2> QED BY <2>1, <2>2
<1>4. Underway'
  BY <1>3 DEF Underway
<1> QED BY <1>1, <1>2, <1>4 DEF GoneInv

LEMMA DeleteKeepsGone ==
    ASSUME GoneInv, NEW x \in Deletions, Delete(x)
    PROVE  GoneInv'
<1> USE DEF Go, Push, SetTop, Top
<1>1. /\ gone \subseteq Nodes
      /\ left \in [Deletions -> Seq(Nodes)]
      /\ stack \in [Deletions -> Seq(Frames)]
      /\ DOMAIN doing = Deletions
      /\ \A p \in gone : Below(p) \subseteq gone
  BY DEF GoneInv, GoneTypeOK, GoneBelow
<1>2. /\ doing[x] = "done" => left[x] = <<>> /\ stack[x] = <<>>
      /\ \A p \in Range(Doomed[x]) :
            \/ p \in gone
            \/ p \in Range(left[x])
            \/ stack[x] # <<>> /\ stack[x][1].at = p
  BY DEF GoneInv, Underway
<1>3. \A p \in Nodes, listed \in BOOLEAN, inside \in SUBSET Nodes :
         [at |-> p, listed |-> listed, inside |-> inside] \in Frames
  BY DEF Frames
<1>4. CASE BeginNext(x)
  <2> DEFINE p == Head(left[x])
  <2>1. /\ doing[x] = "next" /\ stack[x] = <<>> /\ left[x] # <<>>
        /\ stack'[x] = Append(stack[x], Frame(p))
        /\ left'[x] = Tail(left[x])
        /\ \A y \in Deletions \ {x} : UNCHANGED <<doing[y], left[y], stack[y]>>
        /\ UNCHANGED <<gone, doing>>
        /\ stack' = [stack EXCEPT ![x] = Append(stack[x], Frame(p))]
        /\ left' = [left EXCEPT ![x] = Tail(left[x])]
    BY <1>1, <1>4 DEF BeginNext
  <2>2. /\ left[x] \in Seq(Nodes) /\ p \in Nodes
        /\ Tail(left[x]) \in Seq(Nodes)
        /\ DOMAIN left[x] = 1 .. Len(left[x])
        /\ DOMAIN Tail(left[x]) = 1 .. Len(left[x]) - 1
        /\ Len(left[x]) \in Nat
        /\ \A i \in 1 .. Len(left[x]) - 1 : Tail(left[x])[i] = left[x][i + 1]
        /\ p = left[x][1]
    BY <1>1, <2>1, HeadTailProperties, LenProperties
  <2>3. Range(left[x]) \subseteq Range(Tail(left[x])) \cup {p}
    <3> SUFFICES ASSUME NEW i \in DOMAIN left[x], left[x][i] # p
                 PROVE  left[x][i] \in Range(Tail(left[x]))
      BY DEF Range
    <3>1. i - 1 \in DOMAIN Tail(left[x]) /\ Tail(left[x])[i - 1] = left[x][i]
      BY <2>2
    <3> QED BY <3>1 DEF Range
  <2> HIDE DEF p
  <2>4. Frame(p) \in Frames
    BY <1>3, <2>2 DEF Frame
  <2>5. /\ Append(stack[x], Frame(p)) \in Seq(Frames)
        /\ Append(stack[x], Frame(p)) # <<>>
        /\ Append(stack[x], Frame(p))[1] = Frame(p)
    BY <1>1, <2>1, <2>4, AppendProperties, EmptySeq
  <2>6. stack'[x] # <<>> /\ stack'[x][1].at = p
    BY <2>1, <2>5 DEF Frame
  <2>7. \A q \in Range(Doomed[x]) :
            \/ q \in gone'
            \/ q \in Range(left'[x])
            \/ stack'[x] # <<>> /\ stack'[x][1].at = q
    BY <1>2, <2>1, <2>3, <2>6
  <2>8. left' \in [Deletions -> Seq(Nodes)] /\ stack' \in [Deletions -> Seq(Frames)]
    BY <1>1, <2>1, <2>2, <2>5
  <2> QED BY <1>1, <2>1, <2>7, <2>8, OnlyThisDeletion
<1>5. ASSUME stack[x] # <<>>, doing[x] = "next", NEW e \in Frames,
             e.at = Last(stack[x]).at
      PROVE  /\ Append(Front(stack[x]), e) \in Seq(Frames)
             /\ Append(Front(stack[x]), e) # <<>>
             /\ Append(Front(stack[x]), e)[1].at = stack[x][1].at
  <2> stack[x] \in Seq(Frames)
    BY <1>1
  <2>1. /\ Front(stack[x]) = <<>> <=> Len(stack[x]) = 1
        /\ Front(stack[x]) = <<>> => stack[x][1] = Last(stack[x])
        /\ Append(Front(stack[x]), e) \in Seq(Frames)
        /\ Append(Front(stack[x]), e) # <<>>
        /\ Append(Front(stack[x]), e)[1] = IF Len(stack[x]) = 1 THEN e ELSE stack[x][1]
    BY <1>5, StackTop
  <2> QED BY <1>5, <2>1
<1>6. ASSUME stack[x] # <<>>, doing[x] = "next", UNCHANGED <<gone, doing, left>>,
             NEW s \in Seq(Frames), stack' = [stack EXCEPT ![x] = s],
             s # <<>>, s[1].at = stack[x][1].at
      PROVE  GoneInv'
  <2>1. stack'[x] = s /\ stack' \in [Deletions -> Seq(Frames)]
        /\ \A y \in Deletions \ {x} : stack'[y] = stack[y]
    BY <1>1, <1>6
  <2>2. \A q \in Range(Doomed[x]) :
            \/ q \in gone'
            \/ q \in Range(left'[x])
            \/ stack'[x] # <<>> /\ stack'[x][1].at = q
    BY <1>2, <1>6, <2>1
  <2> QED BY <1>1, <1>6, <2>1, <2>2, OnlyThisDeletion
<1>7. CASE LookInside(x)
  <2> DEFINE top == Last(stack[x])
             e == [top EXCEPT !.listed = TRUE, !.inside = Children(top.at)]
  <2>1. /\ stack[x] # <<>> /\ doing[x] = "next"
        /\ UNCHANGED <<gone, doing, left>>
        /\ stack' = [stack EXCEPT ![x] = Append(Front(stack[x]), e)]
    BY <1>1, <1>7 DEF LookInside
  <2>2. top \in Frames
    BY <1>1, <2>1, FrontMeans
  <2>3. e \in Frames /\ e.at = top.at
    BY <2>2 DEF Frames, Children
  <2> HIDE DEF e
  <2>4. /\ Append(Front(stack[x]), e) \in Seq(Frames)
        /\ Append(Front(stack[x]), e) # <<>>
        /\ Append(Front(stack[x]), e)[1].at = stack[x][1].at
    BY <1>5, <2>1, <2>3
  <2> QED BY <1>6, <2>1, <2>4
<1>8. CASE Descend(x)
  <2> DEFINE top == Last(stack[x])
  <2>1. PICK p \in top.inside :
           stack' = [stack EXCEPT ![x] =
              Append(Append(Front(stack[x]), [top EXCEPT !.inside = top.inside \ {p}]), Frame(p))]
    BY <1>1, <1>8 DEF Descend
  <2> DEFINE e == [top EXCEPT !.inside = top.inside \ {p}]
             s == Append(Front(stack[x]), e)
  <2>2. /\ stack[x] # <<>> /\ doing[x] = "next"
        /\ UNCHANGED <<gone, doing, left>>
    BY <1>8 DEF Descend
  <2>3. top \in Frames
    BY <1>1, <2>2, FrontMeans
  <2>4. e \in Frames /\ e.at = top.at /\ p \in Nodes
    BY <2>3 DEF Frames
  <2>5. Frame(p) \in Frames
    BY <1>3, <2>4 DEF Frame
  <2> HIDE DEF e
  <2>6. s \in Seq(Frames) /\ s # <<>> /\ s[1].at = stack[x][1].at
    BY <1>5, <2>2, <2>4
  <2>7. stack' = [stack EXCEPT ![x] = Append(s, Frame(p))]
    BY <2>1 DEF e
  <2> HIDE DEF s
  <2>8. /\ Append(s, Frame(p)) \in Seq(Frames)
        /\ Append(s, Frame(p)) # <<>>
        /\ \A i \in 1 .. Len(s) : Append(s, Frame(p))[i] = s[i]
        /\ Len(s) \in Nat \ {0}
    BY <2>5, <2>6, AppendProperties, LenProperties, EmptySeq
  <2>9. Append(s, Frame(p))[1].at = stack[x][1].at
    BY <2>6, <2>8
  <2> QED BY <1>6, <2>2, <2>7, <2>8, <2>9
<1>9. CASE TakeAway(x)
  <2> DEFINE p == Last(stack[x]).at
  <2>1. /\ stack[x] # <<>> /\ doing[x] = "next"
        /\ Children(p) = {}
        /\ gone' = gone \cup {p}
        /\ stack' = [stack EXCEPT ![x] = Front(stack[x])]
        /\ UNCHANGED <<doing, left>>
    BY <1>1, <1>9 DEF TakeAway
  <2>2. Last(stack[x]) \in Frames /\ Front(stack[x]) \in Seq(Frames)
    BY <1>1, <2>1, FrontMeans
  <2>3. p \in Nodes
    BY <2>2 DEF Frames
  <2>4. \A q \in gone' : Below(q) \subseteq gone'
    BY <1>1, <2>1, <2>3, NothingBelow
  <2>5. /\ Front(stack[x]) # <<>> => Front(stack[x])[1] = stack[x][1]
        /\ Front(stack[x]) = <<>> => stack[x][1] = Last(stack[x])
    BY <1>1, <2>1, <2>2, StackTop
  <2>6. \A q \in Range(Doomed[x]) :
            \/ q \in gone'
            \/ q \in Range(left'[x])
            \/ stack'[x] # <<>> /\ stack'[x][1].at = q
    BY <1>1, <1>2, <2>1, <2>5
  <2>7. stack' \in [Deletions -> Seq(Frames)] /\ \A y \in Deletions \ {x} : stack'[y] = stack[y]
    BY <1>1, <2>1, <2>2
  <2> QED BY <1>1, <2>1, <2>3, <2>4, <2>6, <2>7, OnlyThisDeletion
<1>10. CASE CannotDelete(x) \/ DeletedAll(x)
  <2>1. /\ UNCHANGED <<gone, left, stack>>
        /\ DOMAIN doing' = Deletions
        /\ \A y \in Deletions \ {x} : doing'[y] = doing[y]
        /\ doing'[x] = "done" => left[x] = <<>> /\ stack[x] = <<>>
    BY <1>1, <1>10 DEF CannotDelete, DeletedAll
  <2> QED BY <1>1, <1>2, <2>1, OnlyThisDeletion
<1> QED BY <1>4, <1>7, <1>8, <1>9, <1>10 DEF Delete

LEMMA GoneStep == GoneInv /\ [Next]_vars => GoneInv'
<1> SUFFICES ASSUME GoneInv, [Next]_vars
             PROVE  GoneInv'
  OBVIOUS
<1>1. ASSUME UNCHANGED deletions
      PROVE  GoneInv'
  BY <1>1 DEF deletions, GoneInv, GoneTypeOK, GoneBelow, Underway, Below
<1>2. ASSUME NEW d \in Drops, Work(d) \/ Land(d)
      PROVE  UNCHANGED deletions
  BY <1>2 DEF Work, Land
<1> QED BY <1>1, <1>2, DeleteKeepsGone DEF Next, vars

(* A deletion that is told done has taken away all it was asked to, and    *)
(* nothing is ever left without its folder, however deletions cross        *)
(* (engine.rs delete, provider.rs delete_recursively).                     *)
THEOREM WhatIsDeletedIsGone == Spec => []DeletedIsGone
<1>1. GoneInv => DeletedIsGone
  <2> SUFFICES ASSUME GoneInv
               PROVE  DeletedIsGone
    OBVIOUS
  <2>1. ASSUME NEW x \in Deletions, doing[x] = "done", NEW p \in Range(Doomed[x])
        PROVE  Below(p) \subseteq gone
    <3>1. Range(left[x]) = {}
      BY <2>1 DEF GoneInv, Underway, Range
    <3>2. p \in gone
      BY <2>1, <3>1 DEF GoneInv, Underway
    <3> QED BY <3>2 DEF GoneInv, GoneBelow
  <2> QED BY <2>1 DEF DeletedIsGone, GoneInv, GoneBelow
<1> QED BY <1>1, GoneInit, GoneStep, PTL DEF Spec

-----------------------------------------------------------------------------
(* Nothing is handed over twice. *)

(* Where the things in a queue come from, and that each is there once.     *)
Ats(s) == {s[i].at : i \in DOMAIN s}
Distinct(s) == \A i, j \in DOMAIN s : s[i].at = s[j].at => i = j

LEMMA AtsOfAppend ==
    ASSUME NEW s, s \in Seq(Range(s)), NEW e
    PROVE  /\ Ats(Append(s, e)) = Ats(s) \cup {e.at}
           /\ Distinct(s) /\ e.at \notin Ats(s) => Distinct(Append(s, e))
<1> DEFINE r == Append(s, e)
<1>1. /\ Len(s) \in Nat /\ DOMAIN s = 1 .. Len(s)
      /\ DOMAIN r = 1 .. Len(s) + 1
      /\ \A i \in 1 .. Len(s) : r[i] = s[i]
      /\ r[Len(s) + 1] = e
  BY RangeOfAppend, LenProperties
<1> HIDE DEF r
<1>2. \A i \in DOMAIN r : i = Len(s) + 1 \/ i \in DOMAIN s
  BY <1>1
<1>3. Len(s) + 1 \in DOMAIN r /\ Len(s) + 1 \notin DOMAIN s /\ DOMAIN s \subseteq DOMAIN r
  BY <1>1
<1>4. \A i \in DOMAIN s : r[i] = s[i]
  BY <1>1
<1>5. Ats(r) = Ats(s) \cup {e.at}
  BY <1>1, <1>2, <1>3, <1>4 DEF Ats
<1>6. ASSUME Distinct(s), e.at \notin Ats(s)
      PROVE  Distinct(r)
  BY <1>1, <1>2, <1>3, <1>4, <1>6 DEF Ats, Distinct
<1> QED BY <1>5, <1>6 DEF r

LEMMA AtsOfTail ==
    ASSUME NEW s, s \in Seq(Range(s)), s # <<>>, Distinct(s)
    PROVE  /\ Ats(Tail(s)) = Ats(s) \ {Head(s).at}
           /\ Head(s).at \in Ats(s)
           /\ Distinct(Tail(s))
<1> DEFINE r == Tail(s)
           n == Len(s)
<1>1. /\ n \in Nat \ {0} /\ DOMAIN s = 1 .. n
      /\ DOMAIN r = 1 .. n - 1
      /\ \A i \in 1 .. n - 1 : r[i] = s[i + 1]
      /\ Head(s) = s[1]
  <2>1. /\ r \in Seq(Range(s)) /\ Len(r) = n - 1
        /\ \A i \in 1 .. Len(r) : r[i] = s[i + 1]
    BY HeadTailProperties
  <2>2. n \in Nat \ {0} /\ DOMAIN s = 1 .. n /\ DOMAIN r = 1 .. Len(r)
    BY <2>1, LenProperties, EmptySeq
  <2> QED BY <2>1, <2>2
<1> HIDE DEF r, n
<1>2. \A i \in DOMAIN s : i = 1 \/ (i - 1 \in DOMAIN r /\ r[i - 1] = s[i])
  BY <1>1
<1>3. \A i \in DOMAIN r : i + 1 \in DOMAIN s /\ r[i] = s[i + 1] /\ i + 1 # 1
  BY <1>1
<1>4. 1 \in DOMAIN s
  BY <1>1
<1>5. Distinct(r)
  BY <1>1, <1>3 DEF Distinct
<1>6. Head(s).at \in Ats(s)
  BY <1>1, <1>4 DEF Ats
<1>7. \A i \in DOMAIN r : r[i].at # Head(s).at
  BY <1>1, <1>3, <1>4 DEF Distinct
<1>8. Ats(r) = Ats(s) \ {Head(s).at}
  <2>1. Ats(r) \subseteq Ats(s) \ {Head(s).at}
    BY <1>3, <1>7 DEF Ats
  <2>2. Ats(s) \ {Head(s).at} \subseteq Ats(r)
    BY <1>1, <1>2 DEF Ats
  <2> QED BY <2>1, <2>2
<1> QED BY <1>5, <1>6, <1>8 DEF r

LEMMA AtsOfBoth ==
    ASSUME NEW s, s \in Seq(Range(s)), Distinct(s),
           NEW r, r \in Seq(Range(r)), Distinct(r), Ats(s) \cap Ats(r) = {}
    PROVE  /\ Ats(s \o r) = Ats(s) \cup Ats(r)
           /\ Distinct(s \o r)
<1> DEFINE R == Range(s) \cup Range(r)
           t == s \o r
           m == Len(s)
           n == Len(r)
<1>1. s \in Seq(R) /\ r \in Seq(R)
  BY SeqMonotonic
<1> HIDE DEF R
<1>2. /\ t \in Seq(R) /\ Len(t) = m + n
      /\ \A i \in 1 .. m + n : t[i] = IF i <= m THEN s[i] ELSE r[i - m]
  BY <1>1, ConcatProperties
<1>3. /\ m \in Nat /\ n \in Nat /\ DOMAIN s = 1 .. m /\ DOMAIN r = 1 .. n
      /\ DOMAIN t = 1 .. m + n
  <2>1. DOMAIN t = 1 .. Len(t)
    BY <1>2, LenProperties
  <2> QED BY <1>1, <1>2, <2>1, LenProperties
<1> HIDE DEF t, m, n
<1>4. \A i \in DOMAIN t : \/ i \in DOMAIN s /\ t[i] = s[i]
                          \/ i - m \in DOMAIN r /\ t[i] = r[i - m]
  BY <1>2, <1>3
<1>5. \A i \in DOMAIN s : i \in DOMAIN t /\ t[i] = s[i]
  BY <1>2, <1>3
<1>6. \A i \in DOMAIN r : i + m \in DOMAIN t /\ t[i + m] = r[i]
  BY <1>2, <1>3
<1>7. Ats(t) = Ats(s) \cup Ats(r)
  <2>1. Ats(t) \subseteq Ats(s) \cup Ats(r)
    BY <1>4 DEF Ats
  <2>2. Ats(s) \subseteq Ats(t)
    BY <1>5 DEF Ats
  <2>3. Ats(r) \subseteq Ats(t)
    BY <1>6 DEF Ats
  <2> QED BY <2>1, <2>2, <2>3
<1>8. ASSUME NEW i \in DOMAIN t, NEW j \in DOMAIN t, t[i].at = t[j].at
      PROVE  i = j
  <2>1. i \in Int /\ j \in Int
    BY <1>3
  <2>2. CASE i \in DOMAIN s /\ t[i] = s[i] /\ j \in DOMAIN s /\ t[j] = s[j]
    BY <1>8, <2>2 DEF Distinct
  <2>3. CASE i - m \in DOMAIN r /\ t[i] = r[i - m] /\ j - m \in DOMAIN r /\ t[j] = r[j - m]
    <3>1. i - m = j - m
      BY <1>8, <2>3 DEF Distinct
    <3> QED BY <1>3, <2>1, <3>1
  <2>4. CASE i \in DOMAIN s /\ t[i] = s[i] /\ j - m \in DOMAIN r /\ t[j] = r[j - m]
    BY <1>8, <2>4 DEF Ats
  <2>5. CASE i - m \in DOMAIN r /\ t[i] = r[i - m] /\ j \in DOMAIN s /\ t[j] = s[j]
    BY <1>8, <2>5 DEF Ats
  <2> QED BY <1>4, <2>2, <2>3, <2>4, <2>5
<1>9. Distinct(t)
  BY <1>8 DEF Distinct
<1> QED BY <1>7, <1>9 DEF t

(* What is left to be looked at once the foremost has been. *)
LEMMA RestToDo ==
    ASSUME NEW s \in Seq(Nodes), s # <<>>, IsInjective(s)
    PROVE  /\ Tail(s) \in Seq(Nodes)
           /\ IsInjective(Tail(s))
           /\ Range(Tail(s)) = Range(s) \ {Head(s)}
           /\ Head(s) \in Range(s)
           /\ Range(s) \subseteq Nodes
<1> DEFINE r == Tail(s)
           n == Len(s)
<1>1. /\ r \in Seq(Nodes) /\ Len(r) = n - 1
      /\ \A i \in 1 .. Len(r) : r[i] = s[i + 1]
      /\ n \in Nat \ {0} /\ DOMAIN s = 1 .. n
      /\ \A i \in 1 .. n : s[i] \in Nodes
      /\ Head(s) = s[1]
  BY HeadTailProperties, LenProperties, EmptySeq, ElementOfSeq
<1>2. DOMAIN r = 1 .. n - 1
  BY <1>1, LenProperties
<1> HIDE DEF r, n
<1>3. \A i \in DOMAIN s : i = 1 \/ (i - 1 \in DOMAIN r /\ r[i - 1] = s[i])
  BY <1>1, <1>2
<1>4. \A i \in DOMAIN r : i + 1 \in DOMAIN s /\ r[i] = s[i + 1] /\ i + 1 # 1 /\ i \in Nat
  BY <1>1, <1>2
<1>5. 1 \in DOMAIN s
  BY <1>1
<1>6. IsInjective(r)
  BY <1>4 DEF IsInjective
<1>7. \A i \in DOMAIN r : r[i] # Head(s)
  BY <1>1, <1>4, <1>5 DEF IsInjective
<1>8. Range(r) = Range(s) \ {Head(s)}
  <2>1. Range(r) \subseteq Range(s) \ {Head(s)}
    BY <1>4, <1>7 DEF Range
  <2>2. Range(s) \ {Head(s)} \subseteq Range(r)
    BY <1>1, <1>3 DEF Range
  <2> QED BY <2>1, <2>2
<1>9. Range(s) \subseteq Nodes /\ Head(s) \in Range(s)
  BY <1>1, <1>5 DEF Range
<1> QED BY <1>1, <1>6, <1>8, <1>9 DEF r

Listings(d) == {one.item.at : one \in air[d]}

With(what, p) == IF what = "upload" THEN {p} ELSE Below(p)

(* What is still to be looked at, queued, being listed or handed over does *)
(* not overlap: what comes with one comes with no other, and nothing that  *)
(* was handed over is still to come.                                       *)
Tidy(what, ahead, queued, listing, over) ==
    /\ ahead \subseteq Nodes /\ queued \subseteq Nodes /\ listing \subseteq Nodes
    /\ over \subseteq Nodes
    /\ ahead \cap queued = {} /\ ahead \cap listing = {} /\ queued \cap listing = {}
    /\ \A p, q \in ahead \cup queued \cup listing : q \in With(what, p) => p = q
    /\ \A p \in ahead \cup queued \cup listing : \A h \in over : h \notin With(what, p)

(* Nothing is there twice. *)
Single(d) ==
    /\ IsInjective(todo[d])
    /\ Distinct(waiting[d])
    /\ Distinct(handed[d])
    /\ \A one, other \in air[d] : one.item.at = other.item.at => one = other

(* An upload does not walk, and whoever is done has nothing left to walk.  *)
Walks(d) ==
    /\ kind[d] = "upload" => /\ waiting[d] = <<>> /\ air[d] = {}
                             /\ phase[d] \notin {"asking the server", "walking"}
    /\ phase[d] = "done" => waiting[d] = <<>> /\ air[d] = {}

OnceHere(d) ==
    /\ Tidy(kind[d], Range(todo[d]), Ats(waiting[d]), Listings(d), Ats(handed[d]))
    /\ Single(d)
    /\ Walks(d)

OnceInv == DOMAIN called = Drops /\ \A d \in Drops : OnceHere(d)

LEMMA OnceInit == Init => OnceInv
<1> SUFFICES ASSUME Init, NEW d \in Drops
             PROVE  OnceHere(d)
  BY DEF OnceInv, Init
<1>1. /\ todo[d] = Dragged[d] /\ waiting[d] = <<>> /\ air[d] = {} /\ handed[d] = <<>>
      /\ kind[d] \in Kinds[d]
      /\ phase[d] \in {"next", "reading"}
      /\ Dragged[d] \in Seq(Nodes)
  BY TreesAssumption DEF Init
<1>2. Ats(<<>>) = {} /\ Distinct(<<>>) /\ Listings(d) = {}
  BY <1>1 DEF Ats, Distinct, Listings
<1>3. Range(todo[d]) \subseteq Nodes
  BY <1>1, ElementOfSeq, LenProperties DEF Range
<1>4. \A p, q \in Range(todo[d]) : q \in With(kind[d], p) => p = q
  <2>1. CASE kind[d] = "upload"
    BY <2>1 DEF With
  <2>2. CASE kind[d] # "upload"
    <3>1. Kinds[d] # {"upload"}
      BY <1>1, <2>2
    <3>2. \A p, q \in Range(todo[d]) : IsPrefix(p, q) => p = q
      BY <1>1, <3>1, ForestAssumption
    <3> QED BY <2>2, <3>2 DEF With, Below
  <2> QED BY <2>1, <2>2
<1>5. Tidy(kind[d], Range(todo[d]), Ats(waiting[d]), Listings(d), Ats(handed[d]))
  BY <1>1, <1>2, <1>3, <1>4 DEF Tidy
<1>6. Single(d)
  BY <1>1, <1>2, ForestAssumption DEF Single
<1> QED BY <1>1, <1>5, <1>6 DEF OnceHere, Walks

(* A step of one drop leaves the others as they were. *)
LEMMA OthersStay ==
    ASSUME OnceInv, NEW d \in Drops, DOMAIN called' = Drops, kind' = kind,
           \A e \in Drops \ {d} :
               UNCHANGED <<phase[e], todo[e], waiting[e], air[e], handed[e]>>,
           OnceHere(d)'
    PROVE  OnceInv'
<1>1. ASSUME NEW e \in Drops \ {d}
      PROVE  OnceHere(e)'
  <2>1. /\ phase'[e] = phase[e] /\ todo'[e] = todo[e] /\ waiting'[e] = waiting[e]
        /\ air'[e] = air[e] /\ handed'[e] = handed[e] /\ kind'[e] = kind[e]
    OBVIOUS
  <2>2. OnceHere(e)
    BY DEF OnceInv
  <2>3. Listings(e)' = Listings(e)
    BY <2>1 DEF Listings
  <2>4. Single(e)'
    BY <2>1, <2>2 DEF OnceHere, Single
  <2>5. Walks(e)'
    BY <2>1, <2>2 DEF OnceHere, Walks
  <2>6. Tidy(kind'[e], Range(todo'[e]), Ats(waiting'[e]), Listings(e)', Ats(handed'[e]))
    BY <2>1, <2>2, <2>3 DEF OnceHere
  <2> QED BY <2>4, <2>5, <2>6 DEF OnceHere, Ats
<1> QED BY <1>1 DEF OnceInv

(* What this drop comes to: the new places, and each once. *)
LEMMA ThisStays ==
    ASSUME NEW d \in Drops, kind' = kind,
           NEW ahead, NEW queued, NEW listing, NEW over,
           ahead = Range(todo'[d]), queued = Ats(waiting'[d]), over = Ats(handed'[d]),
           listing = Listings(d)',
           Tidy(kind[d], ahead, queued, listing, over),
           Single(d)', Walks(d)'
    PROVE  OnceHere(d)'
<1>1. Tidy(kind'[d], Range(todo'[d]), Ats(waiting'[d]), Listings(d)', Ats(handed'[d]))
  OBVIOUS
<1> QED BY <1>1 DEF OnceHere, Ats

(* How the places may move. *)
LEMMA TidyMoves ==
    ASSUME NEW what, NEW ahead, NEW queued, NEW listing, NEW over,
           Tidy(what, ahead, queued, listing, over)
    PROVE  /\ \A p : Tidy(what, ahead \ {p}, queued, listing, over)
           /\ \A p \in ahead : Tidy(what, ahead \ {p}, queued, listing, over \cup {p})
           /\ \A p \in ahead : Tidy(what, ahead \ {p}, queued \cup {p}, listing, over)
           /\ \A p \in queued : Tidy(what, ahead, queued \ {p}, listing, over \cup {p})
           /\ \A p \in queued : Tidy(what, ahead, queued \ {p}, listing \cup {p}, over)
           /\ Tidy(what, ahead, queued, {}, over)
           /\ \A p \in ahead : p \in With(what, p) /\ p \notin over /\ p \notin queued
           /\ \A p \in queued : p \in With(what, p) /\ p \notin over /\ p \notin listing
<1>1. \A p \in Nodes : p \in With(what, p)
  BY NodeOrder DEF With, Below
<1>2. ASSUME NEW p
      PROVE  Tidy(what, ahead \ {p}, queued, listing, over)
  BY DEF Tidy
<1>3. ASSUME NEW p \in ahead
      PROVE  /\ Tidy(what, ahead \ {p}, queued, listing, over \cup {p})
             /\ Tidy(what, ahead \ {p}, queued \cup {p}, listing, over)
             /\ p \in With(what, p) /\ p \notin over /\ p \notin queued
  BY <1>1, <1>3 DEF Tidy
<1>4. ASSUME NEW p \in queued
      PROVE  /\ Tidy(what, ahead, queued \ {p}, listing, over \cup {p})
             /\ Tidy(what, ahead, queued \ {p}, listing \cup {p}, over)
             /\ p \in With(what, p) /\ p \notin over /\ p \notin listing
  BY <1>1, <1>4 DEF Tidy
<1>5. Tidy(what, ahead, queued, {}, over)
  BY DEF Tidy
<1> QED BY <1>2, <1>3, <1>4, <1>5

(* The same of a drop as it is. *)
LEMMA MovesHere ==
    ASSUME NEW d \in Drops, OnceHere(d)
    PROVE  /\ \A p : Tidy(kind[d], Range(todo[d]) \ {p}, Ats(waiting[d]), Listings(d), Ats(handed[d]))
           /\ \A p \in Range(todo[d]) :
                 /\ Tidy(kind[d], Range(todo[d]) \ {p}, Ats(waiting[d]), Listings(d),
                         Ats(handed[d]) \cup {p})
                 /\ Tidy(kind[d], Range(todo[d]) \ {p}, Ats(waiting[d]) \cup {p}, Listings(d),
                         Ats(handed[d]))
                 /\ p \notin Ats(handed[d]) /\ p \notin Ats(waiting[d])
           /\ \A p \in Ats(waiting[d]) :
                 /\ Tidy(kind[d], Range(todo[d]), Ats(waiting[d]) \ {p}, Listings(d),
                         Ats(handed[d]) \cup {p})
                 /\ Tidy(kind[d], Range(todo[d]), Ats(waiting[d]) \ {p}, Listings(d) \cup {p},
                         Ats(handed[d]))
                 /\ p \notin Ats(handed[d]) /\ p \notin Listings(d)
           /\ Tidy(kind[d], Range(todo[d]), Ats(waiting[d]), {}, Ats(handed[d]))
<1> DEFINE what == kind[d]
           ahead == Range(todo[d])
           queued == Ats(waiting[d])
           listing == Listings(d)
           over == Ats(handed[d])
<1>1. Tidy(what, ahead, queued, listing, over)
  BY DEF OnceHere
<1> HIDE DEF what, ahead, queued, listing, over
<1>2. /\ \A p : Tidy(what, ahead \ {p}, queued, listing, over)
      /\ Tidy(what, ahead, queued, {}, over)
  BY <1>1, TidyMoves
<1>3. \A p \in ahead : /\ Tidy(what, ahead \ {p}, queued, listing, over \cup {p})
                       /\ Tidy(what, ahead \ {p}, queued \cup {p}, listing, over)
                       /\ p \notin over /\ p \notin queued
  BY <1>1, TidyMoves
<1>4. \A p \in queued : /\ Tidy(what, ahead, queued \ {p}, listing, over \cup {p})
                        /\ Tidy(what, ahead, queued \ {p}, listing \cup {p}, over)
                        /\ p \notin over /\ p \notin listing
  BY <1>1, TidyMoves
<1> QED BY <1>2, <1>3, <1>4 DEF what, ahead, queued, listing, over

(* Some of what lies right in a folder. *)
LiesIn(p, inside) == inside \subseteq Nodes /\ \A c \in inside : Front(c) = p

(* What was listed gives way to what is in it. *)
LEMMA TidyLists ==
    ASSUME NEW what, what # "upload", NEW ahead, NEW queued, NEW listing, NEW over,
           NEW p \in listing,
           Tidy(what, ahead, queued, listing, over),
           NEW inside, LiesIn(p, inside)
    PROVE  /\ Tidy(what, ahead, queued \cup inside, listing \ {p}, over)
           /\ queued \cap inside = {}
<1> USE DEF LiesIn
<1> DEFINE all == ahead \cup queued \cup listing
<1>1. all \subseteq Nodes /\ over \subseteq Nodes /\ p \in Nodes /\ p \in all
      /\ (\A q, r \in all : IsPrefix(q, r) => q = r)
      /\ (\A q \in all, h \in over : ~IsPrefix(q, h))
  BY DEF Tidy, With, Below
<1>2. ASSUME NEW c \in inside
      PROVE  IsPrefix(p, c) /\ c \in Nodes /\ Len(c) = Len(p) + 1 /\ p # c
             /\ c \in Seq(Names) /\ c # <<>> /\ Front(c) = p
  <2>1. c \in Seq(Names) /\ c # <<>> /\ Front(c) = p /\ Len(p) \in Nat /\ c \in Nodes
    BY <1>1, NodesArePaths
  <2> QED BY <2>1, FrontMeans
<1> HIDE DEF all
<1>3. ASSUME NEW c \in inside, NEW q \in all, IsPrefix(c, q) \/ (IsPrefix(q, c) /\ q # p)
      PROVE  FALSE
  <2>1. CASE IsPrefix(c, q)
    <3>1. IsPrefix(p, q)
      BY <1>1, <1>2, <2>1, NodeOrder
    <3>2. p = q
      BY <1>1, <3>1
    <3>3. Len(c) <= Len(p) /\ Len(p) \in Nat
      BY <1>1, <1>2, <2>1, <3>2, NodeOrder, NodesArePaths
    <3> QED BY <1>2, <3>3
  <2>2. CASE IsPrefix(q, c) /\ q # p /\ q # c
    <3>1. q \in Seq(Names)
      BY <1>1, NodesArePaths
    <3>2. IsPrefix(q, Front(c))
      BY <1>2, <2>2, <3>1, FrontBegins
    <3> QED BY <1>1, <1>2, <2>2, <3>2
  <2>3. CASE q = c
    <3>1. IsPrefix(p, q)
      BY <1>2, <2>3
    <3> QED BY <1>1, <1>2, <2>3, <3>1
  <2> QED BY <1>3, <2>1, <2>2, <2>3
<1>4. \A c, e \in inside : IsPrefix(c, e) => c = e
  BY <1>2, NodeOrder
<1>5. \A c \in inside, h \in over : ~IsPrefix(c, h)
  BY <1>1, <1>2, NodeOrder
<1>6. \A c \in inside : c \notin all
  BY <1>2, <1>3, NodeOrder
<1>7. ahead \cup (queued \cup inside) \cup (listing \ {p}) = (all \ {p}) \cup inside
  <2>1. p \notin ahead /\ p \notin queued
    BY DEF Tidy
  <2> QED BY <2>1, <1>6 DEF all
<1>8. \A q, r \in (all \ {p}) \cup inside : IsPrefix(q, r) => q = r
  BY <1>1, <1>3, <1>4
<1>9. \A q \in (all \ {p}) \cup inside, h \in over : ~IsPrefix(q, h)
  BY <1>1, <1>5
<1>10. /\ queued \cap inside = {} /\ ahead \cap inside = {}
       /\ inside \cap (listing \ {p}) = {}
  BY <1>6 DEF all
<1>11. \A q, r : r \in With(what, q) <=> r \in Nodes /\ IsPrefix(q, r)
  BY DEF With, Below
<1>12. /\ ahead \subseteq Nodes /\ queued \cup inside \subseteq Nodes /\ listing \ {p} \subseteq Nodes
       /\ over \subseteq Nodes
       /\ ahead \cap (queued \cup inside) = {} /\ ahead \cap (listing \ {p}) = {}
       /\ (queued \cup inside) \cap (listing \ {p}) = {}
  BY <1>10 DEF Tidy
<1> QED BY <1>7, <1>8, <1>9, <1>10, <1>11, <1>12 DEF Tidy

(* What is known of the variables already. *)
Known == FolderInv /\ NamesInv /\ GoneInv

LEMMA KnownOf ==
    ASSUME Known, NEW d \in Drops
    PROVE  /\ DOMAIN phase = Drops /\ DOMAIN todo = Drops /\ DOMAIN waiting = Drops
           /\ DOMAIN air = Drops /\ DOMAIN handed = Drops /\ DOMAIN brought = Drops
           /\ todo[d] \in Seq(Nodes)
           /\ waiting[d] \in Seq(Range(waiting[d]))
           /\ handed[d] \in Seq(Range(handed[d]))
           /\ brought[d] \in Seq(Range(brought[d]))
           /\ phase[d] \in {"asking the person", "asking the server"} => todo[d] # <<>>
           /\ \A one \in air[d] : "item" \in DOMAIN one
           /\ \A one \in air[d] : one.made => Path(one.item) \in there[Into[d]]
BY DEF Known, FolderInv, Shape, MadeBefore, NamesInv, Counted, NamesKept

(* A step that moves nothing, and begins no walk of an upload. *)
LEMMA NothingMoves ==
    ASSUME Known, OnceInv, NEW d \in Drops,
           UNCHANGED <<kind, todo, called, waiting, air, handed>>,
           NEW to, phase' = [phase EXCEPT ![d] = to],
           kind[d] = "upload" => to \notin {"asking the server", "walking"},
           to = "done" => waiting[d] = <<>> /\ air[d] = {}
    PROVE  OnceInv'
<1>1. OnceHere(d) /\ DOMAIN phase = Drops
  BY KnownOf DEF OnceInv
<1>2. Listings(d)' = Listings(d)
  BY DEF Listings
<1>3. Single(d)'
  BY <1>1 DEF OnceHere, Single
<1>4. Walks(d)'
  BY <1>1 DEF OnceHere, Walks
<1>5. OnceHere(d)'
  BY <1>1, <1>2, <1>3, <1>4, ThisStays DEF OnceHere
<1> QED BY <1>1, <1>5, OthersStay DEF OnceInv

LEMMA ArriveOnce ==
    ASSUME Known, OnceInv, NEW d \in Drops, NEW name, NEW said, Arrive(d, name, said),
           todo[d] # <<>>, phase[d] \in {"next", "asking the person"}
    PROVE  OnceInv'
<1> DEFINE at == Head(todo[d])
           item == Item(at, <<>>, name)
<1>1. /\ OnceHere(d) /\ DOMAIN phase = Drops /\ DOMAIN todo = Drops /\ DOMAIN handed = Drops
      /\ DOMAIN called = Drops /\ todo[d] \in Seq(Nodes)
      /\ handed[d] \in Seq(Range(handed[d]))
  BY KnownOf DEF OnceInv
<1>2. CASE kind[d] # "upload" /\ UNCHANGED <<handed, todo>>
  <2>1. /\ UNCHANGED <<kind, todo, waiting, air, handed>>
        /\ phase' = [phase EXCEPT ![d] = "asking the server"]
        /\ called' = [called EXCEPT ![d] = name]
    BY <1>2, <1>1 DEF Arrive, Step
  <2>2. Listings(d)' = Listings(d)
    BY <2>1 DEF Listings
  <2>3. Single(d)'
    BY <1>1, <2>1 DEF OnceHere, Single
  <2>4. Walks(d)'
    BY <1>1, <1>2, <2>1 DEF OnceHere, Walks
  <2>5. OnceHere(d)'
    BY <1>1, <2>1, <2>2, <2>3, <2>4, ThisStays DEF OnceHere
  <2> QED BY <1>1, <2>1, <2>5, OthersStay
<1>3. CASE kind[d] = "upload" /\ HandOver(d, item) /\ todo' = [todo EXCEPT ![d] = Tail(@)]
           /\ Step(d, "next") /\ UNCHANGED called
  <2>1. /\ UNCHANGED <<kind, called, waiting, air>>
        /\ phase'[d] = "next" /\ todo'[d] = Tail(todo[d])
        /\ handed'[d] = Append(handed[d], item)
        /\ \A e \in Drops \ {d} :
              phase'[e] = phase[e] /\ todo'[e] = todo[e] /\ handed'[e] = handed[e]
    BY <1>1, <1>3 DEF Arrive, Step, HandOver
  <2>2. /\ IsInjective(todo'[d]) /\ Range(todo'[d]) = Range(todo[d]) \ {at}
        /\ at \in Range(todo[d])
    BY <1>1, <2>1, RestToDo DEF OnceHere, Single
  <2>3. item.at = at
    BY DEF Item
  <2>4. Listings(d)' = Listings(d)
    BY <2>1 DEF Listings
  <2> HIDE DEF at, item
  <2>5. /\ Tidy(kind[d], Range(todo[d]) \ {at}, Ats(waiting[d]), Listings(d), Ats(handed[d]) \cup {at})
        /\ at \notin Ats(handed[d])
    BY <1>1, <2>2, MovesHere
  <2>6. Ats(handed'[d]) = Ats(handed[d]) \cup {at} /\ Distinct(handed'[d])
    <3>1. Distinct(handed[d]) /\ item.at \notin Ats(handed[d])
      BY <1>1, <2>3, <2>5 DEF OnceHere, Single
    <3>2. handed[d] \in Seq(Range(handed[d]))
      BY <1>1
    <3>3. /\ Ats(Append(handed[d], item)) = Ats(handed[d]) \cup {item.at}
          /\ Distinct(Append(handed[d], item))
      BY <3>1, <3>2, AtsOfAppend
    <3> QED BY <2>1, <2>3, <3>3
  <2>7. Single(d)'
    BY <1>1, <2>1, <2>2, <2>6 DEF OnceHere, Single, Distinct
  <2>8. Walks(d)'
    BY <1>1, <2>1 DEF OnceHere, Walks
  <2>9. OnceHere(d)'
    BY <2>1, <2>2, <2>4, <2>5, <2>6, <2>7, <2>8, ThisStays
  <2> QED BY <1>1, <2>1, <2>9, OthersStay
<1> QED BY <1>2, <1>3 DEF Arrive

LEMMA SkipOnce ==
    ASSUME Known, OnceInv, NEW d \in Drops, Skip(d)
    PROVE  OnceInv'
<1> DEFINE at == Head(todo[d])
<1>1. /\ OnceHere(d) /\ DOMAIN phase = Drops /\ DOMAIN todo = Drops
      /\ DOMAIN called = Drops /\ todo[d] \in Seq(Nodes) /\ todo[d] # <<>>
  BY KnownOf DEF OnceInv, Skip
<1>2. /\ UNCHANGED <<kind, called, waiting, air, handed>>
      /\ phase'[d] = "next" /\ todo'[d] = Tail(todo[d])
      /\ \A e \in Drops \ {d} : phase'[e] = phase[e] /\ todo'[e] = todo[e]
  BY <1>1 DEF Skip, Step
<1>3. IsInjective(todo'[d]) /\ Range(todo'[d]) = Range(todo[d]) \ {at}
  BY <1>1, <1>2, RestToDo DEF OnceHere, Single
<1>4. Listings(d)' = Listings(d)
  BY <1>2 DEF Listings
<1> HIDE DEF at
<1>5. Tidy(kind[d], Range(todo[d]) \ {at}, Ats(waiting[d]), Listings(d), Ats(handed[d]))
  BY <1>1, MovesHere
<1>6. Single(d)'
  BY <1>1, <1>2, <1>3 DEF OnceHere, Single
<1>7. Walks(d)'
  BY <1>1, <1>2 DEF OnceHere, Walks
<1>8. OnceHere(d)'
  BY <1>2, <1>3, <1>4, <1>5, <1>6, <1>7, ThisStays
<1> QED BY <1>1, <1>2, <1>8, OthersStay

LEMMA StatOnce ==
    ASSUME Known, OnceInv, NEW d \in Drops, Stat(d)
    PROVE  OnceInv'
<1> DEFINE at == Head(todo[d])
           item == Item(at, <<>>, called[d])
<1>1. /\ OnceHere(d) /\ DOMAIN phase = Drops /\ DOMAIN todo = Drops /\ DOMAIN waiting = Drops
      /\ DOMAIN called = Drops /\ todo[d] \in Seq(Nodes) /\ todo[d] # <<>>
      /\ waiting[d] \in Seq(Range(waiting[d]))
      /\ phase[d] = "asking the server"
  BY KnownOf DEF OnceInv, Stat
<1>2. /\ UNCHANGED <<kind, called, air, handed>>
      /\ phase'[d] = "next" /\ todo'[d] = Tail(todo[d])
      /\ waiting'[d] = Append(waiting[d], item)
      /\ \A e \in Drops \ {d} :
            phase'[e] = phase[e] /\ todo'[e] = todo[e] /\ waiting'[e] = waiting[e]
  BY <1>1 DEF Stat, Step
<1>3. /\ IsInjective(todo'[d]) /\ Range(todo'[d]) = Range(todo[d]) \ {at}
      /\ at \in Range(todo[d])
  BY <1>1, <1>2, RestToDo DEF OnceHere, Single
<1>4. Listings(d)' = Listings(d) /\ item.at = at
  BY <1>2 DEF Listings, Item
<1> HIDE DEF at, item
<1>5. /\ Tidy(kind[d], Range(todo[d]) \ {at}, Ats(waiting[d]) \cup {at}, Listings(d), Ats(handed[d]))
      /\ at \notin Ats(waiting[d])
  BY <1>1, <1>3, MovesHere
<1>6. Ats(waiting'[d]) = Ats(waiting[d]) \cup {at} /\ Distinct(waiting'[d])
  <2>1. Distinct(waiting[d]) /\ item.at \notin Ats(waiting[d])
    BY <1>1, <1>4, <1>5 DEF OnceHere, Single
  <2>2. waiting[d] \in Seq(Range(waiting[d]))
    BY <1>1
  <2>3. /\ Ats(Append(waiting[d], item)) = Ats(waiting[d]) \cup {item.at}
        /\ Distinct(Append(waiting[d], item))
    BY <2>1, <2>2, AtsOfAppend
  <2> QED BY <1>2, <1>4, <2>3
<1>7. Single(d)'
  BY <1>1, <1>2, <1>3, <1>6 DEF OnceHere, Single, Distinct
<1>8. Walks(d)'
  BY <1>1, <1>2 DEF OnceHere, Walks
<1>9. OnceHere(d)'
  BY <1>2, <1>3, <1>4, <1>5, <1>6, <1>7, <1>8, ThisStays
<1> QED BY <1>1, <1>2, <1>9, OthersStay

LEMMA TakeOnce ==
    ASSUME Known, OnceInv, NEW d \in Drops, Take(d)
    PROVE  OnceInv'
<1> DEFINE item == Head(waiting[d])
           one == [item |-> item, made |-> FALSE]
<1>1. /\ OnceHere(d) /\ DOMAIN air = Drops /\ DOMAIN handed = Drops /\ DOMAIN waiting = Drops
      /\ DOMAIN called = Drops
      /\ waiting[d] \in Seq(Range(waiting[d]))
      /\ handed[d] \in Seq(Range(handed[d]))
      /\ phase[d] = "walking" /\ waiting[d] # <<>>
      /\ kind[d] # "upload"
  BY KnownOf DEF OnceInv, OnceHere, Walks, Take, HasRoom
<1>2. /\ UNCHANGED <<kind, phase, todo, called>>
      /\ waiting'[d] = Tail(waiting[d])
      /\ \A e \in Drops \ {d} : waiting'[e] = waiting[e]
  BY <1>1 DEF Take
<1>3. /\ Ats(waiting'[d]) = Ats(waiting[d]) \ {item.at}
      /\ item.at \in Ats(waiting[d]) /\ Distinct(waiting'[d])
  BY <1>1, <1>2, AtsOfTail DEF OnceHere, Single
<1>4. Walks(d)'
  BY <1>1, <1>2 DEF Walks
<1>5. CASE HandOver(d, item) /\ UNCHANGED air
  <2>1. /\ handed'[d] = Append(handed[d], item)
        /\ \A e \in Drops \ {d} : handed'[e] = handed[e]
    BY <1>1, <1>5 DEF HandOver
  <2>2. Listings(d)' = Listings(d)
    BY <1>5 DEF Listings
  <2> HIDE DEF item
  <2>3. /\ Tidy(kind[d], Range(todo[d]), Ats(waiting[d]) \ {item.at}, Listings(d),
                Ats(handed[d]) \cup {item.at})
        /\ item.at \notin Ats(handed[d])
    BY <1>1, <1>3, MovesHere
  <2>4. Ats(handed'[d]) = Ats(handed[d]) \cup {item.at} /\ Distinct(handed'[d])
    BY <1>1, <2>1, <2>3, AtsOfAppend DEF OnceHere, Single
  <2>5. Single(d)'
    BY <1>1, <1>2, <1>3, <1>5, <2>4 DEF OnceHere, Single, Distinct
  <2>6. OnceHere(d)'
    BY <1>2, <1>3, <1>4, <2>2, <2>3, <2>4, <2>5, ThisStays
  <2> QED BY <1>1, <1>2, <1>5, <2>1, <2>6, OthersStay
<1>6. CASE air' = [air EXCEPT ![d] = @ \cup {one}] /\ UNCHANGED handed
  <2>1. /\ air'[d] = air[d] \cup {one}
        /\ \A e \in Drops \ {d} : air'[e] = air[e]
        /\ one.item = item
    BY <1>1, <1>6
  <2> HIDE DEF one
  <2>2. Listings(d)' = Listings(d) \cup {item.at}
    BY <2>1 DEF Listings
  <2> HIDE DEF item
  <2>3. /\ Tidy(kind[d], Range(todo[d]), Ats(waiting[d]) \ {item.at}, Listings(d) \cup {item.at},
                Ats(handed[d]))
        /\ item.at \notin Listings(d)
    BY <1>1, <1>3, MovesHere
  <2>4. \A other \in air[d] : other.item.at # item.at
    BY <2>3 DEF Listings
  <2>5. Single(d)'
    BY <1>1, <1>2, <1>3, <1>6, <2>1, <2>4 DEF OnceHere, Single, Distinct
  <2>6. OnceHere(d)'
    BY <1>2, <1>3, <1>4, <1>6, <2>2, <2>3, <2>5, ThisStays
  <2> QED BY <1>1, <1>2, <1>6, <2>1, <2>6, OthersStay
<1> QED BY <1>5, <1>6 DEF Take

LEMMA MakeOnce ==
    ASSUME Known, OnceInv, NEW d \in Drops, NEW one \in air[d], Make(d, one)
    PROVE  OnceInv'
<1> DEFINE made == [one EXCEPT !.made = TRUE]
<1>1. /\ OnceHere(d) /\ DOMAIN air = Drops /\ DOMAIN called = Drops
      /\ made.item = one.item
      /\ kind[d] # "upload"
      /\ phase[d] = "walking"
  BY KnownOf DEF OnceInv, OnceHere, Walks, Make, Listing
<1>2. /\ UNCHANGED <<kind, phase, todo, called, waiting, handed>>
      /\ air'[d] = (air[d] \ {one}) \cup {made}
      /\ \A e \in Drops \ {d} : air'[e] = air[e]
  BY <1>1 DEF Make
<1> HIDE DEF made
<1>3. Listings(d)' = Listings(d)
  BY <1>1, <1>2 DEF Listings
<1>4. Single(d)'
  BY <1>1, <1>2 DEF OnceHere, Single
<1>5. Walks(d)'
  BY <1>1, <1>2 DEF Walks
<1>6. OnceHere(d)'
  BY <1>1, <1>2, <1>3, <1>4, <1>5, ThisStays DEF OnceHere
<1> QED BY <1>1, <1>2, <1>6, OthersStay

LEMMA BreakOnce ==
    ASSUME Known, OnceInv, NEW d \in Drops, NEW one \in air[d], Break(d, one)
    PROVE  OnceInv'
<1>1. /\ OnceHere(d) /\ DOMAIN air = Drops /\ DOMAIN called = Drops /\ DOMAIN phase = Drops
  BY KnownOf DEF OnceInv
<1>2. /\ UNCHANGED <<kind, todo, called, waiting, handed>>
      /\ phase'[d] = "failed" /\ air'[d] = {}
      /\ \A e \in Drops \ {d} : air'[e] = air[e] /\ phase'[e] = phase[e]
  BY <1>1 DEF Break, Fail, Step
<1>3. Listings(d)' = {}
  BY <1>2 DEF Listings
<1>4. Tidy(kind[d], Range(todo[d]), Ats(waiting[d]), {}, Ats(handed[d]))
  BY <1>1, MovesHere
<1>5. Single(d)'
  BY <1>1, <1>2 DEF OnceHere, Single
<1>6. Walks(d)'
  BY <1>1, <1>2 DEF OnceHere, Walks
<1>7. OnceHere(d)'
  BY <1>2, <1>3, <1>4, <1>5, <1>6, ThisStays
<1> QED BY <1>1, <1>2, <1>7, OthersStay

(* The server names everything that is in a folder, and each thing once. *)
LEMMA AllAreNamed ==
    ASSUME NEW p, NEW order \in [1 .. Cardinality(Children(p)) -> Children(p)],
           IsInjective(order)
    PROVE  /\ \A c \in Children(p) : \E i \in DOMAIN order : order[i] = c
           /\ Cardinality(Children(p)) \in Nat
<1> DEFINE S == Children(p)
           n == Cardinality(S)
<1>1. IsFiniteSet(S)
  BY TreesAssumption, FS_Subset DEF Children
<1>2. n \in Nat
  BY <1>1, FS_CardinalityType
<1>3. Cardinality(1 .. n) = n
  <2>1. 1 \in Int /\ n \in Int
    BY <1>2
  <2> HIDE DEF n
  <2>2. Cardinality(1 .. n) = IF 1 > n THEN 0 ELSE n - 1 + 1
    BY <2>1, FS_Interval
  <2> QED BY <1>2, <2>2
<1>4. order \in Injection(1 .. n, S)
  BY DEF Injection
<1> HIDE DEF n, S
<1>5. order \in Surjection(1 .. n, S)
  BY <1>1, <1>3, <1>4, FS_Injection DEF n
<1>6. order \in [1 .. n -> S] /\ \A c \in S : \E i \in 1 .. n : order[i] = c
  BY <1>5 DEF Surjection
<1> QED BY <1>2, <1>6 DEF n, S

LEMMA ListOnce ==
    ASSUME Known, OnceInv, NEW d \in Drops, NEW one \in air[d], List(d, one)
    PROVE  OnceInv'
<1> DEFINE p == one.item.at
           children == Children(p)
           itemOf(c) == Item(c, Path(one.item), Name(c))
<1>1. /\ OnceHere(d) /\ DOMAIN air = Drops /\ DOMAIN waiting = Drops /\ DOMAIN called = Drops
      /\ waiting[d] \in Seq(Range(waiting[d]))
      /\ phase[d] = "walking"
      /\ kind[d] # "upload"
  BY KnownOf DEF OnceInv, OnceHere, Walks, List, Listing
<1>2. PICK order \in [1 .. Cardinality(children) -> children] :
         /\ IsInjective(order)
         /\ waiting' = [waiting EXCEPT ![d] = @ \o [i \in DOMAIN order |-> itemOf(order[i])]]
  BY DEF List
<1> DEFINE listed == [i \in DOMAIN order |-> itemOf(order[i])]
<1>3. /\ UNCHANGED <<kind, phase, todo, called, handed>>
      /\ air'[d] = air[d] \ {one}
      /\ waiting'[d] = waiting[d] \o listed
      /\ \A e \in Drops \ {d} : air'[e] = air[e] /\ waiting'[e] = waiting[e]
  BY <1>1, <1>2 DEF List
<1>4. /\ \A c \in children : \E i \in DOMAIN order : order[i] = c
      /\ Cardinality(children) \in Nat
  BY <1>2, AllAreNamed
<1>5. /\ DOMAIN listed = DOMAIN order
      /\ \A i \in DOMAIN order : listed[i].at = order[i] /\ order[i] \in children
  BY DEF Item
<1>6. listed \in Seq(Range(listed))
  <2>1. listed \in [1 .. Cardinality(children) -> Range(listed)]
    BY DEF Range
  <2> HIDE DEF listed
  <2> QED BY <1>4, <2>1, SeqDef
<1> HIDE DEF listed
<1>7. Distinct(listed) /\ Ats(listed) = children
  <2>1. Distinct(listed)
    BY <1>2, <1>5 DEF Distinct, IsInjective
  <2>2. Ats(listed) = children
    BY <1>4, <1>5 DEF Ats
  <2> QED BY <2>1, <2>2
<1>8. p \in Listings(d) /\ children \subseteq Nodes /\ (\A c \in children : Front(c) = p)
  BY DEF Listings, Children
<1>9. Listings(d)' = Listings(d) \ {p}
  BY <1>1, <1>3 DEF Listings, OnceHere, Single
<1> HIDE DEF p, children
<1>10. Tidy(kind[d], Range(todo[d]), Ats(waiting[d]), Listings(d), Ats(handed[d]))
  BY <1>1 DEF OnceHere
<1>11. /\ Tidy(kind[d], Range(todo[d]), Ats(waiting[d]) \cup children, Listings(d) \ {p},
               Ats(handed[d]))
       /\ Ats(waiting[d]) \cap children = {}
  <2> DEFINE what == kind[d]
             ahead == Range(todo[d])
             queued == Ats(waiting[d])
             listing == Listings(d)
             over == Ats(handed[d])
  <2>1. Tidy(what, ahead, queued, listing, over) /\ what # "upload" /\ p \in listing
    BY <1>1, <1>8, <1>10
  <2>2. LiesIn(p, children)
    BY <1>8 DEF LiesIn
  <2> HIDE DEF what, ahead, queued, listing, over
  <2>3. /\ Tidy(what, ahead, queued \cup children, listing \ {p}, over)
        /\ queued \cap children = {}
    BY <2>1, <2>2, TidyLists
  <2> QED BY <2>3 DEF what, ahead, queued, listing, over
<1>12. Ats(waiting'[d]) = Ats(waiting[d]) \cup children /\ Distinct(waiting'[d])
  BY <1>1, <1>3, <1>6, <1>7, <1>11, AtsOfBoth DEF OnceHere, Single
<1>13. Single(d)'
  BY <1>1, <1>3, <1>12 DEF OnceHere, Single, Distinct
<1>14. Walks(d)'
  BY <1>1, <1>3 DEF Walks
<1>15. OnceHere(d)'
  BY <1>3, <1>9, <1>11, <1>12, <1>13, <1>14, ThisStays
<1> QED BY <1>1, <1>3, <1>15, OthersStay

LEMMA OnceStep == Known /\ OnceInv /\ [Next]_vars => OnceInv'
<1> SUFFICES ASSUME Known, OnceInv, [Next]_vars
             PROVE  OnceInv'
  OBVIOUS
<1>1. ASSUME UNCHANGED drops
      PROVE  OnceInv'
  <2>1. ASSUME NEW d \in Drops
        PROVE  OnceHere(d)'
    <3>1. /\ UNCHANGED <<kind, phase, todo, waiting, air, handed>>
          /\ OnceHere(d)
      BY <1>1 DEF drops, OnceInv
    <3>2. Listings(d)' = Listings(d)
      BY <3>1 DEF Listings
    <3>3. Single(d)'
      BY <3>1 DEF OnceHere, Single
    <3>4. Walks(d)'
      BY <3>1 DEF OnceHere, Walks
    <3> QED BY <3>1, <3>2, <3>3, <3>4, ThisStays DEF OnceHere
  <2> QED BY <1>1, <2>1 DEF drops, OnceInv
<1>2. ASSUME NEW d \in Drops, Planning(d)
      PROVE  OnceInv'
  <2>1. CASE ReadFolder(d)
    BY <2>1, NothingMoves DEF ReadFolder, Step
  <2>2. CASE CannotRead(d) \/ HasNoName(d) \/ CannotStat(d)
    BY <2>2, NothingMoves DEF CannotRead, HasNoName, CannotStat, Fail, Step
  <2>3. CASE LookAtNext(d)
    <3>1. CASE Arrive(d, Name(Head(todo[d])), "nothing")
      BY <2>3, <3>1, ArriveOnce DEF LookAtNext
    <3>2. CASE Step(d, "asking the person")
               /\ UNCHANGED <<kind, todo, taken, called, waiting, air, handed, found, brought>>
      BY <3>2, NothingMoves DEF Step
    <3> QED BY <2>3, <3>1, <3>2 DEF LookAtNext
  <2>4. CASE LookedAtAll(d)
    <3>1. kind[d] = "upload" => waiting[d] = <<>> /\ air[d] = {}
      BY DEF OnceInv, OnceHere, Walks
    <3> QED BY <2>4, <3>1, NothingMoves DEF LookedAtAll, Step
  <2>5. CASE WalkEnds(d)
    BY <2>5, NothingMoves DEF WalkEnds, Step
  <2> QED BY <1>2, <2>1, <2>2, <2>3, <2>4, <2>5, StatOnce, TakeOnce DEF Planning
<1>3. ASSUME NEW d \in Drops, Work(d)
      PROVE  OnceInv'
  BY <1>2, <1>3, ListOnce, MakeOnce, BreakOnce DEF Work
<1>4. ASSUME NEW d \in Drops, Answer(d)
      PROVE  OnceInv'
  <2>1. phase[d] = "asking the person" /\ todo[d] # <<>>
    BY <1>4, KnownOf DEF Answer, Replace, KeepBoth, Skip
  <2> QED BY <1>4, <2>1, SkipOnce, ArriveOnce DEF Answer, Replace, KeepBoth
<1>5. ASSUME NEW d \in Drops, Land(d)
      PROVE  OnceInv'
  BY <1>1, <1>5 DEF Land
<1>6. ASSUME NEW x \in Deletions, Delete(x)
      PROVE  OnceInv'
  BY <1>1, <1>6 DEF Delete
<1>7. CASE UNCHANGED vars
  BY <1>1, <1>7 DEF vars
<1> QED BY <1>3, <1>4, <1>5, <1>6, <1>7 DEF Next

-----------------------------------------------------------------------------
(* Whoever is done has brought everything. *)

LEMMA HeadOrTail ==
    ASSUME NEW s, s \in Seq(Range(s)), s # <<>>
    PROVE  Range(s) \subseteq Range(Tail(s)) \cup {Head(s)}
<1> DEFINE r == Tail(s)
           n == Len(s)
<1>1. /\ r \in Seq(Range(s)) /\ Len(r) = n - 1
      /\ \A i \in 1 .. Len(r) : r[i] = s[i + 1]
      /\ Head(s) = s[1]
  BY HeadTailProperties
<1>2. n \in Nat \ {0} /\ DOMAIN s = 1 .. n /\ DOMAIN r = 1 .. n - 1
  BY <1>1, LenProperties, EmptySeq
<1> HIDE DEF r, n
<1>3. \A i \in DOMAIN s : i = 1 \/ (i - 1 \in DOMAIN r /\ r[i - 1] = s[i])
  BY <1>1, <1>2
<1>4. Range(s) \subseteq Range(r) \cup {Head(s)}
  BY <1>1, <1>3 DEF Range
<1> QED BY <1>4 DEF r

LEMMA RangeOfBothIs ==
    ASSUME NEW s, NEW r, s \in Seq(Range(s)), r \in Seq(Range(r))
    PROVE  Range(s \o r) = Range(s) \cup Range(r)
<1> DEFINE S == Range(s) \cup Range(r)
<1>1. s \in Seq(S) /\ r \in Seq(S)
  BY SeqMonotonic
<1> HIDE DEF S
<1> QED BY <1>1, RangeConcatenation

(* What a thing itself arrives as. *)
LEMMA RebasedItself ==
    ASSUME NEW b, b.at \in Nodes
    PROVE  /\ Rebased(b, b.at) = <<b.name>>
           /\ Append(<<>>, b.name) = <<b.name>>
<1> DEFINE at == b.at
           name == b.name
<1>1. at \in Seq(Names) /\ Len(at) \in Nat
  BY NodesArePaths
<1>2. SubSeq(at, Len(at) + 1, Len(at)) = <<>>
  BY <1>1, SubSeqEmpty
<1>3. <<name>> \o <<>> = <<name>>
  <2>1. <<name>> \in Seq({name})
    OBVIOUS
  <2> QED BY <2>1, ConcatEmptySeq
<1>4. Append(<<>>, name) = <<name>>
  <2>1. /\ <<>> \in Seq({name}) /\ <<name>> \in Seq({name}) /\ name \in {name}
    BY EmptySeq
  <2>2. Append(<<>>, name) = <<>> \o <<name>>
    BY <2>1, AppendIsConcat
  <2>3. <<>> \o <<name>> = <<name>>
    BY <2>1, ConcatEmptySeq
  <2> QED BY <2>2, <2>3
<1>5. Rebased(b, b.at) = <<name>> \o SubSeq(at, Len(at) + 1, Len(at))
  BY DEF Rebased
<1> QED BY <1>2, <1>3, <1>4, <1>5

(* What lies in a folder arrives in what the folder arrives as. *)
LEMMA RebasedChild ==
    ASSUME NEW b, b.at \in Nodes, NEW q \in Nodes, NEW c \in Nodes, Front(c) = q,
           IsPrefix(b.at, q)
    PROVE  Rebased(b, c) = Append(Rebased(b, q), Last(c))
<1> DEFINE at == b.at
           name == b.name
<1>1. at \in Seq(Names) /\ c \in Seq(Names) /\ c # <<>>
  BY NodesArePaths
<1> HIDE DEF at, name
<1>2. <<name>> \o SubSeq(c, Len(at) + 1, Len(c))
        = Append(<<name>> \o SubSeq(Front(c), Len(at) + 1, Len(Front(c))), Last(c))
  <2>1. IsPrefix(at, Front(c))
    BY DEF at
  <2> QED BY <1>1, <2>1, RebasedIn
<1> QED BY <1>2 DEF Rebased, at, name

(* Below what is no folder there is nothing. *)
LEMMA FilesHoldNothing ==
    ASSUME NEW p \in Nodes, p \notin Folders, NEW q \in Below(p)
    PROVE  q = p
<1>1. q \in Nodes /\ IsPrefix(p, q)
  BY DEF Below
<1>2. ASSUME q # p
      PROVE  FALSE
  <2>1. PICK c \in Nodes : Front(c) = p /\ IsPrefix(c, q) /\ IsPrefix(p, c) /\ c # p
    BY <1>1, <1>2, ChildOnTheWay
  <2> QED BY <2>1, LiesInFolder
<1> QED BY <1>2

Moving(d) == Range(waiting[d]) \cup {one.item : one \in air[d]}

(* This item, once it is walked, brings p to where it belongs. *)
Carries(d, b, p, item) ==
    /\ p \in Comes(d, item.at)
    /\ item.at \in Comes(d, b.at)
    /\ Path(item) = Rebased(b, item.at)

IsMade(d, p) == p \in Folders /\ kind[d] # "upload"

Delivered(d, b, p) ==
    \/ IsMade(d, p) /\ Rebased(b, p) \in there[Into[d]]
    \/ /\ ~IsMade(d, p)
       /\ \E item \in Range(handed[d]) : item.at = p /\ Path(item) = Rebased(b, p)

OnItsWay(d, b, p) == \E item \in Moving(d) : Carries(d, b, p, item)

AskedAbout(d, b) ==
    phase[d] = "asking the server" /\ b.at = Head(todo[d]) /\ b.name = called[d]

(* As long as a drop does not fail, whatever it set out to bring has been  *)
(* delivered, or something on its way carries it, or the server is being   *)
(* asked what its root is.                                                 *)
Accounted(d) ==
    /\ \A b \in Range(brought[d]) : b.at \in Nodes
    /\ \A one \in air[d] : one.item.at \in Folders
    /\ phase[d] # "failed" =>
          \A b \in Range(brought[d]) : \A p \in Comes(d, b.at) \ gone :
              Delivered(d, b, p) \/ OnItsWay(d, b, p) \/ AskedAbout(d, b)

AllAccounted == \A d \in Drops : Accounted(d)

LEMMA AccountedInit == Init => AllAccounted
<1> SUFFICES ASSUME Init, NEW d \in Drops
             PROVE  Accounted(d)
  BY DEF AllAccounted
<1>1. brought[d] = <<>> /\ air[d] = {}
  BY DEF Init
<1>2. Range(brought[d]) = {}
  BY <1>1 DEF Range
<1> QED BY <1>1, <1>2 DEF Accounted

(* What is delivered stays so. *)
LEMMA DeliveredStays ==
    ASSUME NEW d \in Drops, kind' = kind, there[Into[d]] \subseteq there'[Into[d]],
           Range(handed[d]) \subseteq Range(handed'[d]), NEW b, NEW p, Delivered(d, b, p)
    PROVE  Delivered(d, b, p)'
<1>1. IsMade(d, p)' <=> IsMade(d, p)
  BY DEF IsMade
<1>2. Rebased(b, p)' = Rebased(b, p)
  BY DEF Rebased
<1>3. CASE IsMade(d, p)
  BY <1>1, <1>2, <1>3 DEF Delivered
<1>4. CASE ~IsMade(d, p)
  BY <1>1, <1>2, <1>4 DEF Delivered, Path
<1> QED BY <1>3, <1>4

LEMMA OnItsWayStays ==
    ASSUME NEW d \in Drops, kind' = kind, NEW b, NEW p,
           NEW item \in Moving(d)', Carries(d, b, p, item)
    PROVE  OnItsWay(d, b, p)'
<1>1. Carries(d, b, p, item)'
  BY DEF Carries, Comes, Path, Rebased, Below
<1> QED BY <1>1 DEF OnItsWay, Carries, Comes, Path, Rebased, Below

(* A step after which all that was on its way still is. *)
LEMMA StillAccounted ==
    ASSUME NEW d \in Drops, Accounted(d), kind' = kind, gone \subseteq gone',
           there[Into[d]] \subseteq there'[Into[d]],
           Range(handed[d]) \subseteq Range(handed'[d]),
           brought'[d] = brought[d],
           \A one \in air'[d] : one.item.at \in Folders,
           phase'[d] # "failed" => /\ phase[d] # "failed"
                                   /\ Moving(d) \subseteq Moving(d)'
                                   /\ \A b : AskedAbout(d, b) => AskedAbout(d, b)'
    PROVE  Accounted(d)'
<1>1. \A b \in Range(brought'[d]) : b.at \in Nodes
  BY DEF Accounted
<1>2. ASSUME phase'[d] # "failed", NEW b \in Range(brought'[d]), NEW p \in Comes(d, b.at)' \ gone'
      PROVE  Delivered(d, b, p)' \/ OnItsWay(d, b, p)' \/ AskedAbout(d, b)'
  <2>1. p \in Comes(d, b.at) \ gone /\ b \in Range(brought[d])
    BY <1>2 DEF Comes, Below
  <2>2. Delivered(d, b, p) \/ OnItsWay(d, b, p) \/ AskedAbout(d, b)
    BY <1>2, <2>1 DEF Accounted
  <2>3. CASE Delivered(d, b, p)
    BY <2>3, DeliveredStays
  <2>4. CASE OnItsWay(d, b, p)
    <3>1. PICK item \in Moving(d) : Carries(d, b, p, item)
      BY <2>4 DEF OnItsWay
    <3>2. item \in Moving(d)'
      BY <1>2
    <3> QED BY <3>1, <3>2, OnItsWayStays
  <2>5. CASE AskedAbout(d, b)
    BY <1>2, <2>5
  <2> QED BY <2>2, <2>3, <2>4, <2>5
<1>3. ASSUME phase'[d] # "failed"
      PROVE  \A b \in Range(brought'[d]) : \A p \in Comes(d, b.at)' \ gone' :
                Delivered(d, b, p)' \/ OnItsWay(d, b, p)' \/ AskedAbout(d, b)'
  BY <1>2, <1>3
<1> QED BY <1>1, <1>3 DEF Accounted, Range, Comes, Below

(* A step that leaves this drop alone. *)
LEMMA AloneAccounted ==
    ASSUME NEW d \in Drops, Accounted(d), kind' = kind, gone \subseteq gone',
           there[Into[d]] \subseteq there'[Into[d]],
           UNCHANGED <<phase[d], todo[d], called[d], waiting[d], air[d], handed[d], brought[d]>>
    PROVE  Accounted(d)'
<1>1. /\ phase'[d] = phase[d] /\ todo'[d] = todo[d] /\ called'[d] = called[d]
      /\ waiting'[d] = waiting[d] /\ air'[d] = air[d] /\ handed'[d] = handed[d]
      /\ brought'[d] = brought[d]
  OBVIOUS
<1>2. Moving(d)' = Moving(d)
  BY <1>1 DEF Moving, Range
<1>3. \A b : AskedAbout(d, b)' <=> AskedAbout(d, b)
  BY <1>1 DEF AskedAbout
<1>4. Range(handed[d]) \subseteq Range(handed'[d])
  BY <1>1
<1>5. \A one \in air'[d] : one.item.at \in Folders
  BY <1>1 DEF Accounted
<1> QED BY <1>1, <1>2, <1>3, <1>4, <1>5, StillAccounted

LEMMA ArriveAccounted ==
    ASSUME Known, NEW d \in Drops, Accounted(d), NEW name, NEW said, Arrive(d, name, said),
           UNCHANGED <<gone, there>>, DOMAIN called = Drops,
           todo[d] # <<>>, phase[d] \in {"next", "asking the person"}
    PROVE  Accounted(d)'
<1>0. PICK at, new, item :
         /\ at = Head(todo[d])
         /\ new = [at |-> Head(todo[d]), name |-> name, said |-> said]
         /\ item = Item(Head(todo[d]), <<>>, name)
  OBVIOUS
<1>1. /\ DOMAIN phase = Drops /\ DOMAIN todo = Drops /\ DOMAIN handed = Drops
      /\ DOMAIN brought = Drops
      /\ todo[d] \in Seq(Nodes)
      /\ brought[d] \in Seq(Range(brought[d]))
      /\ handed[d] \in Seq(Range(handed[d]))
  BY KnownOf
<1>2. /\ kind' = kind /\ brought'[d] = Append(brought[d], new)
      /\ waiting' = waiting /\ air' = air
  BY <1>0, <1>1 DEF Arrive
<1>3. at \in Nodes
  BY <1>0, <1>1, HeadTailProperties
<1>4. new.at = at /\ new.name = name
  BY <1>0
<1>5. Range(brought'[d]) = Range(brought[d]) \cup {new}
  <2>1. brought[d] \in Seq(Range(brought[d]))
    BY <1>1
  <2>2. Range(Append(brought[d], new)) = Range(brought[d]) \cup {new}
    BY <2>1, RangeOfAppend
  <2> QED BY <1>2, <2>2
<1>6. \A b \in Range(brought'[d]) : b.at \in Nodes
  BY <1>3, <1>4, <1>5 DEF Accounted
<1>7. \A one \in air'[d] : one.item.at \in Folders
  BY <1>2 DEF Accounted
<1>8. Moving(d)' = Moving(d)
  BY <1>2 DEF Moving, Range
<1>9. Range(handed[d]) \subseteq Range(handed'[d])
  <2>1. CASE HandOver(d, item)
    <3>1. handed'[d] = Append(handed[d], item)
      BY <1>1, <2>1 DEF HandOver
    <3>2. handed[d] \in Seq(Range(handed[d]))
      BY <1>1
    <3>3. Range(Append(handed[d], item)) = Range(handed[d]) \cup {item}
      BY <3>2, RangeOfAppend
    <3> QED BY <3>1, <3>3
  <2>2. CASE UNCHANGED handed
    BY <2>2
  <2> QED BY <1>0, <2>1, <2>2 DEF Arrive
<1>10. ASSUME NEW b \in Range(brought[d]), NEW p \in Comes(d, b.at) \ gone
       PROVE  Delivered(d, b, p)' \/ OnItsWay(d, b, p)'
  <2>1. Delivered(d, b, p) \/ OnItsWay(d, b, p)
    BY <1>10 DEF Accounted, AskedAbout
  <2>2. CASE Delivered(d, b, p)
    BY <1>2, <1>9, <2>2, DeliveredStays
  <2>3. CASE OnItsWay(d, b, p)
    <3>1. PICK i \in Moving(d) : Carries(d, b, p, i)
      BY <2>3 DEF OnItsWay
    <3> QED BY <1>2, <1>8, <3>1, OnItsWayStays
  <2> QED BY <2>1, <2>2, <2>3
<1>11. ASSUME NEW p \in Comes(d, at)
       PROVE  Delivered(d, new, p)' \/ AskedAbout(d, new)'
  <2>1. CASE kind[d] = "upload" /\ HandOver(d, item)
    <3>1. handed'[d] = Append(handed[d], item)
      BY <1>1, <2>1 DEF HandOver
    <3>2. item.at = at /\ Path(item) = Append(<<>>, name)
      BY <1>0 DEF Item, Path
    <3>3. p = at
      BY <1>11, <2>1 DEF Comes
    <3>4. Path(item) = Rebased(new, at)
      BY <1>3, <1>4, <3>2, RebasedItself
    <3>5. item \in Range(handed'[d])
      <4>1. handed[d] \in Seq(Range(handed[d]))
        BY <1>1
      <4>2. Range(Append(handed[d], item)) = Range(handed[d]) \cup {item}
        BY <4>1, RangeOfAppend
      <4> QED BY <3>1, <4>2
    <3>6. ~IsMade(d, p)'
      BY <1>2, <2>1 DEF IsMade
    <3>7. item.at = p /\ Path(item) = Rebased(new, p)
      BY <3>2, <3>3, <3>4
    <3> QED BY <3>5, <3>6, <3>7 DEF Delivered, Path, Rebased
  <2>2. CASE phase' = [phase EXCEPT ![d] = "asking the server"] /\ UNCHANGED todo
             /\ called' = [called EXCEPT ![d] = name]
    <3>1. phase'[d] = "asking the server" /\ Head(todo'[d]) = at /\ called'[d] = name
      BY <1>0, <1>1, <2>2
    <3> QED BY <1>4, <3>1 DEF AskedAbout
  <2> QED BY <1>0, <2>1, <2>2 DEF Arrive, Step
<1>12. ASSUME NEW b \in Range(brought'[d]), NEW p \in Comes(d, b.at)' \ gone'
       PROVE  Delivered(d, b, p)' \/ OnItsWay(d, b, p)' \/ AskedAbout(d, b)'
  <2>1. p \in Comes(d, b.at) \ gone
    BY <1>2, <1>12 DEF Comes, Below
  <2>2. CASE b \in Range(brought[d])
    BY <1>10, <2>1, <2>2
  <2>3. CASE b = new
    BY <1>4, <1>11, <2>1, <2>3
  <2> QED BY <1>5, <1>12, <2>2, <2>3
<1> QED BY <1>6, <1>7, <1>12 DEF Accounted, Range, Comes, Below

LEMMA StatAccounted ==
    ASSUME Known, NEW d \in Drops, Accounted(d), Stat(d), UNCHANGED <<gone, there>>,
           kind[d] # "upload"
    PROVE  Accounted(d)'
<1> DEFINE at == Head(todo[d])
           item == Item(at, <<>>, called[d])
<1>1. /\ DOMAIN phase = Drops /\ DOMAIN todo = Drops /\ DOMAIN waiting = Drops
      /\ todo[d] \in Seq(Nodes) /\ todo[d] # <<>>
      /\ waiting[d] \in Seq(Range(waiting[d]))
      /\ phase[d] = "asking the server"
  BY KnownOf DEF Stat
<1>2. /\ UNCHANGED <<kind, called, air, handed, brought>>
      /\ waiting'[d] = Append(waiting[d], item)
  BY <1>1 DEF Stat, Step
<1>3. item.at = at /\ Path(item) = Append(<<>>, called[d]) /\ at \in Nodes
  BY <1>1, HeadTailProperties DEF Item, Path
<1> HIDE DEF at, item
<1>4. Range(waiting'[d]) = Range(waiting[d]) \cup {item}
  <2>1. waiting[d] \in Seq(Range(waiting[d]))
    BY <1>1
  <2>2. Range(Append(waiting[d], item)) = Range(waiting[d]) \cup {item}
    BY <2>1, RangeOfAppend
  <2> QED BY <1>2, <2>2
<1>5. Moving(d) \subseteq Moving(d)' /\ item \in Moving(d)'
  BY <1>2, <1>4 DEF Moving, Range
<1>6. ASSUME NEW b \in Range(brought'[d]), NEW p \in Comes(d, b.at)' \ gone'
      PROVE  Delivered(d, b, p)' \/ OnItsWay(d, b, p)'
  <2>1. p \in Comes(d, b.at) \ gone /\ b \in Range(brought[d])
    BY <1>2, <1>6 DEF Comes, Below
  <2>2. Delivered(d, b, p) \/ OnItsWay(d, b, p) \/ AskedAbout(d, b)
    BY <1>1, <2>1 DEF Accounted
  <2>3. CASE Delivered(d, b, p)
    BY <1>2, <2>3, DeliveredStays
  <2>4. CASE OnItsWay(d, b, p)
    <3>1. PICK i \in Moving(d) : Carries(d, b, p, i)
      BY <2>4 DEF OnItsWay
    <3> QED BY <1>2, <1>5, <3>1, OnItsWayStays
  <2>5. CASE AskedAbout(d, b)
    <3>1. b.at = at /\ b.name = called[d]
      BY <2>5 DEF AskedAbout, at
    <3>2. Path(item) = Rebased(b, item.at)
      BY <1>3, <3>1, RebasedItself
    <3>3. at \in Comes(d, at)
      BY <1>3, NodeOrder DEF Comes, Below
    <3>4. Carries(d, b, p, item)
      BY <1>3, <2>1, <3>1, <3>2, <3>3 DEF Carries
    <3> QED BY <1>2, <1>5, <3>4, OnItsWayStays
  <2> QED BY <2>2, <2>3, <2>4, <2>5
<1>7. \A b \in Range(brought'[d]) : b.at \in Nodes
  BY <1>2 DEF Accounted
<1>8. \A one \in air'[d] : one.item.at \in Folders
  BY <1>2 DEF Accounted
<1> QED BY <1>6, <1>7, <1>8 DEF Accounted, Range, Comes, Below

(* A folder that is taken from the queue is in the air, and a file is      *)
(* handed over, which is all there was to it.                              *)
LEMMA TakeAccounted ==
    ASSUME Known, NEW d \in Drops, Accounted(d), Take(d), UNCHANGED <<gone, there>>,
           kind[d] # "upload"
    PROVE  Accounted(d)'
<1>0. PICK item : item = Head(waiting[d])
  OBVIOUS
<1>1. /\ DOMAIN air = Drops /\ DOMAIN handed = Drops /\ DOMAIN waiting = Drops
      /\ waiting[d] \in Seq(Range(waiting[d])) /\ waiting[d] # <<>>
      /\ handed[d] \in Seq(Range(handed[d]))
      /\ phase[d] = "walking"
  BY KnownOf DEF Take, HasRoom
<1>2. /\ UNCHANGED <<kind, phase, todo, called, brought>>
      /\ waiting'[d] = Tail(waiting[d])
  BY <1>1 DEF Take
<1>3. Range(waiting[d]) \subseteq Range(waiting'[d]) \cup {item}
  <2>1. waiting[d] \in Seq(Range(waiting[d])) /\ waiting[d] # <<>>
    BY <1>1
  <2>2. Range(waiting[d]) \subseteq Range(Tail(waiting[d])) \cup {Head(waiting[d])}
    BY <2>1, HeadOrTail
  <2> QED BY <1>0, <1>2, <2>2
<1>4. \A b : ~AskedAbout(d, b)
  BY <1>1 DEF AskedAbout
<1>5. CASE item.at \in Folders /\ UNCHANGED handed
           /\ air' = [air EXCEPT ![d] = @ \cup {[item |-> item, made |-> FALSE]}]
  <2>1. air'[d] = air[d] \cup {[item |-> item, made |-> FALSE]}
    BY <1>1, <1>5
  <2>2. Moving(d) \subseteq Moving(d)'
    <3>1. [item |-> item, made |-> FALSE] \in air'[d] /\ air[d] \subseteq air'[d]
      BY <2>1
    <3>2. [item |-> item, made |-> FALSE].item = item
      OBVIOUS
    <3>3. item \in {one.item : one \in air'[d]}
      BY <3>1, <3>2
    <3>4. {one.item : one \in air[d]} \subseteq {one.item : one \in air'[d]}
      BY <3>1
    <3>5. Moving(d)' = Range(waiting'[d]) \cup {one.item : one \in air'[d]}
      BY DEF Moving, Range
    <3> QED BY <1>3, <3>3, <3>4, <3>5 DEF Moving
  <2>3. \A one \in air'[d] : one.item.at \in Folders
    BY <1>5, <2>1 DEF Accounted
  <2>4. Range(handed[d]) \subseteq Range(handed'[d]) /\ brought'[d] = brought[d] /\ kind' = kind
        /\ phase'[d] = phase[d] /\ phase[d] # "failed"
    BY <1>1, <1>2, <1>5
  <2> QED BY <1>4, <2>2, <2>3, <2>4, StillAccounted
<1>6. CASE item.at \notin Folders /\ HandOver(d, item) /\ UNCHANGED air
  <2>1. handed'[d] = Append(handed[d], item)
    BY <1>1, <1>6 DEF HandOver
  <2>2. Range(handed'[d]) = Range(handed[d]) \cup {item}
    <3>1. handed[d] \in Seq(Range(handed[d]))
      BY <1>1
    <3>2. Range(Append(handed[d], item)) = Range(handed[d]) \cup {item}
      BY <3>1, RangeOfAppend
    <3> QED BY <2>1, <3>2
  <2>3. Moving(d) \subseteq Moving(d)' \cup {item}
    BY <1>3, <1>6 DEF Moving, Range
  <2>4. ASSUME NEW b \in Range(brought'[d]), NEW p \in Comes(d, b.at)' \ gone'
        PROVE  Delivered(d, b, p)' \/ OnItsWay(d, b, p)'
    <3>1. p \in Comes(d, b.at) \ gone /\ b \in Range(brought[d])
      BY <1>2, <2>4 DEF Comes, Below
    <3>2. Delivered(d, b, p) \/ OnItsWay(d, b, p)
      BY <1>1, <1>4, <3>1 DEF Accounted
    <3>3. CASE Delivered(d, b, p)
      BY <1>2, <2>2, <3>3, DeliveredStays
    <3>4. CASE OnItsWay(d, b, p)
      <4>1. PICK i \in Moving(d) : Carries(d, b, p, i)
        BY <3>4 DEF OnItsWay
      <4>2. CASE i \in Moving(d)'
        BY <1>2, <4>1, <4>2, OnItsWayStays
      <4>3. CASE i = item
        <5>1. item.at \in Below(b.at) /\ p \in Below(item.at) /\ item.at \in Nodes
          BY <4>1, <4>3 DEF Carries, Comes, Below
        <5>2. p = item.at
          BY <1>6, <5>1, FilesHoldNothing
        <5>3. Path(item) = Rebased(b, p)
          BY <4>1, <4>3, <5>2 DEF Carries
        <5>4. ~IsMade(d, p)'
          BY <1>6, <5>2 DEF IsMade
        <5>5. item \in Range(handed'[d])
          BY <2>2
        <5> QED BY <5>2, <5>3, <5>4, <5>5 DEF Delivered, Path, Rebased
      <4> QED BY <2>3, <4>1, <4>2, <4>3
    <3> QED BY <3>2, <3>3, <3>4
  <2>5. \A b \in Range(brought'[d]) : b.at \in Nodes
    BY <1>2 DEF Accounted
  <2>6. \A one \in air'[d] : one.item.at \in Folders
    BY <1>6 DEF Accounted
  <2> QED BY <2>4, <2>5, <2>6 DEF Accounted, Range, Comes, Below
<1> QED BY <1>0, <1>5, <1>6 DEF Take

(* A folder that was listed was made, and whatever lies below it lies in   *)
(* or below one of those that were named, unless it has been deleted.      *)
LEMMA ListAccounted ==
    ASSUME Known, NEW d \in Drops, Accounted(d), NEW one \in air[d], List(d, one),
           UNCHANGED <<gone, there>>, kind[d] # "upload"
    PROVE  Accounted(d)'
<1> DEFINE q == one.item.at
           children == Children(q)
           itemOf(c) == Item(c, Path(one.item), Name(c))
<1>1. /\ DOMAIN air = Drops /\ DOMAIN waiting = Drops
      /\ waiting[d] \in Seq(Range(waiting[d]))
      /\ phase[d] = "walking"
      /\ Path(one.item) \in there[Into[d]]
  BY KnownOf DEF List, Listing, HasMade
<1>2. PICK order \in [1 .. Cardinality(children) -> children] :
         /\ IsInjective(order)
         /\ waiting' = [waiting EXCEPT ![d] = @ \o [i \in DOMAIN order |-> itemOf(order[i])]]
  BY DEF List
<1>3. PICK listed : listed = [i \in DOMAIN order |-> itemOf(order[i])]
  OBVIOUS
<1>4. /\ UNCHANGED <<kind, phase, todo, called, handed, brought>>
      /\ air'[d] = air[d] \ {one}
      /\ waiting'[d] = waiting[d] \o listed
  BY <1>1, <1>2, <1>3 DEF List
<1>5. /\ \A c \in children : \E i \in DOMAIN order : order[i] = c
      /\ Cardinality(children) \in Nat
  BY <1>2, AllAreNamed
<1>6. \A c \in children : itemOf(c) \in Range(listed)
  BY <1>3, <1>5 DEF Range
<1>7. listed \in Seq(Range(listed))
  <2>1. listed \in [1 .. Cardinality(children) -> Range(listed)]
    BY <1>3 DEF Range
  <2> QED BY <1>5, <2>1, SeqDef
<1>8. Range(waiting'[d]) = Range(waiting[d]) \cup Range(listed)
  <2>1. waiting[d] \in Seq(Range(waiting[d]))
    BY <1>1
  <2>2. Range(waiting[d] \o listed) = Range(waiting[d]) \cup Range(listed)
    BY <1>7, <2>1, RangeOfBothIs
  <2> QED BY <1>4, <2>2
<1>9. Moving(d) \subseteq Moving(d)' \cup {one.item}
  BY <1>4, <1>8 DEF Moving, Range
<1>10. \A c \in children : itemOf(c) \in Moving(d)'
  BY <1>6, <1>8 DEF Moving, Range
<1>11. \A b : ~AskedAbout(d, b)
  BY <1>1 DEF AskedAbout
<1>12. Range(handed[d]) \subseteq Range(handed'[d])
  BY <1>4
<1>13. q \in Folders /\ q \in Nodes
  BY TreesAssumption DEF Accounted
<1>14. ASSUME NEW b \in Range(brought[d]), NEW p \in Below(b.at) \ gone, Carries(d, b, p, one.item)
       PROVE  Delivered(d, b, p)' \/ OnItsWay(d, b, p)'
  <2>1. /\ p \in Below(q) /\ q \in Below(b.at) /\ Path(one.item) = Rebased(b, q)
        /\ p \in Nodes /\ b.at \in Nodes
    BY <1>14 DEF Carries, Comes, Below, Accounted
  <2>2. CASE p = q
    <3>1. Delivered(d, b, p)
      BY <1>1, <1>13, <2>1, <2>2 DEF Delivered, IsMade
    <3> QED BY <1>4, <1>12, <3>1, DeliveredStays
  <2>3. CASE p # q
    <3>1. IsPrefix(q, p) /\ IsPrefix(b.at, q)
      BY <2>1 DEF Below
    <3>2. PICK c \in Nodes : Front(c) = q /\ IsPrefix(c, p) /\ IsPrefix(q, c) /\ c # q
      BY <1>13, <2>1, <2>3, <3>1, ChildOnTheWay
    <3>3. c \notin gone
      BY <1>14, <2>1, <3>2 DEF Known, GoneInv, GoneBelow, Below
    <3>4. c \in children
      BY <3>2, <3>3 DEF Children
    <3>5. PICK item \in Moving(d)' : item = itemOf(c)
      BY <1>10, <3>4
    <3>6. item.at = c /\ Path(item) = Append(Path(one.item), Last(c))
      BY <3>5 DEF Item, Path, Name
    <3>7. Path(item) = Rebased(b, c)
      BY <1>13, <2>1, <3>1, <3>2, <3>6, RebasedChild
    <3>8. IsPrefix(b.at, c)
      BY <1>13, <2>1, <3>1, <3>2, NodeOrder
    <3>9. Carries(d, b, p, item)
      BY <2>1, <3>2, <3>6, <3>7, <3>8 DEF Carries, Comes, Below
    <3> QED BY <1>4, <3>9, OnItsWayStays
  <2> QED BY <2>2, <2>3
<1>15. ASSUME NEW b \in Range(brought'[d]), NEW p \in Comes(d, b.at)' \ gone'
       PROVE  Delivered(d, b, p)' \/ OnItsWay(d, b, p)'
  <2>1. p \in Comes(d, b.at) \ gone /\ b \in Range(brought[d]) /\ p \in Below(b.at) \ gone
    BY <1>4, <1>15 DEF Comes, Below
  <2>2. Delivered(d, b, p) \/ OnItsWay(d, b, p)
    BY <1>1, <1>11, <2>1 DEF Accounted
  <2>3. CASE Delivered(d, b, p)
    BY <1>4, <1>12, <2>3, DeliveredStays
  <2>4. CASE OnItsWay(d, b, p)
    <3>1. PICK i \in Moving(d) : Carries(d, b, p, i)
      BY <2>4 DEF OnItsWay
    <3>2. CASE i \in Moving(d)'
      BY <1>4, <3>1, <3>2, OnItsWayStays
    <3>3. CASE i = one.item
      BY <1>14, <2>1, <3>1, <3>3
    <3> QED BY <1>9, <3>1, <3>2, <3>3
  <2> QED BY <2>2, <2>3, <2>4
<1>16. \A b \in Range(brought'[d]) : b.at \in Nodes
  BY <1>4 DEF Accounted
<1>17. \A other \in air'[d] : other.item.at \in Folders
  BY <1>4 DEF Accounted
<1> QED BY <1>15, <1>16, <1>17 DEF Accounted, Range, Comes, Below

LEMMA MakeAccounted ==
    ASSUME Known, NEW d \in Drops, Accounted(d), NEW one \in air[d], Make(d, one),
           UNCHANGED gone, there[Into[d]] \subseteq there'[Into[d]]
    PROVE  Accounted(d)'
<1> DEFINE made == [one EXCEPT !.made = TRUE]
<1>1. /\ UNCHANGED <<kind, phase, todo, called, waiting, handed, brought>>
      /\ air'[d] = (air[d] \ {one}) \cup {made}
      /\ phase[d] # "failed"
      /\ made.item = one.item
  BY KnownOf DEF Make, Listing
<1> HIDE DEF made
<1>2. Moving(d)' = Moving(d)
  BY <1>1 DEF Moving, Range
<1>3. \A other \in air'[d] : other.item.at \in Folders
  BY <1>1 DEF Accounted
<1>4. \A b : AskedAbout(d, b)' <=> AskedAbout(d, b)
  BY <1>1 DEF AskedAbout
<1>5. Range(handed[d]) \subseteq Range(handed'[d])
  BY <1>1
<1> QED BY <1>1, <1>2, <1>3, <1>4, <1>5, StillAccounted

(* What is there stays there, and so does what is gone. *)
LEMMA TreesGrow ==
    ASSUME FolderInv, [Next]_vars
    PROVE  gone \subseteq gone' /\ \A e \in Drops : there[Into[e]] \subseteq there'[Into[e]]
<1>1. \A e \in Drops : Into[e] \in DOMAIN there
  BY DEF FolderInv, Shape
<1>2. ASSUME NEW d \in Drops, Work(d)
      PROVE  gone = gone' /\ \A e \in Drops : there[Into[e]] \subseteq there'[Into[e]]
  <2>1. CASE UNCHANGED <<there, deletions>>
    BY <2>1 DEF deletions
  <2>2. ASSUME NEW one \in air[d], Make(d, one), UNCHANGED deletions
        PROVE  gone = gone' /\ \A e \in Drops : there[Into[e]] \subseteq there'[Into[e]]
    BY <1>1, <2>2 DEF Make, deletions
  <2>3. ASSUME NEW one \in air[d], Break(d, one), UNCHANGED deletions
        PROVE  gone = gone' /\ \A e \in Drops : there[Into[e]] \subseteq there'[Into[e]]
    <3>1. PICK more : there' = [there EXCEPT ![Into[d]] = @ \cup more]
      BY <2>3 DEF Break
    <3> QED BY <1>1, <2>3, <3>1 DEF deletions
  <2> QED BY <1>2, <2>1, <2>2, <2>3 DEF Work
<1>3. ASSUME NEW d \in Drops, Land(d)
      PROVE  gone = gone' /\ \A e \in Drops : there[Into[e]] \subseteq there'[Into[e]]
  <2>1. PICK more : there' = [there EXCEPT ![Into[d]] = @ \cup more]
    BY <1>3 DEF Land
  <2> QED BY <1>1, <1>3, <2>1 DEF Land, deletions
<1>4. ASSUME UNCHANGED there, UNCHANGED deletions \/ \E x \in Deletions : Delete(x)
      PROVE  gone \subseteq gone' /\ \A e \in Drops : there[Into[e]] \subseteq there'[Into[e]]
  BY <1>4 DEF deletions, Delete, BeginNext, LookInside, Descend, TakeAway, CannotDelete, DeletedAll
<1> QED BY <1>2, <1>3, <1>4 DEF Next, vars, Delete

Same(e) == UNCHANGED <<phase[e], todo[e], called[e], waiting[e], air[e], handed[e], brought[e]>>

(* A step of one drop leaves the others alone. *)
LEMMA OthersAlone ==
    ASSUME Known, DOMAIN called = Drops, NEW d \in Drops, Work(d) \/ Answer(d),
           NEW e \in Drops, e # d
    PROVE  Same(e) /\ kind' = kind
<1>1. /\ DOMAIN phase = Drops /\ DOMAIN todo = Drops /\ DOMAIN waiting = Drops
      /\ DOMAIN air = Drops /\ DOMAIN handed = Drops /\ DOMAIN brought = Drops
  BY KnownOf
<1> USE DEF Same, Step, Fail
<1>2. ASSUME NEW name, NEW said, Arrive(d, name, said)
      PROVE  Same(e) /\ kind' = kind
  BY <1>1, <1>2 DEF Arrive, HandOver
<1>3. CASE ReadFolder(d) \/ CannotRead(d) \/ HasNoName(d) \/ CannotStat(d)
           \/ LookedAtAll(d) \/ WalkEnds(d)
  BY <1>1, <1>3 DEF ReadFolder, CannotRead, HasNoName, CannotStat, LookedAtAll, WalkEnds
<1>4. CASE LookAtNext(d)
  BY <1>1, <1>2, <1>4 DEF LookAtNext
<1>5. CASE Stat(d) \/ Take(d)
  BY <1>1, <1>5 DEF Stat, Take, HandOver
<1>6. ASSUME NEW one \in air[d], List(d, one) \/ Make(d, one) \/ Break(d, one)
      PROVE  Same(e) /\ kind' = kind
  BY <1>1, <1>6 DEF List, Make, Break
<1>7. CASE Answer(d)
  BY <1>1, <1>2, <1>7 DEF Answer, Replace, KeepBoth, Skip
<1> QED BY <1>3, <1>4, <1>5, <1>6, <1>7 DEF Work, Planning

LEMMA AccountedStep ==
    ASSUME Known, OnceInv, AllAccounted, [Next]_vars
    PROVE  AllAccounted'
<1>1. gone \subseteq gone' /\ \A e \in Drops : there[Into[e]] \subseteq there'[Into[e]]
  BY TreesGrow DEF Known
<1>2. ASSUME NEW e \in Drops, Same(e), kind' = kind
      PROVE  Accounted(e)'
  BY <1>1, <1>2, AloneAccounted DEF Same, AllAccounted
<1>3. ASSUME UNCHANGED drops
      PROVE  AllAccounted'
  <2>1. \A e \in Drops : Same(e) /\ kind' = kind
    BY <1>3 DEF drops, Same
  <2> QED BY <1>2, <2>1 DEF AllAccounted
<1>4. ASSUME NEW d \in Drops, Work(d) \/ Answer(d), Accounted(d)'
      PROVE  AllAccounted'
  <2>1. ASSUME NEW e \in Drops
        PROVE  Accounted(e)'
    <3>1. CASE e = d
      BY <1>4, <3>1
    <3>2. CASE e # d
      BY <1>2, <1>4, <3>2, OthersAlone DEF OnceInv
    <3> QED BY <3>1, <3>2
  <2> QED BY <2>1 DEF AllAccounted
(* A step that moves nothing of what is on its way. *)
<1>5. ASSUME NEW d \in Drops, phase[d] # "failed", NEW to, phase' = [phase EXCEPT ![d] = to],
             UNCHANGED <<kind, waiting, handed, brought>>,
             air' = air \/ to = "failed", air'[d] \subseteq air[d],
             phase[d] # "asking the server" \/ to = "failed"
      PROVE  Accounted(d)'
  <2>1. phase'[d] = to
    BY <1>5, KnownOf
  <2>2. phase'[d] # "failed" => /\ phase[d] # "failed"
                                /\ Moving(d) \subseteq Moving(d)'
                                /\ \A b : ~AskedAbout(d, b)
    BY <1>5, <2>1 DEF Moving, Range, AskedAbout
  <2>3. \A one \in air'[d] : one.item.at \in Folders
    BY <1>5 DEF AllAccounted, Accounted
  <2>4. Range(handed[d]) \subseteq Range(handed'[d]) /\ brought'[d] = brought[d] /\ Accounted(d)
    BY <1>5 DEF AllAccounted
  <2> QED BY <1>1, <1>5, <2>2, <2>3, <2>4, StillAccounted
<1>6. ASSUME NEW d \in Drops
      PROVE  /\ kind[d] = "upload" => phase[d] \notin {"asking the server", "walking"}
             /\ DOMAIN called = Drops /\ DOMAIN air = Drops /\ Accounted(d)
  BY KnownOf DEF OnceInv, OnceHere, Walks, AllAccounted
<1>7. ASSUME NEW d \in Drops, Planning(d), UNCHANGED <<there, deletions>>
      PROVE  Accounted(d)'
  <2>1. CASE ReadFolder(d)
    BY <1>5, <2>1 DEF ReadFolder, Step
  <2>2. CASE CannotRead(d)
    BY <1>5, <2>2 DEF CannotRead, Fail, Step
  <2>3. CASE HasNoName(d)
    BY <1>5, <2>3 DEF HasNoName, Fail, Step
  <2>4. CASE CannotStat(d)
    BY <1>5, <2>4 DEF CannotStat, Fail, Step
  <2>5. CASE LookedAtAll(d)
    BY <1>5, <2>5 DEF LookedAtAll, Step
  <2>6. CASE WalkEnds(d)
    BY <1>5, <2>6 DEF WalkEnds, Step
  <2>7. CASE LookAtNext(d)
    <3>1. CASE Arrive(d, Name(Head(todo[d])), "nothing")
      BY <1>6, <1>7, <2>7, <3>1, ArriveAccounted DEF LookAtNext, deletions
    <3>2. CASE Step(d, "asking the person")
               /\ UNCHANGED <<kind, todo, taken, called, waiting, air, handed, found, brought>>
      BY <1>5, <2>7, <3>2 DEF LookAtNext, Step
    <3> QED BY <2>7, <3>1, <3>2 DEF LookAtNext
  <2>8. CASE Stat(d)
    BY <1>6, <1>7, <2>8, StatAccounted DEF Stat, deletions
  <2>9. CASE Take(d)
    BY <1>6, <1>7, <2>9, TakeAccounted DEF Take, deletions
  <2> QED BY <1>7, <2>1, <2>2, <2>3, <2>4, <2>5, <2>6, <2>7, <2>8, <2>9 DEF Planning
<1>8. ASSUME NEW d \in Drops, NEW one \in air[d], List(d, one), UNCHANGED <<there, deletions>>
      PROVE  Accounted(d)'
  BY <1>6, <1>8, ListAccounted DEF List, Listing, deletions
<1>9. ASSUME NEW d \in Drops, NEW one \in air[d], Make(d, one), UNCHANGED deletions
      PROVE  Accounted(d)'
  BY <1>1, <1>6, <1>9, MakeAccounted DEF deletions
<1>10. ASSUME NEW d \in Drops, NEW one \in air[d], Break(d, one)
       PROVE  Accounted(d)'
  <2>1. phase[d] # "failed" /\ air'[d] = {}
    BY <1>6, <1>10 DEF Break, Listing
  <2> QED BY <1>5, <1>10, <2>1 DEF Break, Fail, Step
<1>11. ASSUME NEW d \in Drops, Work(d)
       PROVE  AllAccounted'
  <2>1. Accounted(d)'
    BY <1>7, <1>8, <1>9, <1>10, <1>11 DEF Work
  <2> QED BY <1>4, <1>11, <2>1
<1>12. ASSUME NEW d \in Drops, Answer(d), UNCHANGED <<there, deletions>>
       PROVE  AllAccounted'
  <2>1. phase[d] = "asking the person" /\ todo[d] # <<>>
    BY <1>12, KnownOf DEF Answer, Replace, KeepBoth, Skip
  <2>2. CASE Skip(d)
    <3>1. Accounted(d)'
      BY <1>5, <2>1, <2>2 DEF Skip, Step
    <3> QED BY <1>4, <1>12, <3>1
  <2>3. ASSUME NEW name, NEW said, Arrive(d, name, said)
        PROVE  AllAccounted'
    <3>1. Accounted(d)'
      BY <1>6, <1>12, <2>1, <2>3, ArriveAccounted DEF deletions
    <3> QED BY <1>4, <1>12, <3>1
  <2> QED BY <1>12, <2>2, <2>3 DEF Answer, Replace, KeepBoth
<1>13. ASSUME NEW d \in Drops, Land(d)
       PROVE  AllAccounted'
  BY <1>3, <1>13 DEF Land
<1>14. ASSUME NEW x \in Deletions, Delete(x)
       PROVE  AllAccounted'
  BY <1>3, <1>14 DEF Delete
<1>15. CASE UNCHANGED vars
  BY <1>3, <1>15 DEF vars
<1> QED BY <1>11, <1>12, <1>13, <1>14, <1>15 DEF Next

(* A drop that comes to its end has handed over every file and made every  *)
(* folder of what it set out to bring, under the name its root arrives as, *)
(* and no drop hands a file over twice, however drops and deletions cross, *)
(* and whatever is asked, declined or listed in whatever order (engine.rs  *)
(* upload, carry_across, download, mirror, spread).                        *)
THEOREM DoneIsAlwaysComplete == Spec => []DoneIsComplete
<1> DEFINE I == Known /\ OnceInv /\ AllAccounted
<1>1. Init => I
  BY FolderInit, NamesInit, GoneInit, OnceInit, AccountedInit DEF Known
<1>2. I /\ [Next]_vars => I'
  BY FolderStep, NamesStep, GoneStep, OnceStep, AccountedStep DEF Known
<1>3. I => DoneIsComplete
  <2> SUFFICES ASSUME Known, OnceInv, AllAccounted, NEW d \in Drops
               PROVE  /\ IsInjective([i \in DOMAIN handed[d] |-> handed[d][i].at])
                      /\ phase[d] = "done" =>
                            \A b \in Range(brought[d]) : \A p \in Comes(d, b.at) \ gone :
                                IF p \in Folders /\ kind[d] # "upload"
                                THEN Rebased(b, p) \in there[Into[d]]
                                ELSE \E i \in DOMAIN handed[d] :
                                        handed[d][i].at = p /\ Path(handed[d][i]) = Rebased(b, p)
    BY DEF DoneIsComplete
  <2>1. Distinct(handed[d])
    BY DEF OnceInv, OnceHere, Single
  <2>2. IsInjective([i \in DOMAIN handed[d] |-> handed[d][i].at])
    BY <2>1 DEF Distinct, IsInjective
  <2>3. ASSUME phase[d] = "done", NEW b \in Range(brought[d]), NEW p \in Comes(d, b.at) \ gone
        PROVE  IF p \in Folders /\ kind[d] # "upload"
               THEN Rebased(b, p) \in there[Into[d]]
               ELSE \E i \in DOMAIN handed[d] :
                       handed[d][i].at = p /\ Path(handed[d][i]) = Rebased(b, p)
    <3>1. waiting[d] = <<>> /\ air[d] = {}
      BY <2>3 DEF OnceInv, OnceHere, Walks
    <3>2. Moving(d) = {}
      BY <3>1 DEF Moving, Range
    <3>3. Delivered(d, b, p)
      BY <2>3, <3>2 DEF AllAccounted, Accounted, OnItsWay, AskedAbout
    <3> QED BY <3>3 DEF Delivered, IsMade, Range
  <2> QED BY <2>2, <2>3
<1> HIDE DEF I
<1> QED BY <1>1, <1>2, <1>3, PTL DEF Spec
=============================================================================
