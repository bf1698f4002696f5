-------------------------- MODULE TransfersProofs --------------------------
(***************************************************************************)
(* What Transfers keeps for every set of transfers, connections and slots, *)
(* and what TransferQueue shows of them.                                   *)
(***************************************************************************)
EXTENDS TransferQueue, FiniteSetTheorems, SequenceTheorems, WellFoundedInduction,
        NaturalsInduction, TLAPS

USE DEF slots, registry, folders

-----------------------------------------------------------------------------
(* The types of the variables. *)

(* What the work came to is known once it is done. *)
OutcomeKnown ==
    \A t \in Transfers :
        phase[t] \in {"landed", "deregistered", "reported", "stale", "listing"}
            => outcome[t] # "none"

(* A connection's line stays a line when somebody leaves it. *)
LEMMA WithoutType ==
    ASSUME NEW S, NEW seq \in Seq(S), NEW t
    PROVE  Without(seq, t) \in Seq(S)
<1>1. CASE ~ \E i \in DOMAIN seq : seq[i] = t
  BY <1>1 DEF Without
<1>2. CASE \E i \in DOMAIN seq : seq[i] = t
  <2> DEFINE gone == CHOOSE i \in DOMAIN seq : seq[i] = t
             n == Len(seq) - 1
             rest == [i \in 1 .. n |-> IF i < gone THEN seq[i] ELSE seq[i + 1]]
  <2>1. seq \in [1 .. Len(seq) -> S] /\ Len(seq) \in Nat /\ DOMAIN seq = 1 .. Len(seq)
    BY LenProperties
  <2>2. n \in Nat
    BY <1>2, <2>1
  <2>3. rest \in [1 .. n -> S]
    BY <2>1, <2>2
  <2>4. rest \in Seq(S)
    BY <2>2, <2>3, SeqDef
  <2> QED BY <1>2, <2>4 DEF Without
<1> QED BY <1>1, <1>2

(* The ends of a transfer are connections, and so is the next of them. *)
LEMMA EndsAreSessions ==
    ASSUME NEW t \in Transfers
    PROVE  /\ Ends(t) \subseteq Sessions
           /\ Ends(t) \subseteq Nat
           /\ Ends(t) \subseteq {From[t], To[t]}
           /\ On(t) \in Sessions
BY SessionsAssumption, TransfersAssumption DEF Ends, On, LandsRemotely

LEMMA NextSlotIsLeast ==
    ASSUME NEW t \in Transfers, Missing(t) # {}
    PROVE  /\ NextSlot(t) \in Missing(t)
           /\ NextSlot(t) \in Sessions
           /\ \A r \in Missing(t) : NextSlot(t) <= r
<1>1. Missing(t) \subseteq Nat /\ Missing(t) \subseteq {From[t], To[t]}
      /\ Missing(t) \subseteq Sessions
  BY EndsAreSessions DEF Missing
<1>2. \E s \in Missing(t) : \A r \in Missing(t) : s <= r
  <2>1. CASE From[t] \in Missing(t) /\ To[t] \in Missing(t)
    BY <1>1, <2>1
  <2>2. CASE ~(From[t] \in Missing(t) /\ To[t] \in Missing(t))
    BY <1>1, <2>2
  <2> QED BY <2>1, <2>2
<1> QED BY <1>1, <1>2 DEF NextSlot

THEOREM TypeInit == Init => TypeOK /\ OutcomeKnown
BY SlotsAssumption DEF Init, TypeOK, OutcomeKnown, Phases, News

THEOREM TypeStep ==
    TypeOK /\ OutcomeKnown /\ [Next]_vars => TypeOK' /\ OutcomeKnown'
<1> SUFFICES ASSUME TypeOK, OutcomeKnown, [Next]_vars
             PROVE  TypeOK' /\ OutcomeKnown'
  OBVIOUS
<1> USE DEF TypeOK, OutcomeKnown, Phases, News
<1>1. ASSUME NEW t \in Transfers, Start(t)
      PROVE  TypeOK' /\ OutcomeKnown'
  BY <1>1 DEF Start, Tell
<1>2. ASSUME NEW t \in Transfers, Book(t)
      PROVE  TypeOK' /\ OutcomeKnown'
  BY <1>2 DEF Book
<1>3. ASSUME NEW t \in Transfers, Acquire(t)
      PROVE  TypeOK' /\ OutcomeKnown'
  BY <1>3, NextSlotIsLeast DEF Acquire, WantsSlot, TakeSlot
<1>4. ASSUME NEW t \in Transfers, Queue(t)
      PROVE  TypeOK' /\ OutcomeKnown'
  BY <1>4, NextSlotIsLeast DEF Queue, WantsSlot
<1>5. ASSUME NEW t \in Transfers, Granted(t)
      PROVE  TypeOK' /\ OutcomeKnown'
  BY <1>5, NextSlotIsLeast DEF Granted, WantsSlot, TakeSlot
<1>6. ASSUME NEW t \in Transfers, Work(t)
      PROVE  TypeOK' /\ OutcomeKnown'
  BY <1>6 DEF Work
<1>7. ASSUME NEW t \in Transfers, Progress(t)
      PROVE  TypeOK' /\ OutcomeKnown'
  BY <1>7 DEF Progress, Tell
<1>8. ASSUME NEW t \in Transfers, NEW came \in {"done", "failed"}, Land(t, came)
      PROVE  TypeOK' /\ OutcomeKnown'
  BY <1>8, TransfersAssumption DEF Land, LandsRemotely
<1>9. ASSUME NEW t \in Transfers, Deregister(t)
      PROVE  TypeOK' /\ OutcomeKnown'
  BY <1>9 DEF Deregister
<1>10. ASSUME NEW t \in Transfers, Report(t)
       PROVE  TypeOK' /\ OutcomeKnown'
  BY <1>10 DEF Report, Tell
<1>11. ASSUME NEW t \in Transfers, LeaveFolder(t)
       PROVE  TypeOK' /\ OutcomeKnown'
  BY <1>11 DEF LeaveFolder, End, LetGo
<1>12. ASSUME NEW t \in Transfers, WantFolder(t)
       PROVE  TypeOK' /\ OutcomeKnown'
  BY <1>12 DEF WantFolder
<1>13. ASSUME NEW t \in Transfers, BeginListing(t)
       PROVE  TypeOK' /\ OutcomeKnown'
  BY <1>13, EndsAreSessions DEF BeginListing
<1>14. ASSUME NEW t \in Transfers, NoSuchSession(t)
       PROVE  TypeOK' /\ OutcomeKnown'
  BY <1>14 DEF NoSuchSession, End, LetGo
<1>15. ASSUME NEW t \in Transfers, EndListing(t)
       PROVE  TypeOK' /\ OutcomeKnown'
  BY <1>15 DEF EndListing, End, LetGo
<1>16. ASSUME NEW t \in Transfers, Drop(t)
       PROVE  TypeOK' /\ OutcomeKnown'
  BY <1>16, WithoutType DEF Drop, End, LetGo
<1>17. ASSUME NEW t \in Transfers, Cancel(t)
       PROVE  TypeOK' /\ OutcomeKnown'
  <2>1. CASE t \in running
    <3>1. /\ told' = [told EXCEPT ![t] = Append(@, "cancelled")]
          /\ aborted' = aborted \cup {t} /\ running' = running \ {t}
                /\ UNCHANGED <<open, phase, held, permits, line, booked, early, outcome,
                         dirty, spinning>>
      BY <1>17, <2>1 DEF Cancel, Tell
    <3>2. told' \in [Transfers -> Seq(News)]
      BY <3>1
    <3> QED BY <3>1, <3>2
  <2>2. CASE t \notin running
    BY <1>17, <2>2 DEF Cancel
  <2> QED BY <2>1, <2>2
<1>18. ASSUME NEW s \in Sessions, Disconnect(s)
       PROVE  TypeOK' /\ OutcomeKnown'
  BY <1>18 DEF Disconnect
<1>19. CASE UNCHANGED vars
  BY <1>19 DEF vars
<1> QED
  BY <1>1, <1>2, <1>3, <1>4, <1>5, <1>6, <1>7, <1>8, <1>9, <1>10, <1>11, <1>12,
     <1>13, <1>14, <1>15, <1>16, <1>17, <1>18, <1>19
     DEF Next, Task, GetSlot, Finish, AfterWork

(* Every variable keeps its type, whatever the transfers, the connections, *)
(* their slots and the order of the steps of Running::start and cancel.    *)
THEOREM Typing == Spec => []TypeOK
<1>1. Spec => [](TypeOK /\ OutcomeKnown)
  BY TypeInit, TypeStep, PTL DEF Spec
<1> QED BY <1>1, PTL

-----------------------------------------------------------------------------
(* The slots. *)

LEMMA HoldersFinite ==
    ASSUME NEW s
    PROVE  IsFiniteSet(Holders(s)) /\ Cardinality(Holders(s)) \in Nat
<1>1. Holders(s) \subseteq Transfers
  BY DEF Holders
<1>2. IsFiniteSet(Holders(s))
  BY <1>1, TransfersAssumption, FS_Subset
<1> QED BY <1>2, FS_CardinalityType

(* A permit that is taken is one more holder. *)
LEMMA TakeSlotConserves ==
    ASSUME TypeOK, SlotsConserved,
           NEW t \in Transfers, NEW s \in Sessions,
           s \notin held[t], TakeSlot(t, s)
    PROVE  SlotsConserved'
<1> SUFFICES ASSUME NEW r \in Sessions
             PROVE  permits'[r] + Cardinality(Holders(r)') = Slots[r]
  BY DEF SlotsConserved
<1>1. permits[r] + Cardinality(Holders(r)) = Slots[r] /\ permits[r] \in Int
  BY DEF SlotsConserved, TypeOK
<1>2. CASE r = s
  <2>1. Holders(r)' = Holders(r) \cup {t} /\ t \notin Holders(r)
    BY <1>2 DEF Holders, TakeSlot, TypeOK
  <2>2. permits'[r] = permits[r] - 1
    BY <1>2 DEF TakeSlot, TypeOK
  <2>3. Cardinality(Holders(r)') = Cardinality(Holders(r)) + 1
    BY <2>1, HoldersFinite, FS_AddElement
  <2> QED BY <1>1, <2>2, <2>3, HoldersFinite
<1>3. CASE r # s
  <2>1. Holders(r)' = Holders(r) /\ permits'[r] = permits[r]
    BY <1>3 DEF Holders, TakeSlot, TypeOK
  <2> QED BY <1>1, <2>1
<1> QED BY <1>2, <1>3

(* The permits a task gives back are those it held. *)
LEMMA LetGoConserves ==
    ASSUME TypeOK, SlotsConserved, NEW t \in Transfers, LetGo(t)
    PROVE  SlotsConserved'
<1> SUFFICES ASSUME NEW r \in Sessions
             PROVE  permits'[r] + Cardinality(Holders(r)') = Slots[r]
  BY DEF SlotsConserved
<1>1. permits[r] + Cardinality(Holders(r)) = Slots[r] /\ permits[r] \in Int
  BY DEF SlotsConserved, TypeOK
<1>2. Holders(r)' = Holders(r) \ {t}
  BY DEF Holders, LetGo, TypeOK
<1>3. permits'[r] = IF r \in held[t] THEN permits[r] + 1 ELSE permits[r]
  BY DEF LetGo
<1>4. t \in Holders(r) <=> r \in held[t]
  BY DEF Holders
<1>5. Cardinality(Holders(r)') = IF r \in held[t] THEN Cardinality(Holders(r)) - 1
                                 ELSE Cardinality(Holders(r))
  BY <1>2, <1>4, HoldersFinite, FS_RemoveElement
<1> QED BY <1>1, <1>3, <1>5, HoldersFinite

LEMMA StandingStillConserves ==
    ASSUME SlotsConserved, UNCHANGED <<held, permits>>
    PROVE  SlotsConserved'
BY DEF SlotsConserved, Holders

LEMMA SlotsInit == Init => SlotsConserved
<1> SUFFICES ASSUME Init, NEW s \in Sessions
             PROVE  permits[s] + Cardinality(Holders(s)) = Slots[s]
  BY DEF SlotsConserved
<1>1. Holders(s) = {}
  BY DEF Init, Holders
<1>2. permits[s] = Slots[s] /\ Slots[s] \in Nat
  BY SlotsAssumption DEF Init
<1> QED BY <1>1, <1>2, FS_EmptySet

LEMMA SlotsStep == TypeOK /\ SlotsConserved /\ [Next]_vars => SlotsConserved'
<1> SUFFICES ASSUME TypeOK, SlotsConserved, [Next]_vars
             PROVE  SlotsConserved'
  OBVIOUS
<1>1. ASSUME NEW t \in Transfers, Acquire(t) \/ Granted(t)
      PROVE  SlotsConserved'
  <2>1. NextSlot(t) \in Sessions /\ NextSlot(t) \notin held[t]
    BY <1>1, NextSlotIsLeast DEF Acquire, Granted, WantsSlot, Missing
  <2> QED BY <1>1, <2>1, TakeSlotConserves DEF Acquire, Granted
<1>2. ASSUME NEW t \in Transfers,
             LeaveFolder(t) \/ NoSuchSession(t) \/ EndListing(t) \/ Drop(t)
      PROVE  SlotsConserved'
  BY <1>2, LetGoConserves DEF LeaveFolder, NoSuchSession, EndListing, Drop, End
<1>3. ASSUME NEW t \in Transfers,
             \/ Start(t) \/ Book(t) \/ Queue(t) \/ Work(t) \/ Progress(t)
             \/ Finish(t) \/ Deregister(t) \/ Report(t) \/ WantFolder(t)
             \/ BeginListing(t) \/ Cancel(t)
      PROVE  SlotsConserved'
  BY <1>3, StandingStillConserves
     DEF Start, Book, Queue, Work, Progress, Finish, Land, Deregister, Report,
         WantFolder, BeginListing, Cancel
<1>4. ASSUME NEW s \in Sessions, Disconnect(s)
      PROVE  SlotsConserved'
  BY <1>4, StandingStillConserves DEF Disconnect
<1>5. CASE UNCHANGED vars
  BY <1>5, StandingStillConserves DEF vars
<1> QED BY <1>1, <1>2, <1>3, <1>4, <1>5 DEF Next, Task, GetSlot, AfterWork

(* No slot is ever lost or made, however tasks are cancelled, dropped,     *)
(* failed or disconnected: what start takes is what it gives back.         *)
THEOREM SlotsAreConserved == Spec => []SlotsConserved
BY SlotsInit, SlotsStep, Typing, PTL DEF Spec

-----------------------------------------------------------------------------
(* Nobody waits in a circle. *)

(* A transfer holds slots of its own ends only; none before it is queued   *)
(* and none after it is over, all of them while it works; and what it      *)
(* holds comes before what it still needs.                                 *)
HeldInOrder ==
    \A t \in Transfers :
        /\ held[t] \subseteq Ends(t)
        /\ phase[t] \in {"none", "over"} => held[t] = {}
        /\ phase[t] \notin {"none", "waiting", "over"} => Missing(t) = {}
        /\ \A s \in held[t], r \in Missing(t) : s < r

LEMMA OrderInit == Init => HeldInOrder
BY DEF Init, HeldInOrder, Missing, Ends

(* The slot that is taken next is the least of those that are missing. *)
LEMMA TakeSlotKeepsOrder ==
    ASSUME TypeOK, HeldInOrder, NEW t \in Transfers,
           phase[t] = "waiting", Missing(t) # {},
           TakeSlot(t, NextSlot(t)), UNCHANGED phase
    PROVE  HeldInOrder'
<1> DEFINE s == NextSlot(t)
<1>1. s \in Missing(t) /\ s \in Sessions /\ \A r \in Missing(t) : s <= r
  BY NextSlotIsLeast
<1>2. Missing(t) \subseteq Nat
  BY EndsAreSessions DEF Missing
<1>3. held' = [held EXCEPT ![t] = held[t] \cup {s}]
  BY DEF TakeSlot
<1>4. held'[t] = held[t] \cup {s} /\ Missing(t)' = Missing(t) \ {s}
  BY <1>3 DEF TypeOK, Missing, Ends
<1> HIDE DEF s
<1>5. \A q \in held'[t], r \in Missing(t)' : q < r
  BY <1>1, <1>2, <1>4 DEF HeldInOrder
<1>6. held'[t] \subseteq Ends(t)
  BY <1>1, <1>4 DEF HeldInOrder, Missing
<1>7. \A u \in Transfers \ {t} : held'[u] = held[u] /\ Missing(u)' = Missing(u)
  BY <1>3 DEF TypeOK, Missing, Ends
<1> QED BY <1>5, <1>6, <1>7 DEF HeldInOrder, Ends

LEMMA EndKeepsOrder ==
    ASSUME TypeOK, HeldInOrder, NEW t \in Transfers, End(t)
    PROVE  HeldInOrder'
BY DEF HeldInOrder, End, LetGo, TypeOK, Missing, Ends

LEMMA OrderStep == TypeOK /\ HeldInOrder /\ [Next]_vars => HeldInOrder'
<1> SUFFICES ASSUME TypeOK, HeldInOrder, [Next]_vars
             PROVE  HeldInOrder'
  OBVIOUS
<1>1. ASSUME NEW t \in Transfers, Acquire(t) \/ Granted(t)
      PROVE  HeldInOrder'
  BY <1>1, TakeSlotKeepsOrder DEF Acquire, Granted, WantsSlot
<1>2. ASSUME NEW t \in Transfers,
             LeaveFolder(t) \/ NoSuchSession(t) \/ EndListing(t) \/ Drop(t)
      PROVE  HeldInOrder'
  BY <1>2, EndKeepsOrder DEF LeaveFolder, NoSuchSession, EndListing, Drop
<1>3. ASSUME NEW t \in Transfers,
             \/ Start(t) \/ Work(t) \/ Finish(t) \/ Deregister(t) \/ Report(t)
             \/ WantFolder(t) \/ BeginListing(t)
      PROVE  HeldInOrder'
  BY <1>3
     DEF HeldInOrder, TypeOK, Missing, Ends, Start, Work, Finish, Land,
         Deregister, Report, WantFolder, BeginListing
<1>4. ASSUME UNCHANGED <<phase, held>>
      PROVE  HeldInOrder'
  BY <1>4 DEF HeldInOrder, Missing, Ends
<1>5. ASSUME NEW t \in Transfers, Book(t) \/ Queue(t) \/ Progress(t) \/ Cancel(t)
      PROVE  HeldInOrder'
  BY <1>4, <1>5 DEF Book, Queue, Progress, Cancel
<1>6. ASSUME NEW s \in Sessions, Disconnect(s)
      PROVE  HeldInOrder'
  BY <1>4, <1>6 DEF Disconnect
<1>7. CASE UNCHANGED vars
  BY <1>4, <1>7 DEF vars
<1> QED BY <1>1, <1>2, <1>3, <1>5, <1>6, <1>7 DEF Next, Task, GetSlot, AfterWork

(* A set of numbers that is finite and not empty has a greatest one: the   *)
(* one with the fewest above it.                                           *)
LEMMA Greatest ==
    ASSUME NEW N, IsFiniteSet(N), N \subseteq Nat, N # {}
    PROVE  \E m \in N : \A n \in N : n <= m
<1> DEFINE Above(n) == {k \in N : k > n}
           Counts == {Cardinality(Above(n)) : n \in N}
<1>1. \A n \in N : IsFiniteSet(Above(n)) /\ Cardinality(Above(n)) \in Nat
  BY FS_Subset, FS_CardinalityType
<1>2. \E c \in Counts : \A d \in Counts : ~(<<d, c>> \in OpToRel(<, Nat))
  <2>1. Counts \subseteq Nat /\ Counts # {}
    BY <1>1
  <2> HIDE DEF Counts
  <2> QED BY <2>1, NatLessThanWellFounded, WFMin
<1>3. PICK m \in N : \A n \in N : ~(Cardinality(Above(n)) < Cardinality(Above(m)))
  BY <1>1, <1>2 DEF OpToRel
<1>4. ASSUME NEW n \in N, n > m
      PROVE  FALSE
  <2>1. Above(n) \subseteq Above(m) \ {n} /\ n \in Above(m)
    <3>1. m \in Nat /\ n \in Nat /\ \A k \in N : k \in Nat
      BY <1>4
    <3>2. \A k \in N : k > n => k > m /\ k # n
      BY <1>4, <3>1
    <3> QED BY <1>4, <3>2
  <2>2. IsFiniteSet(Above(m) \ {n})
        /\ Cardinality(Above(m) \ {n}) = Cardinality(Above(m)) - 1
    BY <1>1, <2>1, FS_RemoveElement
  <2>3. Cardinality(Above(n)) <= Cardinality(Above(m)) - 1
    BY <2>1, <2>2, FS_Subset
  <2> HIDE DEF Above
  <2> QED BY <1>1, <1>3, <2>3
<1> QED BY <1>4

(* Whoever is stuck at the greatest slot anybody of D waits for waits for  *)
(* somebody who holds it and therefore waits for a greater one.            *)
LEMMA OrderPreventsCircles ==
    TypeOK /\ SlotsConserved /\ HeldInOrder => NoCircularWait
<1> SUFFICES ASSUME TypeOK, SlotsConserved, HeldInOrder,
                    NEW D \in (SUBSET Transfers) \ {{}}
             PROVE  \E t \in D : ~StuckBehind(t, D)
  BY DEF NoCircularWait
<1> SUFFICES ASSUME \A t \in D : StuckBehind(t, D)
             PROVE  FALSE
  OBVIOUS
<1> DEFINE Awaited == {NextSlot(t) : t \in D}
<1>1. \A t \in D : NextSlot(t) \in Missing(t) /\ NextSlot(t) \in Sessions
  BY NextSlotIsLeast DEF StuckBehind
<1>2. Awaited \subseteq Sessions /\ Awaited # {}
  BY <1>1
<1>3. IsFiniteSet(Awaited) /\ Awaited \subseteq Nat
  BY <1>2, SessionsAssumption, FS_Subset
<1>4. PICK m \in Awaited : \A n \in Awaited : n <= m
  <2> HIDE DEF Awaited
  <2> QED BY <1>2, <1>3, Greatest
<1>5. PICK t \in D : NextSlot(t) = m
  BY <1>4
<1>6. Cardinality(Holders(m)) = Slots[m] /\ Slots[m] # 0
  BY <1>1, <1>5, SlotsAssumption, HoldersFinite DEF StuckBehind, SlotsConserved
<1>7. PICK u \in Holders(m) : u \in D
  BY <1>5, <1>6, FS_EmptySet DEF StuckBehind
<1>8. NextSlot(u) \in Missing(u) /\ m \in held[u] /\ NextSlot(u) \in Awaited
  BY <1>1, <1>7 DEF Holders
<1>9. m < NextSlot(u) /\ NextSlot(u) <= m
  BY <1>4, <1>7, <1>8 DEF HeldInOrder
<1> QED BY <1>3, <1>8, <1>9, <1>4

(* Files dragged both ways between any number of connections never hold    *)
(* the slots the others are waiting for in a circle.                       *)
THEOREM NoWaitIsCircular == Spec => []NoCircularWait
BY OrderInit, OrderStep, OrderPreventsCircles, Typing, SlotsAreConserved, PTL
   DEF Spec

-----------------------------------------------------------------------------
(* The registry of what is in flight, and the listing it decides about. *)

(* A transfer is in the registry only once it was put there and until it   *)
(* was called off, and one that was never put there either has its work    *)
(* still to do or was early.                                               *)
BookedBefore ==
    /\ running \subseteq booked
    /\ aborted \subseteq booked
    /\ running \cap aborted = {}
    /\ \A t \in Transfers \ (booked \cup early) : phase[t] = "none" \/ InFlight(t)

RegistryInv == BookedBefore /\ RegistryIsInFlight

LEMMA RegistryInit == Init => RegistryInv
BY DEF Init, RegistryInv, BookedBefore, RegistryIsInFlight, InFlight

LEMMA RegistryStep == TypeOK /\ RegistryInv /\ [Next]_vars => RegistryInv'
<1> SUFFICES ASSUME TypeOK, BookedBefore, RegistryIsInFlight, [Next]_vars
             PROVE  BookedBefore' /\ RegistryIsInFlight'
  BY DEF RegistryInv
<1> USE DEF BookedBefore, RegistryIsInFlight, InFlight, TypeOK
<1>1. ASSUME NEW t \in Transfers, Start(t)
      PROVE  BookedBefore' /\ RegistryIsInFlight'
  BY <1>1 DEF Start
<1>2. ASSUME NEW t \in Transfers, Book(t)
      PROVE  BookedBefore' /\ RegistryIsInFlight'
  BY <1>2 DEF Book
<1>3. ASSUME NEW t \in Transfers, Acquire(t) \/ Granted(t)
      PROVE  BookedBefore' /\ RegistryIsInFlight'
  BY <1>3 DEF Acquire, Granted, WantsSlot, TakeSlot
<1>4. ASSUME NEW t \in Transfers, Work(t)
      PROVE  BookedBefore' /\ RegistryIsInFlight'
  BY <1>4 DEF Work
<1>5. ASSUME NEW t \in Transfers, Queue(t) \/ Progress(t)
      PROVE  BookedBefore' /\ RegistryIsInFlight'
  BY <1>5 DEF Queue, Progress
<1>6. ASSUME NEW t \in Transfers, Finish(t) \/ Deregister(t)
      PROVE  BookedBefore' /\ RegistryIsInFlight'
  BY <1>6 DEF Finish, Land, Deregister
<1>7. ASSUME NEW t \in Transfers, Report(t) \/ WantFolder(t) \/ BeginListing(t)
      PROVE  BookedBefore' /\ RegistryIsInFlight'
  BY <1>7 DEF Report, WantFolder, BeginListing
<1>8. ASSUME NEW t \in Transfers, LeaveFolder(t) \/ NoSuchSession(t) \/ EndListing(t)
      PROVE  BookedBefore' /\ RegistryIsInFlight'
  BY <1>8 DEF LeaveFolder, NoSuchSession, EndListing, End, LetGo
<1>9. ASSUME NEW t \in Transfers, Drop(t)
      PROVE  BookedBefore' /\ RegistryIsInFlight'
  BY <1>9 DEF Drop, End, LetGo
<1>10. ASSUME NEW t \in Transfers, Cancel(t)
       PROVE  BookedBefore' /\ RegistryIsInFlight'
  BY <1>10 DEF Cancel
<1>11. ASSUME NEW s \in Sessions, Disconnect(s)
       PROVE  BookedBefore' /\ RegistryIsInFlight'
  BY <1>11 DEF Disconnect
<1>12. CASE UNCHANGED vars
  BY <1>12 DEF vars
<1> QED
  BY <1>1, <1>2, <1>3, <1>4, <1>5, <1>6, <1>7, <1>8, <1>9, <1>10, <1>11, <1>12
     DEF Next, Task, GetSlot, AfterWork

LEMMA RegistryInvariant == Spec => []RegistryInv
BY RegistryInit, RegistryStep, Typing, PTL DEF Spec

(* The registry never holds a transfer whose work is over, but for a task  *)
(* that was done before the line after its spawn was.                      *)
THEOREM RegistryHoldsWhatIsInFlight == Spec => []RegistryIsInFlight
<1>1. RegistryInv => RegistryIsInFlight
  BY DEF RegistryInv
<1> QED BY <1>1, RegistryInvariant, PTL

LEMMA RedrawInit == Init => LastOneRedraws
BY DEF Init, LastOneRedraws

(* A transfer that leaves the folder alone saw another one in the registry *)
(* and that one is still to come to the same question.                     *)
LEMMA RedrawStep ==
    TypeOK /\ RegistryInv /\ LastOneRedraws /\ [Next]_vars => LastOneRedraws'
<1> SUFFICES ASSUME TypeOK, RegistryIsInFlight, LastOneRedraws,
                    [Next]_vars,
                    NEW s \in open', OnlyArrivals(s)', dirty'[s] # {}
             PROVE  WillRedraw(s)'
  BY DEF RegistryInv, LastOneRedraws
<1>1. s \in open /\ OnlyArrivals(s) /\ s \in Sessions
  BY DEF OnlyArrivals, TypeOK, Next, vars, Task, GetSlot, Finish, AfterWork, Start,
         Book, Acquire, Queue, Granted, Work, Progress, Land, Deregister, Report,
         LeaveFolder, WantFolder, BeginListing, NoSuchSession, EndListing, Drop,
         Cancel, Disconnect
<1>2. dirty[s] # {} => WillRedraw(s)
  BY <1>1 DEF LastOneRedraws
<1> USE DEF WillRedraw, TypeOK
<1>3. ASSUME NEW t \in Transfers, LeaveFolder(t)
      PROVE  WillRedraw(s)'
  <2>1. dirty[s] # {} /\ WillRedraw(s)
    BY <1>2, <1>3 DEF LeaveFolder
  <2>2. CASE On(t) = s
    <3>1. StillWorking(s)
      BY <1>1, <1>3, <2>2 DEF LeaveFolder, LastOne, OnlyArrivals
    <3>2. PICK u \in running : On(u) = s
      BY <3>1 DEF StillWorking
    <3>3. u \in Transfers /\ InFlight(u) /\ u # t
      BY <1>1, <1>3, <3>2 DEF OnlyArrivals, RegistryIsInFlight, InFlight, LeaveFolder
    <3>4. phase'[u] = phase[u]
      BY <1>3, <3>3 DEF LeaveFolder, End
    <3> QED BY <3>2, <3>3, <3>4 DEF InFlight, On, LandsRemotely
  <2>3. CASE On(t) # s
    BY <1>3, <2>1, <2>3 DEF LeaveFolder, End, On, LandsRemotely
  <2> QED BY <2>2, <2>3
<1>4. ASSUME NEW t \in Transfers, Finish(t)
      PROVE  WillRedraw(s)'
  BY <1>2, <1>4, EndsAreSessions DEF Finish, Land, On, LandsRemotely
<1>5. ASSUME NEW t \in Transfers, BeginListing(t)
      PROVE  WillRedraw(s)'
  BY <1>1, <1>2, <1>5 DEF BeginListing, On, LandsRemotely
<1>6. ASSUME NEW t \in Transfers,
             \/ Start(t) \/ Work(t) \/ Deregister(t) \/ Report(t) \/ WantFolder(t)
      PROVE  WillRedraw(s)'
  BY <1>2, <1>6 DEF Start, Work, Deregister, Report, WantFolder, On, LandsRemotely
<1>7. ASSUME NEW t \in Transfers, NoSuchSession(t) \/ EndListing(t) \/ Drop(t)
      PROVE  WillRedraw(s)'
  BY <1>1, <1>2, <1>7
     DEF NoSuchSession, EndListing, Drop, End, On, LandsRemotely, OnlyArrivals
<1>8. ASSUME UNCHANGED <<phase, dirty>>
      PROVE  WillRedraw(s)'
  BY <1>2, <1>8 DEF On, LandsRemotely
<1>9. ASSUME NEW t \in Transfers,
             Book(t) \/ GetSlot(t) \/ Progress(t) \/ Cancel(t)
      PROVE  WillRedraw(s)'
  BY <1>8, <1>9 DEF Book, GetSlot, Acquire, Queue, Granted, Progress, Cancel
<1>10. ASSUME NEW r \in Sessions, Disconnect(r)
       PROVE  WillRedraw(s)'
  BY <1>8, <1>10 DEF Disconnect
<1>11. CASE UNCHANGED vars
  BY <1>8, <1>11 DEF vars
<1> QED
  BY <1>3, <1>4, <1>5, <1>6, <1>7, <1>9, <1>10, <1>11 DEF Next, Task, AfterWork

(* Of any number of files landing on a connection that only receives, in   *)
(* any order, the last one has the folder listed again.                    *)
THEOREM TheLastOneRedraws == Spec => []LastOneRedraws
BY RedrawInit, RedrawStep, RegistryInvariant, Typing, PTL DEF Spec

-----------------------------------------------------------------------------
(* What is told of a transfer. *)

Unreported == {"none", "waiting", "working", "landed", "deregistered"}

(* A transfer that has not reported has been told nothing final, unless it *)
(* was called off.                                                         *)
NothingFinalYet ==
    \A t \in Transfers \ aborted :
        phase[t] \in Unreported =>
            \A i \in DOMAIN told[t] : told[t][i] \notin Settled

ToldInv == NothingFinalYet /\ EndIsToldOnce

LEMMA ToldInit == Init => ToldInv
BY DEF Init, ToldInv, NothingFinalYet, EndIsToldOnce

LEMMA AppendGrows ==
    ASSUME NEW S, NEW seq \in Seq(S), NEW e \in S
    PROVE  /\ Len(Append(seq, e)) = Len(seq) + 1
           /\ DOMAIN Append(seq, e) = 1 .. Len(seq) + 1
           /\ \A i \in 1 .. Len(seq) : Append(seq, e)[i] = seq[i]
           /\ Append(seq, e)[Len(seq) + 1] = e
           /\ DOMAIN seq = 1 .. Len(seq)
           /\ Len(seq) \in Nat
BY LenProperties

LEMMA ToldStep ==
    TypeOK /\ OutcomeKnown /\ ToldInv /\ [Next]_vars => ToldInv'
<1> SUFFICES ASSUME TypeOK, OutcomeKnown, ToldInv, [Next]_vars
             PROVE  ToldInv'
  OBVIOUS
<1> USE DEF ToldInv, NothingFinalYet, EndIsToldOnce, TypeOK, Settled, Unreported
<1>1. ASSUME NEW t \in Transfers, NEW news \in {"added", "progress"},
             phase[t] \in Unreported, phase'[t] \in Unreported, Tell(t, news),
             \A u \in Transfers \ {t} : phase'[u] = phase[u],
             UNCHANGED <<aborted, outcome>>
      PROVE  ToldInv'
  <2>1. told' = [told EXCEPT ![t] = Append(told[t], news)] /\ news \in News
    BY <1>1 DEF Tell, News
  <2>2. t \notin aborted =>
            \A i \in DOMAIN told'[t] : told'[t][i] \notin Settled
    <3>1. told'[t] = Append(told[t], news) /\ told[t] \in Seq(News)
      BY <2>1
    <3>2. \A i \in DOMAIN told'[t] :
              \/ i \in DOMAIN told[t] /\ told'[t][i] = told[t][i]
              \/ told'[t][i] = news
      BY <2>1, <3>1, AppendGrows
    <3> QED BY <1>1, <3>2
  <2>3. \A u \in Transfers \ {t} : told'[u] = told[u]
    BY <2>1
  <2>4. NothingFinalYet'
    BY <1>1, <2>2, <2>3
  <2>5. EndIsToldOnce'
    <3> SUFFICES ASSUME NEW u \in Transfers \ aborted, NEW i \in DOMAIN told'[u],
                        told'[u][i] \in Settled
                 PROVE  i = Len(told'[u]) /\ told'[u][i] = outcome[u]
      BY <1>1
    <3>1. u # t
      BY <2>2
    <3>2. told'[u] = told[u]
      BY <2>3, <3>1
    <3> QED BY <3>2
  <2> QED BY <2>4, <2>5
<1>2. ASSUME NEW t \in Transfers, Start(t) \/ Progress(t)
      PROVE  ToldInv'
  BY <1>1, <1>2 DEF Start, Progress
<1>3. ASSUME NEW t \in Transfers, Report(t)
      PROVE  ToldInv'
  <2>1. told' = [told EXCEPT ![t] = Append(told[t], outcome[t])]
        /\ outcome[t] \in News /\ phase' = [phase EXCEPT ![t] = "reported"]
        /\ UNCHANGED <<aborted, outcome>>
    BY <1>3 DEF Report, Tell, News, OutcomeKnown
  <2>2. t \notin aborted =>
            \A i \in DOMAIN told'[t] :
                told'[t][i] \in Settled => i = Len(told'[t]) /\ told'[t][i] = outcome[t]
    <3>1. told'[t] = Append(told[t], outcome[t]) /\ told[t] \in Seq(News)
      BY <2>1
    <3>2. \A i \in DOMAIN told'[t] :
              \/ i \in DOMAIN told[t] /\ told'[t][i] = told[t][i]
              \/ i = Len(told'[t]) /\ told'[t][i] = outcome[t]
      BY <2>1, <3>1, AppendGrows
    <3>3. t \notin aborted => \A i \in DOMAIN told[t] : told[t][i] \notin Settled
      BY <1>3 DEF Report
    <3> QED BY <3>2, <3>3
  <2>3. \A u \in Transfers \ {t} : told'[u] = told[u] /\ phase'[u] = phase[u]
    BY <2>1
  <2> QED BY <2>1, <2>2, <2>3
<1>4. ASSUME NEW t \in Transfers, Finish(t)
      PROVE  ToldInv'
  <2>1. PICK came \in {"done", "failed"} : Land(t, came)
    BY <1>4 DEF Finish
  <2>2. t \notin aborted => \A i \in DOMAIN told[t] : told[t][i] \notin Settled
    BY <2>1 DEF Land
  <2> QED BY <2>1, <2>2 DEF Land
<1>5. ASSUME NEW t \in Transfers, Work(t) \/ Deregister(t)
      PROVE  ToldInv'
  BY <1>5 DEF Work, Deregister
<1>6. ASSUME NEW t \in Transfers,
             \/ WantFolder(t) \/ BeginListing(t) \/ LeaveFolder(t)
             \/ NoSuchSession(t) \/ EndListing(t) \/ Drop(t)
      PROVE  ToldInv'
  BY <1>6
     DEF WantFolder, BeginListing, LeaveFolder, NoSuchSession, EndListing, Drop, End
<1>7. ASSUME NEW t \in Transfers, Cancel(t)
      PROVE  ToldInv'
  <2>1. /\ aborted \subseteq aborted' /\ UNCHANGED <<phase, outcome>>
        /\ \A u \in Transfers \ aborted' : told'[u] = told[u]
    BY <1>7 DEF Cancel, Tell
  <2> QED BY <2>1
<1>8. ASSUME UNCHANGED <<phase, told, outcome, aborted>>
      PROVE  ToldInv'
  BY <1>8
<1>9. ASSUME NEW t \in Transfers, Book(t) \/ GetSlot(t)
      PROVE  ToldInv'
  BY <1>8, <1>9 DEF Book, GetSlot, Acquire, Queue, Granted
<1>10. ASSUME NEW s \in Sessions, Disconnect(s)
       PROVE  ToldInv'
  BY <1>8, <1>10 DEF Disconnect
<1>11. CASE UNCHANGED vars
  BY <1>8, <1>11 DEF vars
<1> QED
  BY <1>2, <1>3, <1>4, <1>5, <1>6, <1>7, <1>9, <1>10, <1>11
     DEF Next, Task, AfterWork

(* Nobody hears twice that a transfer has ended, or hears anything of it   *)
(* afterwards, unless somebody called it off.                              *)
THEOREM TheEndIsToldOnce == Spec => []EndIsToldOnce
<1>1. Spec => [](TypeOK /\ OutcomeKnown /\ ToldInv)
  BY TypeInit, TypeStep, ToldInit, ToldStep, PTL DEF Spec
<1>2. ToldInv => EndIsToldOnce
  BY DEF ToldInv
<1> QED BY <1>1, <1>2, PTL

-----------------------------------------------------------------------------
(* Transfers implements TransferLife. *)

(* The instance counts as this module does. *)
LEMMA SameCardinality == \A S : Life!Cardinality(S) = Cardinality(S)
BY DEF Life!Cardinality, Cardinality

LEMMA LifeInit == Init => Life!Init
BY DEF Init, Life!Init, stages, Stage

(* Those that move at session s hold a slot of it. *)
LEMMA MovingHold ==
    ASSUME HeldInOrder, NEW s \in Sessions
    PROVE  Life!Moving(s) \subseteq Holders(s)
BY DEF HeldInOrder, Life!Moving, Holders, stages, Stage, Missing

LEMMA LifeStep ==
    TypeOK /\ SlotsConserved /\ HeldInOrder /\ [Next]_vars => [Life!Next]_stages
<1> SUFFICES ASSUME TypeOK, SlotsConserved, HeldInOrder, [Next]_vars
             PROVE  [Life!Next]_stages
  OBVIOUS
<1>1. ASSUME NEW t \in Transfers, Start(t)
      PROVE  Life!Add(t)
  BY <1>1 DEF Start, Life!Add, stages, Stage, TypeOK
<1>2. ASSUME NEW t \in Transfers, Work(t)
      PROVE  Life!Move(t)
  <2>1. stages[t] = "waiting" /\ stages' = [stages EXCEPT ![t] = "moving"]
    BY <1>2 DEF Work, stages, Stage, TypeOK
  <2>2. ASSUME NEW s \in Ends(t)
        PROVE  Life!HasRoom(s)
    <3>1. s \in Sessions /\ t \in Holders(s)
      BY <1>2, <2>2, EndsAreSessions DEF Work, Missing, Holders
    <3>2. Life!Moving(s) \subseteq Holders(s) \ {t}
      BY <2>1, <3>1, MovingHold DEF Life!Moving
    <3>3. IsFiniteSet(Holders(s) \ {t})
          /\ Cardinality(Holders(s) \ {t}) = Cardinality(Holders(s)) - 1
      BY <3>1, HoldersFinite, FS_RemoveElement
    <3>4. Cardinality(Life!Moving(s)) \in Nat
          /\ Cardinality(Life!Moving(s)) <= Cardinality(Holders(s)) - 1
      BY <3>2, <3>3, FS_Subset, FS_CardinalityType
    <3>5. permits[s] \in Nat /\ permits[s] + Cardinality(Holders(s)) = Slots[s]
      BY <3>1 DEF TypeOK, SlotsConserved
    <3> QED BY <3>1, <3>4, <3>5, HoldersFinite, SameCardinality DEF Life!HasRoom
  <2> QED BY <2>1, <2>2 DEF Life!Move
<1>3. ASSUME NEW t \in Transfers,
             LeaveFolder(t) \/ NoSuchSession(t) \/ EndListing(t) \/ Drop(t)
      PROVE  Life!Leave(t)
  BY <1>3
     DEF LeaveFolder, NoSuchSession, EndListing, Drop, End, Life!Leave, stages,
         Stage, TypeOK
<1>4. ASSUME NEW t \in Transfers,
             \/ Finish(t) \/ Deregister(t) \/ Report(t) \/ WantFolder(t)
             \/ BeginListing(t)
      PROVE  UNCHANGED stages
  BY <1>4
     DEF Finish, Land, Deregister, Report, WantFolder, BeginListing, stages,
         Stage, TypeOK
<1>5. ASSUME UNCHANGED phase
      PROVE  UNCHANGED stages
  BY <1>5 DEF stages, Stage
<1>6. ASSUME NEW t \in Transfers,
             Book(t) \/ GetSlot(t) \/ Progress(t) \/ Cancel(t)
      PROVE  UNCHANGED stages
  BY <1>5, <1>6 DEF Book, GetSlot, Acquire, Queue, Granted, Progress, Cancel
<1>7. ASSUME NEW s \in Sessions, Disconnect(s)
      PROVE  UNCHANGED stages
  BY <1>5, <1>7 DEF Disconnect
<1>8. CASE UNCHANGED vars
  BY <1>5, <1>8 DEF vars
<1> QED
  BY <1>1, <1>2, <1>3, <1>4, <1>6, <1>7, <1>8
     DEF Next, Task, AfterWork, Life!Next

(* Whatever the tasks, the registry, the semaphores and the cancellations  *)
(* do, no connection ever moves more transfers than it has slots, and each *)
(* transfer waits, moves and is over, in this order.                       *)
THEOREM StartKeepsItsPromise == Spec => KeepsItsPromise
<1>1. Spec => [](TypeOK /\ SlotsConserved /\ HeldInOrder)
  BY Typing, SlotsAreConserved, OrderInit, OrderStep, PTL DEF Spec
<1> QED BY <1>1, LifeInit, LifeStep, PTL DEF Spec, KeepsItsPromise, Life!Spec

(* The engine under the window is module Transfers: every step of the two  *)
(* is one of the engine's or leaves it alone.                              *)
LEMMA QueueStepsAreSteps == [QNext]_qvars => [Next]_vars
BY DEF QNext, qvars, Engine, Interface, Add, Advance, FinishRow, Hear, ClickCancel,
       HandleCancel, ClearFinished, Next

THEOREM QueueKeepsTheEngine == QSpec => Spec
BY QueueStepsAreSteps, PTL DEF QSpec, QInit, Spec

-----------------------------------------------------------------------------
(* What was said last of a transfer that has reported is what came of it,  *)
(* until somebody calls it off.                                            *)
Reported == {"reported", "stale", "listing", "over"}

OutcomeIsToldLast ==
    \A t \in Transfers \ aborted :
        phase[t] \in Reported => told[t] # <<>> /\ told[t][Len(told[t])] = outcome[t]

LEMMA ToldLastInit == Init => OutcomeIsToldLast
BY DEF Init, OutcomeIsToldLast, Reported

LEMMA ToldLastStep ==
    TypeOK /\ OutcomeKnown /\ OutcomeIsToldLast /\ [Next]_vars => OutcomeIsToldLast'
<1> SUFFICES ASSUME TypeOK, OutcomeKnown, OutcomeIsToldLast, [Next]_vars
             PROVE  OutcomeIsToldLast'
  OBVIOUS
<1> USE DEF OutcomeIsToldLast, Reported, TypeOK
<1>1. ASSUME NEW t \in Transfers, Start(t) \/ Progress(t)
      PROVE  OutcomeIsToldLast'
  BY <1>1 DEF Start, Progress, Tell
<1>2. ASSUME NEW t \in Transfers, Report(t)
      PROVE  OutcomeIsToldLast'
  <2>1. outcome[t] \in News /\ told[t] \in Seq(News)
    BY <1>2 DEF Report, OutcomeKnown, News
  <2>2. told'[t] = Append(told[t], outcome[t]) /\ outcome' = outcome /\ aborted' = aborted
        /\ \A u \in Transfers \ {t} : told'[u] = told[u] /\ phase'[u] = phase[u]
    BY <1>2 DEF Report, Tell
  <2>3. told'[t] # <<>> /\ told'[t][Len(told'[t])] = outcome[t]
    <3>1. Len(told'[t]) = Len(told[t]) + 1 /\ Len(told[t]) \in Nat
          /\ told'[t][Len(told[t]) + 1] = outcome[t]
      BY <2>1, <2>2, AppendGrows
    <3>2. Len(told'[t]) # 0
      BY <3>1
    <3> QED BY <3>1, <3>2
  <2> QED BY <2>2, <2>3
<1>3. ASSUME NEW t \in Transfers, Finish(t)
      PROVE  OutcomeIsToldLast'
  BY <1>3 DEF Finish, Land
<1>4. ASSUME NEW t \in Transfers,
             Work(t) \/ Deregister(t) \/ WantFolder(t) \/ BeginListing(t)
      PROVE  OutcomeIsToldLast'
  BY <1>4 DEF Work, Deregister, WantFolder, BeginListing
<1>5. ASSUME NEW t \in Transfers,
             LeaveFolder(t) \/ NoSuchSession(t) \/ EndListing(t) \/ Drop(t)
      PROVE  OutcomeIsToldLast'
  BY <1>5 DEF LeaveFolder, NoSuchSession, EndListing, Drop, End
<1>6. ASSUME NEW t \in Transfers, Cancel(t)
      PROVE  OutcomeIsToldLast'
  BY <1>6 DEF Cancel, Tell
<1>7. CASE UNCHANGED <<phase, aborted, outcome, told>>
  BY <1>7
<1>8. ASSUME NEW t \in Transfers, Book(t) \/ GetSlot(t)
      PROVE  OutcomeIsToldLast'
  BY <1>7, <1>8 DEF Book, GetSlot, Acquire, Queue, Granted
<1>9. ASSUME NEW s \in Sessions, Disconnect(s)
      PROVE  OutcomeIsToldLast'
  BY <1>7, <1>9 DEF Disconnect
<1>10. CASE UNCHANGED vars
  BY <1>7, <1>10 DEF vars
<1> QED
  BY <1>1, <1>2, <1>3, <1>4, <1>5, <1>6, <1>8, <1>9, <1>10 DEF Next, Task, AfterWork

-----------------------------------------------------------------------------
(* The rows. *)

(* What a row says of what was heard last. *)
Says(news) ==
    CASE news = "added" -> "queued"
      [] news = "progress" -> "running"
      [] OTHER -> news

(* The interface has heard no more than was told, and a row that is there  *)
(* says what was heard last.                                               *)
RowsFollow ==
    /\ row \in [Transfers -> Rows]
    /\ read \in [Transfers -> Nat]
    /\ \A t \in Transfers :
          /\ read[t] <= Len(told[t])
          /\ read[t] = 0 => row[t] = "absent"
          /\ read[t] > 0 => row[t] \in {"absent", Says(told[t][read[t]])}

LEMMA RowsInit == QInit => RowsFollow
BY DEF QInit, Init, RowsFollow, Rows

(* What has been told is not taken back: more may be told after it. *)
LEMMA NothingIsTakenBack ==
    ASSUME TypeOK, TypeOK', OutcomeKnown, [Next]_vars, NEW t \in Transfers
    PROVE  /\ Len(told[t]) <= Len(told'[t])
           /\ \A i \in 1 .. Len(told[t]) : told'[t][i] = told[t][i]
<1>1. ASSUME NEW u \in Transfers, NEW news \in News, Tell(u, news)
      PROVE  /\ Len(told[t]) <= Len(told'[t])
             /\ \A i \in 1 .. Len(told[t]) : told'[t][i] = told[t][i]
  <2>1. told[t] \in Seq(News) /\ Len(told[t]) \in Nat
    BY DEF TypeOK
  <2>2. told'[t] = told[t] \/ told'[t] = Append(told[t], news)
    BY <1>1 DEF Tell, TypeOK
  <2> QED BY <2>1, <2>2, AppendGrows
<1>2. CASE UNCHANGED told
  <2>1. Len(told[t]) \in Nat
    BY DEF TypeOK
  <2> QED BY <1>2, <2>1
<1>3. ASSUME NEW u \in Transfers, Start(u) \/ Progress(u) \/ Report(u) \/ Cancel(u)
      PROVE  UNCHANGED told \/ \E news \in News : Tell(u, news)
  <2>1. {"added", "progress", "cancelled"} \subseteq News
    BY DEF News
  <2>2. Report(u) => outcome[u] \in News
    BY DEF Report, OutcomeKnown, TypeOK, News
  <2> QED BY <1>3, <2>1, <2>2 DEF Start, Progress, Report, Cancel
<1>4. ASSUME NEW u \in Transfers,
             \/ Book(u) \/ GetSlot(u) \/ Work(u) \/ Finish(u) \/ Deregister(u)
             \/ LeaveFolder(u) \/ WantFolder(u) \/ BeginListing(u)
             \/ NoSuchSession(u) \/ EndListing(u) \/ Drop(u)
      PROVE  UNCHANGED told
  BY <1>4 DEF Book, GetSlot, Acquire, Queue, Granted, Work, Finish, Land, Deregister,
              LeaveFolder, WantFolder, BeginListing, NoSuchSession, EndListing, Drop
<1>5. ASSUME NEW s \in Sessions, Disconnect(s)
      PROVE  UNCHANGED told
  BY <1>5 DEF Disconnect
<1> QED
  BY <1>1, <1>2, <1>3, <1>4, <1>5 DEF Next, vars, Task, AfterWork

LEMMA RowsStep ==
    TypeOK /\ TypeOK' /\ OutcomeKnown /\ RowsFollow /\ [QNext]_qvars => RowsFollow'
<1> SUFFICES ASSUME TypeOK, TypeOK', OutcomeKnown, RowsFollow, [QNext]_qvars
             PROVE  RowsFollow'
  OBVIOUS
<1> DEFINE Followed(t) ==
             /\ row'[t] \in Rows
             /\ read'[t] \in Nat /\ read'[t] <= Len(told'[t])
             /\ read'[t] = 0 => row'[t] = "absent"
             /\ read'[t] > 0 => row'[t] \in {"absent", Says(told'[t][read'[t]])}
<1>0. SUFFICES row' \in [Transfers -> Rows] /\ read' \in [Transfers -> Nat]
               /\ \A t \in Transfers : Followed(t)
  BY DEF RowsFollow
<1>1. \A t \in Transfers : Len(told[t]) \in Nat /\ told[t] \in Seq(News)
  BY DEF TypeOK
<1>2. ASSUME NEW t \in Transfers, Interface(t)
      PROVE  /\ row' \in [Transfers -> Rows] /\ read' \in [Transfers -> Nat]
             /\ \A u \in Transfers : Followed(u)
  <2>1. read[t] \in Nat /\ read[t] < Len(told[t]) /\ told' = told
        /\ read' = [read EXCEPT ![t] = read[t] + 1]
    BY <1>2 DEF Interface, Add, Advance, FinishRow, Hear, vars, RowsFollow
  <2>2. Heard(t) \in News
    BY <1>1, <2>1 DEF Heard
  <2>3. \/ row' = row /\ row[t] = "absent"
        \/ row' = [row EXCEPT ![t] = Says(Heard(t))]
    BY <1>2 DEF Interface, Add, Advance, FinishRow, Touch, Says, Finished, Settled
  <2>4. Says(Heard(t)) \in Rows
    BY <2>2 DEF Says, News, Rows, Active, Finished, Settled
  <2>5. row' \in [Transfers -> Rows] /\ read' \in [Transfers -> Nat]
    BY <2>1, <2>3, <2>4 DEF RowsFollow
  <2>6. Followed(t)
    BY <1>1, <2>1, <2>3, <2>5 DEF RowsFollow, Heard
  <2>7. ASSUME NEW u \in Transfers \ {t}
        PROVE  Followed(u)
    <3>1. row'[u] = row[u] /\ read'[u] = read[u]
      BY <2>1, <2>3 DEF RowsFollow
    <3> QED BY <2>1, <3>1 DEF RowsFollow
  <2> QED BY <2>5, <2>6, <2>7
<1>3. ASSUME ClearFinished
      PROVE  /\ row' \in [Transfers -> Rows] /\ read' \in [Transfers -> Nat]
             /\ \A u \in Transfers : Followed(u)
  <2>1. told' = told /\ read' = read
        /\ row' = [t \in Transfers |-> IF row[t] \in Finished THEN "absent" ELSE row[t]]
    BY <1>3 DEF ClearFinished, vars
  <2>2. row' \in [Transfers -> Rows]
    BY <2>1 DEF RowsFollow, Rows
  <2> QED BY <2>1, <2>2 DEF RowsFollow
<1>4. ASSUME UNCHANGED <<row, read>>
      PROVE  /\ row' \in [Transfers -> Rows] /\ read' \in [Transfers -> Nat]
             /\ \A u \in Transfers : Followed(u)
  <2>1. ASSUME NEW u \in Transfers
        PROVE  Followed(u)
    <3>1. /\ Len(told[u]) <= Len(told'[u]) /\ Len(told[u]) \in Nat /\ Len(told'[u]) \in Nat
          /\ \A i \in 1 .. Len(told[u]) : told'[u][i] = told[u][i]
      BY <1>1, NothingIsTakenBack, QueueStepsAreSteps DEF TypeOK
    <3>2. read[u] > 0 => told'[u][read[u]] = told[u][read[u]]
      BY <3>1 DEF RowsFollow
    <3> QED BY <1>4, <3>1, <3>2 DEF RowsFollow
  <2> QED BY <1>4, <2>1 DEF RowsFollow
<1>5. CASE \E t \in Transfers : Engine(t) \/ ClickCancel(t) \/ HandleCancel(t)
  BY <1>4, <1>5 DEF Engine, queue, ClickCancel, HandleCancel
<1>6. CASE \E s \in Sessions : Disconnect(s) /\ UNCHANGED queue
  BY <1>4, <1>6 DEF queue
<1>7. CASE UNCHANGED qvars
  BY <1>4, <1>7 DEF qvars, queue
<1> QED BY <1>2, <1>3, <1>5, <1>6, <1>7 DEF QNext

(* However late the news reach it and whatever was cleared away meanwhile, *)
(* the row of a transfer nobody called off ends by saying what came of it. *)
THEOREM RowsAlwaysTellTheOutcome == QSpec => []RowTellsTheOutcome
<1>1. QSpec => []TypeOK
  BY QueueKeepsTheEngine, Typing, PTL
<1>2. QSpec => [](TypeOK /\ OutcomeKnown)
  BY QueueKeepsTheEngine, TypeInit, TypeStep, PTL DEF Spec
<1>3. QSpec => []OutcomeIsToldLast
  BY <1>2, QueueKeepsTheEngine, ToldLastInit, ToldLastStep, PTL DEF Spec
<1>4. QSpec => []RowsFollow
  BY <1>2, RowsInit, RowsStep, PTL DEF QSpec
<1>5. TypeOK /\ OutcomeIsToldLast /\ RowsFollow => RowTellsTheOutcome
  <2> SUFFICES ASSUME TypeOK, OutcomeIsToldLast, RowsFollow,
                      NEW t \in Transfers \ aborted, Caught(t), phase[t] = "over"
               PROVE  row[t] \in {outcome[t], "absent"}
    BY DEF RowTellsTheOutcome
  <2>1. told[t] # <<>> /\ told[t][Len(told[t])] = outcome[t] /\ told[t] \in Seq(News)
    BY DEF OutcomeIsToldLast, Reported, TypeOK
  <2>2. read[t] = Len(told[t]) /\ read[t] > 0
    BY <2>1 DEF Caught
  <2>3. row[t] \in {"absent", Says(outcome[t])}
    BY <2>1, <2>2 DEF RowsFollow
  <2>4. Says(outcome[t]) = outcome[t]
    BY DEF Says, TypeOK
  <2> QED BY <2>3, <2>4
<1> QED BY <1>2, <1>3, <1>4, <1>5, PTL
=============================================================================
