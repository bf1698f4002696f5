-------------------------- MODULE NavigationProofs --------------------------
(***************************************************************************)
(* What Navigation keeps for any number of commands and folders, and what  *)
(* Screen keeps for any number of uploads and names besides, however much  *)
(* of it is under way at once.                                             *)
(***************************************************************************)
EXTENDS Screen, SequenceTheorems, WellFoundedInduction, TLAPS

-----------------------------------------------------------------------------
(* The types of the variables. *)

THEOREM TypeInit == Init => TypeOK
<1> SUFFICES ASSUME Init
             PROVE  TypeOK
  OBVIOUS
<1>1. news \in Seq(News) /\ asks \in Seq(Calls)
  BY DEF Init
<1>2. token \in [Calls -> 0 .. navigation] /\ navigation \in Nat
  BY DEF Init
<1> QED BY <1>1, <1>2, CallsAssumption DEF Init, TypeOK, Phases

LEMMA TypeStep == TypeOK /\ [Next]_vars => TypeOK'
<1> SUFFICES ASSUME TypeOK, [Next]_vars
             PROVE  TypeOK'
  OBVIOUS
<1> USE DEF TypeOK, Phases, Step, Emit, window, history
<1>1. ASSUME NEW c \in Calls, AskOpen(c)
      PROVE  TypeOK'
  BY <1>1 DEF AskOpen, Ask
<1>2. ASSUME NEW c \in Calls, AskAbout(c)
      PROVE  TypeOK'
  BY <1>2 DEF AskAbout, Ask
<1>3. ASSUME NEW c \in Calls, BeginOpen(c)
      PROVE  TypeOK'
  BY <1>3 DEF BeginOpen
<1>4. ASSUME NEW c \in Calls, BeginRefresh(c)
      PROVE  TypeOK'
  BY <1>4 DEF BeginRefresh, ReadPath
<1>5. ASSUME NEW c \in Calls, BeginChange(c)
      PROVE  TypeOK'
  BY <1>5 DEF BeginChange, ReadPath
<1>6. ASSUME NEW c \in Calls, Changed(c)
      PROVE  TypeOK'
  BY <1>6 DEF Changed, ReadPath
<1>7. ASSUME NEW c \in Calls, Refused(c)
      PROVE  TypeOK'
  BY <1>7 DEF Refused
<1>8. ASSUME NEW c \in Calls, Navigate(c)
      PROVE  TypeOK'
  <2>1. [type |-> "working", on |-> TRUE] \in News
    BY DEF News
  <2> QED BY <1>8, <2>1 DEF Navigate
<1>9. ASSUME NEW c \in Calls, NEW well \in BOOLEAN, Answer(c, well)
      PROVE  TypeOK'
  <2>1. [type |-> "working", on |-> FALSE] \in News
    BY DEF News
  <2> QED BY <1>9, <2>1 DEF Answer
<1>10. ASSUME NEW c \in Calls, Overtaken(c) \/ StillCurrent(c)
       PROVE  TypeOK'
  BY <1>10 DEF Overtaken, StillCurrent
<1>11. ASSUME NEW c \in Calls, MoveTo(c)
       PROVE  TypeOK'
  BY <1>11 DEF MoveTo
<1>12. ASSUME NEW c \in Calls, EmitListing(c)
       PROVE  TypeOK'
  <2>1. [type |-> "listing", folder |-> target[c]] \in News
    BY DEF News
  <2> QED BY <1>12, <2>1 DEF EmitListing
<1>13. CASE HearListing
  <2>1. Head(news) \in News /\ Head(news).type = "listing"
    BY <1>13 DEF HearListing
  <2>2. Head(news).folder \in Folders
    BY <2>1 DEF News
  <2> QED BY <1>13, <2>2 DEF HearListing, engine
<1>14. CASE HearWorking
  <2>1. Head(news) \in News /\ Head(news).type = "working"
    BY <1>14 DEF HearWorking
  <2>2. Head(news).on \in BOOLEAN
    BY <2>1 DEF News
  <2> QED BY <1>14, <2>2 DEF HearWorking, engine
<1>15. CASE UNCHANGED vars
  BY <1>15 DEF vars, engine
<1> QED
  BY <1>1, <1>2, <1>3, <1>4, <1>5, <1>6, <1>7, <1>8, <1>9, <1>10, <1>11, <1>12,
     <1>13, <1>14, <1>15 DEF Next, Task, Hear

(* Every variable keeps its type, and no command holds a token that has    *)
(* not been given out.                                                     *)
THEOREM Typing == Spec => []TypeOK
BY TypeInit, TypeStep, PTL DEF Spec

-----------------------------------------------------------------------------
(* The tokens. *)

LEMMA TokensInit == Init => TokensDiffer
BY DEF Init, TokensDiffer

LEMMA TokensStep == TypeOK /\ TokensDiffer /\ [Next]_vars => TokensDiffer'
<1> SUFFICES ASSUME TypeOK, TokensDiffer, [Next]_vars
             PROVE  TokensDiffer'
  OBVIOUS
<1>1. ASSUME NEW c \in Calls, Navigate(c)
      PROVE  TokensDiffer'
  <2>1. token' = [token EXCEPT ![c] = navigation + 1] /\ navigation \in Nat
        /\ token \in [Calls -> 0 .. navigation]
    BY <1>1 DEF Navigate, TypeOK
  <2>2. \A d \in Calls \ {c} : token'[d] = token[d] /\ token[d] # navigation + 1
    BY <2>1
  <2> QED BY <2>1, <2>2 DEF TokensDiffer
<1>2. CASE UNCHANGED token
  BY <1>2 DEF TokensDiffer
<1> QED
  BY <1>1, <1>2
     DEF Next, vars, engine, Task, Hear, AskOpen, AskAbout, Ask, BeginOpen,
         BeginRefresh, BeginChange, Changed, Refused, Answer, Overtaken,
         StillCurrent, MoveTo, EmitListing, HearListing, HearWorking

(* At most one command can be the one whose answer counts.                 *)
THEOREM TokensAlwaysDiffer == Spec => []TokensDiffer
BY TokensInit, TokensStep, Typing, PTL DEF Spec

(* An answer that came late stays late: tokens are never given back.       *)
LateStaysLate ==
    \A c \in late :
        /\ phase[c] \in {"answered", "over"}
        /\ token[c] < navigation

LEMMA LateInit == Init => LateStaysLate
BY DEF Init, LateStaysLate

LEMMA LateStep == TypeOK /\ LateStaysLate /\ [Next]_vars => LateStaysLate'
<1> SUFFICES ASSUME TypeOK, LateStaysLate, [Next]_vars
             PROVE  LateStaysLate'
  OBVIOUS
<1> USE DEF LateStaysLate, TypeOK, Step
<1>1. ASSUME NEW c \in Calls, Navigate(c)
      PROVE  LateStaysLate'
  <2>1. c \notin late
    BY <1>1 DEF Navigate
  <2> QED BY <1>1, <2>1 DEF Navigate
<1>2. ASSUME NEW c \in Calls, NEW well \in BOOLEAN, Answer(c, well)
      PROVE  LateStaysLate'
  BY <1>2 DEF Answer
<1>3. ASSUME NEW c \in Calls, Overtaken(c) \/ StillCurrent(c)
      PROVE  LateStaysLate'
  <2>1. CASE Overtaken(c)
    BY <2>1 DEF Overtaken, history
  <2>2. CASE StillCurrent(c)
    <3>1. c \notin late
      BY <2>2 DEF StillCurrent, IsCurrent
    <3> QED BY <2>2, <3>1 DEF StillCurrent, history
  <2> QED BY <1>3, <2>1, <2>2
<1>4. ASSUME NEW c \in Calls,
             \/ AskOpen(c) \/ AskAbout(c) \/ BeginOpen(c) \/ BeginRefresh(c)
             \/ BeginChange(c) \/ Changed(c) \/ Refused(c) \/ MoveTo(c)
             \/ EmitListing(c)
      PROVE  LateStaysLate'
  <2>1. c \notin late
    BY <1>4
       DEF AskOpen, AskAbout, Ask, BeginOpen, BeginRefresh, BeginChange, Changed,
           Refused, MoveTo, EmitListing
  <2>2. late' = late /\ token' = token /\ navigation' = navigation
        /\ \A d \in Calls \ {c} : phase'[d] = phase[d]
    BY <1>4
       DEF AskOpen, AskAbout, Ask, BeginOpen, BeginRefresh, BeginChange, Changed,
           Refused, MoveTo, EmitListing, history
  <2> QED BY <2>1, <2>2
<1>5. CASE UNCHANGED <<engine, history>>
  BY <1>5 DEF engine, history
<1> QED
  BY <1>1, <1>2, <1>3, <1>4, <1>5
     DEF Next, Task, Hear, HearListing, HearWorking, vars

(* However many commands race and however late the server answers, an      *)
(* answer to a navigation that was overtaken never moves the connection.   *)
THEOREM LateAnswersAreAlwaysDropped == Spec => []LateAnswersAreDropped
<1>1. Spec => []LateStaysLate
  BY LateInit, LateStep, Typing, PTL DEF Spec
<1>2. LateStaysLate => LateAnswersAreDropped
  BY DEF LateStaysLate, LateAnswersAreDropped
<1> QED BY <1>1, <1>2, PTL

-----------------------------------------------------------------------------
(* The waiting. *)

Waits == \E c \in Calls : phase[c] = "listing"

SaysWaiting(i) == news[i].type = "working" /\ news[i].on

LastWord(i) == \A j \in DOMAIN news : j > i => news[j].type = "listing"

(* When the last that was said of waiting is that the window waits, then   *)
(* there is a listing that has not answered.                               *)
WaitingIsForSomething ==
    /\ \A i \in DOMAIN news : SaysWaiting(i) /\ LastWord(i) => Waits
    /\ busy /\ (\A i \in DOMAIN news : news[i].type = "listing") => Waits

LEMMA WaitingInit == Init => WaitingIsForSomething
BY DEF Init, WaitingIsForSomething

LEMMA EmitGrows ==
    ASSUME TypeOK, NEW event \in News, Emit(event)
    PROVE  /\ Len(news) \in Nat
           /\ DOMAIN news = 1 .. Len(news)
           /\ DOMAIN news' = 1 .. Len(news) + 1
           /\ \A i \in 1 .. Len(news) : news'[i] = news[i]
           /\ news'[Len(news) + 1] = event
<1>1. news \in Seq(News) /\ news' = Append(news, event)
  BY DEF TypeOK, Emit
<1> QED BY <1>1, LenProperties

LEMMA TailShifts ==
    ASSUME TypeOK, news # <<>>, news' = Tail(news)
    PROVE  /\ 1 \in DOMAIN news
           /\ news[1] = Head(news)
           /\ \A i \in DOMAIN news : i \in Nat /\ (i = 1 \/ i > 1)
           /\ \A i \in DOMAIN news' : i \in Nat
           /\ \A i \in DOMAIN news' : i + 1 \in DOMAIN news /\ news'[i] = news[i + 1]
           /\ \A i \in DOMAIN news :
                 i > 1 => i - 1 \in DOMAIN news' /\ news'[i - 1] = news[i]
<1>1. news \in Seq(News)
  BY DEF TypeOK
<1> QED BY <1>1, LenProperties

LEMMA TailSaysTheSame ==
    ASSUME TypeOK, news # <<>>, news' = Tail(news)
    PROVE  /\ \A i \in DOMAIN news' :
                 SaysWaiting(i)' /\ LastWord(i)'
                     => SaysWaiting(i + 1) /\ LastWord(i + 1)
           /\ (\A i \in DOMAIN news' : news'[i].type = "listing") => LastWord(1)
           /\ 1 \in DOMAIN news /\ news[1] = Head(news)
<1>1. ASSUME NEW i \in DOMAIN news', SaysWaiting(i)', LastWord(i)'
      PROVE  SaysWaiting(i + 1) /\ LastWord(i + 1)
  <2>1. SaysWaiting(i + 1)
    BY <1>1, TailShifts DEF SaysWaiting
  <2>2. ASSUME NEW j \in DOMAIN news, j > i + 1
        PROVE  news[j].type = "listing"
    <3>1. i \in Nat /\ j \in Nat
      BY <1>1, <2>2, TailShifts
    <3>2. j > 1 /\ j - 1 > i
      BY <2>2, <3>1
    <3>3. j - 1 \in DOMAIN news' /\ news'[j - 1] = news[j]
      BY <2>2, <3>2, TailShifts
    <3> QED BY <1>1, <3>2, <3>3 DEF LastWord
  <2> QED BY <2>1, <2>2 DEF LastWord
<1>2. (\A i \in DOMAIN news' : news'[i].type = "listing") => LastWord(1)
  BY TailShifts DEF LastWord
<1> QED BY <1>1, <1>2, TailShifts

LEMMA WaitingStep ==
    TypeOK /\ WaitingIsForSomething /\ [Next]_vars => WaitingIsForSomething'
<1> SUFFICES ASSUME TypeOK, WaitingIsForSomething, [Next]_vars
             PROVE  WaitingIsForSomething'
  OBVIOUS
<1> USE DEF Step
<1>1. ASSUME NEW c \in Calls, Navigate(c)
      PROVE  WaitingIsForSomething'
  <2>1. Waits'
    BY <1>1 DEF Navigate, Waits, TypeOK
  <2> QED BY <2>1 DEF WaitingIsForSomething
<1>2. ASSUME NEW c \in Calls, NEW well \in BOOLEAN, Answer(c, well)
      PROVE  WaitingIsForSomething'
  <2> DEFINE off == [type |-> "working", on |-> FALSE]
             last == Len(news) + 1
  <2>1. off \in News /\ off.type = "working" /\ off.on = FALSE
    BY DEF News
  <2>2. Emit(off)
    BY <1>2 DEF Answer
  <2> HIDE DEF off
  <2>3. last \in DOMAIN news' /\ news'[last] = off
        /\ \A i \in DOMAIN news' : i = last \/ last > i
    BY <2>1, <2>2, EmitGrows
  <2> HIDE DEF last
  <2>4. \A i \in DOMAIN news' : ~(SaysWaiting(i)' /\ LastWord(i)')
    BY <2>1, <2>3 DEF SaysWaiting, LastWord
  <2> QED BY <2>1, <2>3, <2>4 DEF WaitingIsForSomething
<1>3. ASSUME NEW c \in Calls, EmitListing(c)
      PROVE  WaitingIsForSomething'
  <2> DEFINE listing == [type |-> "listing", folder |-> target[c]]
  <2>1. listing \in News /\ listing.type = "listing"
    BY DEF TypeOK, News
  <2>2. Emit(listing) /\ busy' = busy
    BY <1>3 DEF EmitListing
  <2>3. Waits => Waits'
    BY <1>3 DEF EmitListing, Waits, TypeOK
  <2> HIDE DEF listing
  <2>4. \A i \in DOMAIN news : i \in DOMAIN news' /\ news'[i] = news[i]
    BY <2>1, <2>2, EmitGrows
  <2>5. \A i \in DOMAIN news' : i \in DOMAIN news \/ news'[i] = listing
    BY <2>1, <2>2, EmitGrows
  <2>6. \A i \in DOMAIN news' :
            SaysWaiting(i)' /\ LastWord(i)'
                => i \in DOMAIN news /\ SaysWaiting(i) /\ LastWord(i)
    BY <2>1, <2>4, <2>5 DEF SaysWaiting, LastWord
  <2> QED BY <2>2, <2>3, <2>4, <2>6 DEF WaitingIsForSomething
<1>4. CASE HearListing
  <2>1. Head(news).type = "listing" /\ busy' = busy /\ phase' = phase
        /\ news # <<>> /\ news' = Tail(news)
    BY <1>4 DEF HearListing, engine
  <2>2. \A i \in DOMAIN news' :
            SaysWaiting(i)' /\ LastWord(i)' => SaysWaiting(i + 1) /\ LastWord(i + 1)
    BY <2>1, TailSaysTheSame
  <2>3. (\A i \in DOMAIN news' : news'[i].type = "listing")
            => \A i \in DOMAIN news : news[i].type = "listing"
    BY <2>1, TailShifts
  <2> QED BY <2>1, <2>2, <2>3, TailShifts DEF WaitingIsForSomething, Waits
<1>5. CASE HearWorking
  <2>1. Head(news).type = "working" /\ busy' = Head(news).on /\ phase' = phase
        /\ news # <<>> /\ news' = Tail(news)
    BY <1>5 DEF HearWorking, engine
  <2>2. \A i \in DOMAIN news' :
            SaysWaiting(i)' /\ LastWord(i)' => SaysWaiting(i + 1) /\ LastWord(i + 1)
    BY <2>1, TailSaysTheSame
  <2>3. busy' /\ (\A i \in DOMAIN news' : news'[i].type = "listing")
            => SaysWaiting(1) /\ LastWord(1)
    BY <2>1, TailSaysTheSame DEF SaysWaiting
  <2> QED BY <2>1, <2>2, <2>3, TailShifts DEF WaitingIsForSomething, Waits
<1>6. ASSUME UNCHANGED <<news, busy>>, Waits => Waits'
      PROVE  WaitingIsForSomething'
  BY <1>6 DEF WaitingIsForSomething, SaysWaiting, LastWord
<1>7. ASSUME NEW c \in Calls,
             \/ AskOpen(c) \/ AskAbout(c) \/ BeginOpen(c) \/ BeginRefresh(c)
             \/ BeginChange(c) \/ Changed(c) \/ Refused(c) \/ Overtaken(c)
             \/ StillCurrent(c) \/ MoveTo(c)
      PROVE  WaitingIsForSomething'
  <2>1. UNCHANGED <<news, busy>> /\ phase[c] # "listing"
        /\ \A d \in Calls \ {c} : phase'[d] = phase[d]
    BY <1>7
       DEF AskOpen, AskAbout, Ask, BeginOpen, BeginRefresh, BeginChange, Changed,
           Refused, Overtaken, StillCurrent, MoveTo, window, TypeOK
  <2>2. Waits => Waits'
    BY <2>1 DEF Waits
  <2> QED BY <1>6, <2>1, <2>2
<1>8. CASE UNCHANGED vars
  BY <1>6, <1>8 DEF vars, engine, window, Waits
<1> QED
  BY <1>1, <1>2, <1>3, <1>4, <1>5, <1>7, <1>8 DEF Next, Task, Hear

(* However many listings overlap, the window does not go on waiting once   *)
(* all of them have answered and it has heard of it.                       *)
THEOREM WaitingAlwaysEnds == Spec => []WaitingEnds
<1>1. Spec => []WaitingIsForSomething
  BY WaitingInit, WaitingStep, Typing, PTL DEF Spec
<1>2. WaitingIsForSomething => WaitingEnds
  BY DEF WaitingIsForSomething, WaitingEnds, Quiet, Waits, Live
<1> QED BY <1>1, <1>2, PTL

-----------------------------------------------------------------------------
(* Where an orderly connection ends. *)

(* Of the first n commands asked for (as), the last that names a folder    *)
(* names f; while none does, f is where the connection began.              *)
WantedAfter(k, as, tg, f, n) ==
    \/ \E i \in 1 .. n :
          /\ k[as[i]] = "open" /\ tg[as[i]] = f
          /\ \A j \in i + 1 .. n : k[as[j]] # "open"
    \/ f = Root /\ \A j \in 1 .. n : k[as[j]] # "open"

AskedOnce == \A i, j \in DOMAIN asks : asks[i] = asks[j] => i = j

AskedWereSent == \A c \in Calls : phase[c] # "idle" <=> \E i \in DOMAIN asks : asks[i] = c

TokensByPhase ==
    \A c \in Calls :
        /\ phase[c] \in {"idle", "sent", "acting", "going"} => token[c] = 0
        /\ phase[c] \in {"listing", "answered", "current", "moved"} => token[c] > 0
        /\ phase[c] = "over" => token[c] > 0 \/ c \in refused

NewestIsHeld == navigation > 0 => \E c \in Calls : token[c] = navigation

WantedIsLast == WantedAfter(kind, asks, target, wanted, Len(asks))

AsksInv ==
    AskedOnce /\ AskedWereSent /\ TokensByPhase /\ NewestIsHeld /\ WantedIsLast

LEMMA AsksInit == Init => AsksInv
BY DEF Init, AsksInv, AskedOnce, AskedWereSent, TokensByPhase, NewestIsHeld,
       WantedIsLast, WantedAfter

(* What was wanted by then does not change with what comes later. *)
LEMMA Stretches ==
    ASSUME NEW n \in Nat, NEW i \in 1 .. n
    PROVE  /\ i + 1 .. n \subseteq 1 .. n
           /\ i \in 1 .. n + 1 /\ n \in 1 .. n
           /\ i + 1 .. n + 1 = (i + 1 .. n) \cup {n + 1}
           /\ \A j \in 1 .. n : j \in i + 1 .. n \/ i \in j + 1 .. n \/ i = j
OBVIOUS

LEMMA Steps ==
    ASSUME NEW n \in Nat
    PROVE  /\ n + 1 .. n = {}
           /\ 1 .. n + 1 = (1 .. n) \cup {n + 1}
           /\ n > 0 => n \in 1 .. n
OBVIOUS

LEMMA WantedStays ==
    ASSUME NEW k, NEW as, NEW tg, NEW as2, NEW tg2, NEW f, NEW n \in Nat,
           \A i \in 1 .. n : as2[i] = as[i] /\ (k[as[i]] = "open" => tg2[as[i]] = tg[as[i]]),
           WantedAfter(k, as, tg, f, n)
    PROVE  WantedAfter(k, as2, tg2, f, n)
<1>1. ASSUME NEW i \in 1 .. n, k[as[i]] = "open", tg[as[i]] = f,
             \A j \in i + 1 .. n : k[as[j]] # "open"
      PROVE  WantedAfter(k, as2, tg2, f, n)
  <2>1. k[as2[i]] = "open" /\ tg2[as2[i]] = f
    BY <1>1
  <2>2. \A j \in i + 1 .. n : k[as2[j]] # "open"
    BY <1>1, Stretches, Zenon
  <2> QED BY <2>1, <2>2 DEF WantedAfter
<1>2. CASE f = Root /\ \A j \in 1 .. n : k[as[j]] # "open"
  BY <1>2 DEF WantedAfter
<1> QED BY <1>1, <1>2 DEF WantedAfter

(* A command that names no folder wants what was wanted before it. *)
LEMMA WantedOn ==
    ASSUME NEW k, NEW as, NEW tg, NEW f, NEW n \in Nat, k[as[n + 1]] # "open",
           WantedAfter(k, as, tg, f, n)
    PROVE  WantedAfter(k, as, tg, f, n + 1)
<1>1. ASSUME NEW i \in 1 .. n, k[as[i]] = "open", tg[as[i]] = f,
             \A j \in i + 1 .. n : k[as[j]] # "open"
      PROVE  WantedAfter(k, as, tg, f, n + 1)
  <2>0. i + 1 .. n + 1 = (i + 1 .. n) \cup {n + 1}
    BY Stretches
  <2>1. \A j \in i + 1 .. n + 1 : k[as[j]] # "open"
    BY <1>1, <2>0, Zenon
  <2>2. i \in 1 .. n + 1
    BY Stretches
  <2> QED BY <1>1, <2>1, <2>2 DEF WantedAfter
<1>2. CASE f = Root /\ \A j \in 1 .. n : k[as[j]] # "open"
  <2>1. \A j \in 1 .. n + 1 : k[as[j]] # "open"
    BY <1>2, Steps, Zenon
  <2> QED BY <1>2, <2>1 DEF WantedAfter
<1> QED BY <1>1, <1>2 DEF WantedAfter

LEMMA WantedNow ==
    ASSUME NEW k, NEW as, NEW tg, NEW f, NEW n \in Nat, n > 0,
           k[as[n]] = "open", tg[as[n]] = f
    PROVE  WantedAfter(k, as, tg, f, n)
<1>1. n \in 1 .. n /\ \A j \in n + 1 .. n : k[as[j]] # "open"
  BY Steps, Zenon
<1> QED BY <1>1 DEF WantedAfter

LEMMA WantedIsOne ==
    ASSUME NEW k, NEW as, NEW tg, NEW f, NEW g, NEW n \in Nat,
           WantedAfter(k, as, tg, f, n), WantedAfter(k, as, tg, g, n)
    PROVE  f = g
<1> DEFINE Last(i, h) == /\ k[as[i]] = "open" /\ tg[as[i]] = h
                         /\ \A j \in i + 1 .. n : k[as[j]] # "open"
<1>1. ASSUME NEW i \in 1 .. n, NEW j \in 1 .. n, Last(i, f), Last(j, g)
      PROVE  f = g
  <2>1. i = j
    BY <1>1, Stretches, Zenon
  <2> QED BY <1>1, <2>1
<1>2. ASSUME NEW i \in 1 .. n, k[as[i]] = "open", \A j \in 1 .. n : k[as[j]] # "open"
      PROVE  FALSE
  BY <1>2
<1> QED BY <1>1, <1>2 DEF WantedAfter

LEMMA AskGrows ==
    ASSUME TypeOK, NEW c \in Calls, asks' = Append(asks, c)
    PROVE  /\ Len(asks) \in Nat /\ Len(asks') = Len(asks) + 1
           /\ DOMAIN asks = 1 .. Len(asks) /\ DOMAIN asks' = 1 .. Len(asks) + 1
           /\ \A i \in 1 .. Len(asks) : asks'[i] = asks[i] /\ asks[i] \in Calls
           /\ asks'[Len(asks) + 1] = c
<1>1. asks \in Seq(Calls)
  BY DEF TypeOK
<1> QED BY <1>1, LenProperties

LEMMA AskStep ==
    ASSUME TypeOK, AsksInv, NEW c \in Calls, AskOpen(c) \/ AskAbout(c)
    PROVE  /\ AsksInv'
           /\ phase[c] = "idle" /\ token[c] = 0
           /\ asks' = Append(asks, c)
           /\ \A i \in 1 .. Len(asks) : asks[i] # c
           /\ phase' = [phase EXCEPT ![c] = "sent"]
           /\ UNCHANGED <<kind, path, navigation, token, news, shown, orderly, refused>>
           /\ \A d \in Calls \ {c} : target'[d] = target[d]
<1> USE DEF AsksInv
<1>1. /\ phase[c] = "idle" /\ asks' = Append(asks, c)
      /\ phase' = [phase EXCEPT ![c] = "sent"]
      /\ UNCHANGED <<kind, path, navigation, token, news, shown, orderly, refused>>
      /\ \A d \in Calls \ {c} : target'[d] = target[d]
  BY DEF AskOpen, AskAbout, Ask, Step, window, TypeOK
<1>2. token[c] = 0
  BY <1>1 DEF TokensByPhase
<1>3. \A i \in 1 .. Len(asks) : asks[i] # c
  BY <1>1, AskGrows DEF AskedWereSent
<1>4. AskedOnce'
  BY <1>1, <1>3, AskGrows DEF AskedOnce
<1>5. AskedWereSent'
  <2> SUFFICES ASSUME NEW d \in Calls
               PROVE  phase'[d] # "idle" <=> \E i \in DOMAIN asks' : asks'[i] = d
    BY DEF AskedWereSent
  <2>1. CASE d = c
    BY <1>1, <2>1, AskGrows DEF TypeOK
  <2>2. CASE d # c
    <3>1. phase'[d] = phase[d]
      BY <1>1, <2>2 DEF TypeOK
    <3>2. (\E i \in DOMAIN asks' : asks'[i] = d) <=> (\E i \in DOMAIN asks : asks[i] = d)
      BY <1>1, <2>2, AskGrows
    <3> QED BY <3>1, <3>2 DEF AskedWereSent
  <2> QED BY <2>1, <2>2
<1>6. TokensByPhase' /\ NewestIsHeld'
  BY <1>1, <1>2 DEF TokensByPhase, NewestIsHeld, TypeOK
<1>7. WantedIsLast'
  <2>1. \A i \in 1 .. Len(asks) : asks'[i] = asks[i] /\ target'[asks[i]] = target[asks[i]]
    BY <1>1, <1>3, AskGrows
  <2>2. CASE AskOpen(c)
    <3>1. kind[c] = "open" /\ target'[c] = wanted'
      BY <2>2 DEF AskOpen, TypeOK
    <3>2. Len(asks) + 1 \in Nat /\ Len(asks) + 1 > 0 /\ asks'[Len(asks) + 1] = c
      BY <1>1, AskGrows
    <3>3. WantedAfter(kind, asks', target', wanted', Len(asks) + 1)
      BY <3>1, <3>2, WantedNow
    <3> QED BY <1>1, <3>3, AskGrows DEF WantedIsLast
  <2>3. CASE AskAbout(c)
    <3>1. kind[c] # "open" /\ wanted' = wanted
      BY <2>3 DEF AskAbout
    <3>2. WantedAfter(kind, asks', target', wanted, Len(asks))
      BY <1>1, <2>1, AskGrows, WantedStays DEF WantedIsLast
    <3>3. WantedAfter(kind, asks', target', wanted, Len(asks) + 1)
      BY <1>1, <3>1, <3>2, AskGrows, WantedOn
    <3> QED BY <1>1, <3>1, <3>3, AskGrows DEF WantedIsLast
  <2> QED BY <2>2, <2>3
<1> QED BY <1>1, <1>2, <1>3, <1>4, <1>5, <1>6, <1>7

(* Nothing that names a folder changes the folder it named. *)
LEMMA OpensKeepTheirFolder ==
    ASSUME TypeOK, NEW c \in Calls, Task(c), NEW d \in Calls, kind[d] = "open"
    PROVE  target'[d] = target[d]
BY DEF Task, BeginOpen, BeginRefresh, BeginChange, Changed, Refused, Navigate, Answer,
       Overtaken, StillCurrent, MoveTo, EmitListing, ReadPath, Step, TypeOK

LEMMA AsksStep == TypeOK /\ AsksInv /\ [Next]_vars => AsksInv'
<1> SUFFICES ASSUME TypeOK, AsksInv, [Next]_vars
             PROVE  AsksInv'
  OBVIOUS
<1>1. ASSUME NEW c \in Calls, AskOpen(c) \/ AskAbout(c)
      PROVE  AsksInv'
  BY <1>1, AskStep
<1> USE DEF AsksInv
<1>2. ASSUME NEW c \in Calls, Task(c)
      PROVE  AsksInv'
  <2>1. /\ asks' = asks /\ wanted' = wanted /\ kind' = kind
        /\ phase[c] # "idle" /\ phase'[c] # "idle"
        /\ \A d \in Calls \ {c} : phase'[d] = phase[d] /\ token'[d] = token[d]
        /\ refused \subseteq refused'
    BY <1>2
       DEF Task, BeginOpen, BeginRefresh, BeginChange, Changed, Refused, Navigate, Answer,
           Overtaken, StillCurrent, MoveTo, EmitListing, Step, history, TypeOK
  <2>2. AskedOnce' /\ AskedWereSent'
    BY <2>1 DEF AskedOnce, AskedWereSent
  <2>3. WantedIsLast'
    <3>1. Len(asks) \in Nat /\ \A i \in 1 .. Len(asks) : asks[i] \in Calls
      BY DEF TypeOK
    <3>2. \A i \in 1 .. Len(asks) : kind[asks[i]] = "open" => target'[asks[i]] = target[asks[i]]
      BY <1>2, <3>1, OpensKeepTheirFolder
    <3> QED BY <2>1, <3>1, <3>2, WantedStays DEF WantedIsLast
  <2>4. CASE Navigate(c)
    <3>1. /\ navigation \in Nat /\ navigation' = navigation + 1 /\ token'[c] = navigation + 1
          /\ phase'[c] = "listing" /\ refused' = refused
      BY <2>4 DEF Navigate, Step, TypeOK
    <3>2. TokensByPhase'
      BY <2>1, <3>1 DEF TokensByPhase
    <3> QED BY <2>2, <2>3, <3>1, <3>2 DEF NewestIsHeld
  <2>5. CASE ~Navigate(c)
    <3>1. token' = token /\ navigation' = navigation
      BY <1>2, <2>5
         DEF Task, BeginOpen, BeginRefresh, BeginChange, Changed, Refused, Answer,
             Overtaken, StillCurrent, MoveTo, EmitListing, history
    <3>2. \/ phase[c] \in {"sent", "acting"} /\ phase'[c] \in {"acting", "going"}
          \/ phase[c] = "acting" /\ phase'[c] = "over" /\ c \in refused'
          \/ /\ phase[c] \in {"listing", "answered", "current", "moved"}
             /\ phase'[c] \in {"listing", "answered", "current", "moved", "over"}
      BY <1>2, <2>5
         DEF Task, BeginOpen, BeginRefresh, BeginChange, Changed, Refused, Answer,
             Overtaken, StillCurrent, MoveTo, EmitListing, Step, TypeOK
    <3> QED BY <2>1, <2>2, <2>3, <3>1, <3>2 DEF TokensByPhase, NewestIsHeld
  <2> QED BY <2>2, <2>3, <2>4, <2>5
<1>3. CASE UNCHANGED <<engine, history>>
  BY <1>3 DEF engine, history, AskedOnce, AskedWereSent, TokensByPhase, NewestIsHeld,
              WantedIsLast
<1> QED
  BY <1>1, <1>2, <1>3 DEF Next, Hear, HearListing, HearWorking, vars

(* Nobody got in anybody's way and nothing was refused. *)
Kept == orderly /\ refused = {}

(* The command has read which folder it is to list, for the last time. *)
HasRead(c) ==
    /\ kind[c] # "open" /\ phase[c] # "sent"
    /\ ~(kind[c] = "create" /\ phase[c] = "acting")

(* One that was asked for later has set out already. *)
TooLate(p) == \E j \in DOMAIN asks : j > p /\ token[asks[j]] > 0

TokensInOrder ==
    \A i, j \in DOMAIN asks :
        i < j /\ token[asks[i]] > 0 /\ token[asks[j]] > 0 => token[asks[i]] < token[asks[j]]

TargetIsWanted(p) ==
    \/ token[asks[p]] = 0 /\ TooLate(p)
    \/ WantedAfter(kind, asks, target, target[asks[p]], p)

TargetsAreWanted == \A p \in DOMAIN asks : HasRead(asks[p]) => TargetIsWanted(p)

NewestMoves == \A c \in Calls : phase[c] \in {"current", "moved"} => token[c] = navigation

PathIsNewest ==
    /\ navigation = 0 => path = Root
    /\ \A c \in Calls :
          token[c] > 0 /\ token[c] = navigation /\ phase[c] \in {"moved", "over"}
              => path = target[c]

LastListing(i) ==
    news[i].type = "listing" /\ \A j \in DOMAIN news : j > i => news[j].type # "listing"

WindowFollows ==
    /\ \A i \in DOMAIN news : LastListing(i) => news[i].folder = path
    /\ (\A i \in DOMAIN news : news[i].type # "listing") => shown = path

(* As long as everything is kept: tokens are taken in the order of asking, *)
(* every command lists the folder wanted when it was asked for, unless it  *)
(* is too late to be orderly; the folder of the newest is the connection's *)
(* once it has moved, and the last the window will hear of.                *)
OrderlyInv ==
    Kept =>
        /\ TokensInOrder
        /\ TargetsAreWanted
        /\ NewestMoves
        /\ PathIsNewest
        /\ (\A c \in Calls : phase[c] # "moved") => WindowFollows

LEMMA OrderlyInit == Init => OrderlyInv
<1> SUFFICES ASSUME Init
             PROVE  OrderlyInv
  OBVIOUS
<1>1. asks = <<>> /\ news = <<>> /\ path = Root /\ shown = Root /\ navigation = 0
      /\ phase = [c \in Calls |-> "idle"] /\ token = [c \in Calls |-> 0]
  BY DEF Init
<1>2. DOMAIN asks = {} /\ DOMAIN news = {}
  BY <1>1
<1>3. TokensInOrder /\ TargetsAreWanted /\ WindowFollows
  BY <1>1, <1>2 DEF TokensInOrder, TargetsAreWanted, WindowFollows
<1> QED BY <1>1, <1>3 DEF OrderlyInv, NewestMoves, PathIsNewest

(* What the steps of a task do, as far as all of them do the same. *)
LEMMA TaskFrame ==
    ASSUME TypeOK, NEW c \in Calls, Task(c)
    PROVE  /\ asks' = asks /\ kind' = kind /\ wanted' = wanted /\ shown' = shown
           /\ \A d \in Calls \ {c} : /\ phase'[d] = phase[d] /\ token'[d] = token[d]
                                     /\ target'[d] = target[d]
           /\ navigation \in Nat /\ navigation' \in Nat
           /\ orderly' => orderly
           /\ refused \subseteq refused'
BY DEF Task, BeginOpen, BeginRefresh, BeginChange, Changed, Refused, Navigate, Answer,
       Overtaken, StillCurrent, MoveTo, EmitListing, ReadPath, Step, history, window, TypeOK

LEMMA KeptBefore == TypeOK /\ [Next]_vars /\ Kept' => Kept
<1> SUFFICES ASSUME TypeOK, [Next]_vars, Kept'
             PROVE  Kept
  OBVIOUS
<1>1. ASSUME NEW c \in Calls, Task(c)
      PROVE  Kept
  BY <1>1, TaskFrame DEF Kept
<1>2. ASSUME NEW c \in Calls, AskOpen(c) \/ AskAbout(c)
      PROVE  Kept
  BY <1>2 DEF AskOpen, AskAbout, Ask, Kept
<1>3. CASE UNCHANGED history
  BY <1>3 DEF history, Kept
<1> QED BY <1>1, <1>2, <1>3 DEF Next, Hear, HearListing, HearWorking, vars

LEMMA AskedTypes ==
    ASSUME TypeOK
    PROVE  /\ Len(asks) \in Nat /\ DOMAIN asks = 1 .. Len(asks)
           /\ \A i \in DOMAIN asks : i \in Nat /\ asks[i] \in Calls
           /\ \A d \in Calls : token[d] \in Nat /\ token[d] <= navigation
BY DEF TypeOK

(* Only Navigate gives a token. *)
LEMMA OnlyNavigateGives ==
    ASSUME TypeOK, NEW c \in Calls, Task(c), ~Navigate(c)
    PROVE  token' = token /\ navigation' = navigation
BY DEF Task, BeginOpen, BeginRefresh, BeginChange, Changed, Refused, Answer,
       Overtaken, StillCurrent, MoveTo, EmitListing, history

LEMMA NavigateInOrder ==
    ASSUME TypeOK, AsksInv, NEW c \in Calls, Navigate(c), Kept'
    PROVE  /\ navigation' = navigation + 1 /\ token'[c] = navigation + 1
           /\ token[c] = 0 /\ phase[c] = "going" /\ phase'[c] = "listing"
           /\ UNCHANGED <<target, path, shown>>
           /\ \A d \in Calls : phase[d] \notin {"current", "moved"}
           /\ \A i, j \in DOMAIN asks : asks[i] = c /\ token[asks[j]] > 0 => j < i
<1>1. /\ navigation' = navigation + 1 /\ token'[c] = navigation + 1 /\ phase[c] = "going"
      /\ phase'[c] = "listing" /\ UNCHANGED <<target, path, shown>>
  BY DEF Navigate, Step, TypeOK
<1>2. token[c] = 0
  BY <1>1 DEF AsksInv, TokensByPhase
<1>3. \A d \in Calls \ {c} :
          phase[d] \notin {"current", "moved"} /\ (token[d] > 0 => AskedBefore(d, c))
  BY DEF Navigate, Kept, TypeOK
<1>4. ASSUME NEW i \in DOMAIN asks, NEW j \in DOMAIN asks, asks[i] = c, token[asks[j]] > 0
      PROVE  j < i
  <2>1. asks[j] \in Calls \ {c}
    BY <1>2, <1>4, AskedTypes
  <2>2. PICK k, m \in DOMAIN asks : asks[k] = asks[j] /\ asks[m] = c /\ k < m
    BY <1>3, <1>4, <2>1 DEF AskedBefore
  <2>3. k = j /\ m = i
    BY <1>4, <2>2 DEF AsksInv, AskedOnce
  <2> QED BY <2>2, <2>3
<1> QED BY <1>1, <1>2, <1>3, <1>4

-----------------------------------------------------------------------------
(* Step by step, what OrderlyInv is made of. *)

LEMMA TokensInOrderStep ==
    ASSUME TypeOK, AsksInv, TokensInOrder, Kept', [Next]_vars
    PROVE  TokensInOrder'
<1>1. ASSUME NEW c \in Calls, AskOpen(c) \/ AskAbout(c)
      PROVE  TokensInOrder'
  <2>1. /\ DOMAIN asks' = (DOMAIN asks) \cup {Len(asks) + 1} /\ asks'[Len(asks) + 1] = c
        /\ \A i \in DOMAIN asks : asks'[i] = asks[i] /\ i \in Nat
        /\ token' = token /\ token[c] = 0
    <3>1. asks' = Append(asks, c) /\ token' = token /\ token[c] = 0
      BY <1>1, AskStep
    <3>2. 1 .. Len(asks) + 1 = (1 .. Len(asks)) \cup {Len(asks) + 1}
      BY AskedTypes, Steps
    <3> QED BY <3>1, <3>2, AskGrows, AskedTypes
  <2> QED BY <2>1 DEF TokensInOrder
<1>2. ASSUME NEW c \in Calls, Navigate(c)
      PROVE  TokensInOrder'
  <2>1. Task(c)
    BY <1>2 DEF Task
  <2> SUFFICES ASSUME NEW i \in DOMAIN asks, NEW j \in DOMAIN asks, i < j,
                      token'[asks[i]] > 0, token'[asks[j]] > 0
               PROVE  token'[asks[i]] < token'[asks[j]]
    BY <2>1, TaskFrame DEF TokensInOrder
  <2>2. asks[i] \in Calls /\ asks[j] \in Calls /\ i \in Nat /\ j \in Nat
    BY AskedTypes
  <2>3. CASE asks[j] = c
    <3>1. asks[i] # c
      BY <2>2, <2>3 DEF AsksInv, AskedOnce
    <3>2. token'[asks[i]] <= navigation /\ token'[asks[i]] \in Nat /\ navigation \in Nat
      BY <2>1, <2>2, <3>1, TaskFrame, AskedTypes
    <3> QED BY <1>2, <2>3, <3>2, NavigateInOrder
  <2>4. CASE asks[i] = c
    <3>1. asks[j] # c
      BY <2>2, <2>4 DEF AsksInv, AskedOnce
    <3>2. token[asks[j]] > 0
      BY <2>1, <2>2, <3>1, TaskFrame
    <3>3. j < i
      BY <1>2, <2>4, <3>2, NavigateInOrder
    <3> QED BY <2>2, <3>3
  <2>5. CASE asks[i] # c /\ asks[j] # c
    BY <2>1, <2>2, <2>5, TaskFrame DEF TokensInOrder
  <2> QED BY <2>3, <2>4, <2>5
<1>3. ASSUME NEW c \in Calls, Task(c), ~Navigate(c)
      PROVE  TokensInOrder'
  BY <1>3, TaskFrame, OnlyNavigateGives DEF TokensInOrder
<1>4. CASE UNCHANGED <<asks, token>>
  BY <1>4 DEF TokensInOrder
<1> QED
  BY <1>1, <1>2, <1>3, <1>4
     DEF Next, Hear, HearListing, HearWorking, vars, engine, history

(* The folder read by a command that has the connection to itself is the   *)
(* one that is wanted.                                                     *)
LEMMA ReadIsWanted ==
    ASSUME TypeOK, AsksInv, TokensInOrder, TargetsAreWanted, PathIsNewest, Kept,
           NEW q \in DOMAIN asks, kind[asks[q]] # "open", token[asks[q]] = 0,
           phase[asks[q]] # "over",
           \A d \in Calls \ {asks[q]} : ~Live(d)
    PROVE  TooLate(q) \/ WantedAfter(kind, asks, target, path, q)
<1> SUFFICES ASSUME ~TooLate(q)
             PROVE  WantedAfter(kind, asks, target, path, q)
  OBVIOUS
<1> USE AskedTypes
<1> DEFINE n == q - 1
<1>1. q \in Nat /\ q > 0 /\ n \in Nat /\ q = n + 1
      /\ \A i \in 1 .. n : i \in DOMAIN asks /\ asks[i] # asks[q]
  BY DEF AsksInv, AskedOnce
<1>2. \A i \in DOMAIN asks : i # q => phase[asks[i]] = "over" /\ token[asks[i]] > 0
  <2> SUFFICES ASSUME NEW i \in DOMAIN asks, i # q
               PROVE  phase[asks[i]] = "over" /\ token[asks[i]] > 0
    OBVIOUS
  <2>1. asks[i] \in Calls /\ asks[i] # asks[q]
    BY DEF AsksInv, AskedOnce
  <2>2. phase[asks[i]] # "idle" /\ ~Live(asks[i])
    BY <2>1 DEF AsksInv, AskedWereSent
  <2> QED BY <2>1, <2>2 DEF Live, AsksInv, TokensByPhase, Kept
<1>3. \A i \in DOMAIN asks : i # q => i < q
  BY <1>1, <1>2 DEF TooLate
<1> HIDE DEF n
<1>4. WantedAfter(kind, asks, target, path, n)
  <2>1. CASE n = 0
    <3>1. ~(navigation > 0)
      <4> SUFFICES ASSUME navigation > 0
                   PROVE  FALSE
        OBVIOUS
      <4>1. PICK c \in Calls : token[c] = navigation
        BY DEF AsksInv, NewestIsHeld
      <4>2. phase[c] # "idle"
        BY <4>1 DEF AsksInv, TokensByPhase
      <4>3. PICK i \in DOMAIN asks : asks[i] = c
        BY <4>2 DEF AsksInv, AskedWereSent
      <4>4. i # q
        BY <4>1, <4>3
      <4> QED BY <1>1, <1>3, <2>1, <4>4
    <3>2. navigation = 0
      BY <3>1 DEF TypeOK
    <3>3. path = Root /\ 1 .. n = {}
      BY <2>1, <3>2 DEF PathIsNewest
    <3> QED BY <3>3 DEF WantedAfter
  <2>2. CASE n > 0
    <3>1. n \in DOMAIN asks /\ n # q
      BY <1>1, <2>2
    <3>2. phase[asks[n]] = "over" /\ token[asks[n]] > 0 /\ asks[n] \in Calls
      BY <1>2, <3>1
    <3>3. token[asks[n]] = navigation
      <4>1. navigation > 0 /\ navigation \in Nat /\ token[asks[n]] <= navigation
        BY <3>2 DEF TypeOK
      <4>2. PICK c \in Calls : token[c] = navigation
        BY <4>1 DEF AsksInv, NewestIsHeld
      <4>3. phase[c] # "idle"
        BY <4>1, <4>2 DEF AsksInv, TokensByPhase
      <4>4. PICK i \in DOMAIN asks : asks[i] = c
        BY <4>3 DEF AsksInv, AskedWereSent
      <4>5. i # q
        BY <4>1, <4>2, <4>4
      <4>6. i <= n
        BY <1>1, <1>3, <4>5
      <4>7. ~(i < n)
        BY <3>1, <3>2, <4>1, <4>2, <4>4 DEF TokensInOrder
      <4>8. i = n
        BY <1>1, <4>6, <4>7
      <4> QED BY <4>2, <4>4, <4>8
    <3>4. path = target[asks[n]]
      BY <3>2, <3>3 DEF PathIsNewest
    <3>5. CASE kind[asks[n]] = "open"
      BY <1>1, <2>2, <3>4, <3>5, WantedNow
    <3>6. CASE kind[asks[n]] # "open"
      <4>1. HasRead(asks[n])
        BY <3>2, <3>6 DEF HasRead
      <4>2. TargetIsWanted(n)
        BY <3>1, <4>1 DEF TargetsAreWanted
      <4> QED BY <3>2, <3>4, <4>2 DEF TargetIsWanted
    <3> QED BY <3>5, <3>6
  <2> QED BY <1>1, <2>1, <2>2
<1>5. kind[asks[n + 1]] # "open"
  BY <1>1
<1>6. WantedAfter(kind, asks, target, path, n + 1)
  BY <1>1, <1>4, <1>5, WantedOn
<1> QED BY <1>1, <1>6

LEMMA TargetsStep ==
    ASSUME TypeOK, AsksInv, TokensInOrder, TargetsAreWanted, PathIsNewest,
           Kept, Kept', [Next]_vars
    PROVE  TargetsAreWanted'
<1> USE AskedTypes
(* What is kept is kept, where neither the folder nor the command's part   *)
(* in it has changed.                                                      *)
<1>1. ASSUME NEW p \in DOMAIN asks, p \in DOMAIN asks', kind' = kind,
             \A i \in DOMAIN asks : i \in DOMAIN asks' /\ asks'[i] = asks[i],
             \A i \in DOMAIN asks : token[asks[i]] > 0 => token'[asks[i]] > 0,
             \A i \in 1 .. p : kind[asks[i]] = "open" => target'[asks[i]] = target[asks[i]],
             target'[asks[p]] = target[asks[p]], token'[asks[p]] = token[asks[p]],
             TargetIsWanted(p)
      PROVE  TargetIsWanted(p)'
  <2>1. TooLate(p) => TooLate(p)'
    BY <1>1 DEF TooLate
  <2>2. \A i \in 1 .. p : i \in DOMAIN asks
    OBVIOUS
  <2>3. p \in Nat /\ \A i \in 1 .. p : asks'[i] = asks[i]
    BY <1>1, <2>2
  <2>4. WantedAfter(kind, asks, target, target[asks[p]], p)
            => WantedAfter(kind, asks', target', target[asks[p]], p)
    BY <1>1, <2>3, WantedStays
  <2> QED BY <1>1, <2>1, <2>4 DEF TargetIsWanted
<1>2. ASSUME NEW c \in Calls, AskOpen(c) \/ AskAbout(c)
      PROVE  TargetsAreWanted'
  <2> SUFFICES ASSUME NEW p \in DOMAIN asks', HasRead(asks[p])'
               PROVE  TargetIsWanted(p)'
    BY DEF TargetsAreWanted
  <2>1. /\ asks' = Append(asks, c) /\ kind' = kind /\ token' = token
        /\ phase' = [phase EXCEPT ![c] = "sent"]
        /\ \A i \in 1 .. Len(asks) : asks[i] # c
        /\ \A d \in Calls \ {c} : target'[d] = target[d]
    BY <1>2, AskStep
  <2>2. p # Len(asks) + 1
    <3>1. phase'[c] = "sent"
      BY <2>1 DEF TypeOK
    <3> QED BY <2>1, <3>1, AskGrows DEF HasRead
  <2>3. p \in DOMAIN asks /\ asks'[p] = asks[p] /\ asks[p] \in Calls \ {c}
    BY <2>1, <2>2, AskGrows
  <2>4. phase'[asks[p]] = phase[asks[p]]
    BY <2>1, <2>3 DEF TypeOK
  <2>5. TargetIsWanted(p)
    BY <2>1, <2>3, <2>4 DEF HasRead, TargetsAreWanted
  <2>6. \A i \in DOMAIN asks : i \in DOMAIN asks' /\ asks'[i] = asks[i]
                               /\ target'[asks[i]] = target[asks[i]]
    BY <2>1, AskGrows
  <2>7. \A i \in 1 .. p : i \in DOMAIN asks
    BY <2>3
  <2> QED BY <1>1, <2>1, <2>3, <2>5, <2>6, <2>7
<1>3. ASSUME NEW c \in Calls, Task(c),
             kind[c] # "open" /\ HasRead(c)' => HasRead(c),
             target'[c] = target[c], token'[c] = token[c]
      PROVE  TargetsAreWanted'
  <2> SUFFICES ASSUME NEW p \in DOMAIN asks, HasRead(asks[p])'
               PROVE  TargetIsWanted(p)'
    BY <1>3, TaskFrame DEF TargetsAreWanted
  <2>1. /\ asks' = asks /\ kind' = kind /\ asks[p] \in Calls
        /\ \A d \in Calls : target'[d] = target[d] /\ token'[d] = token[d]
        /\ \A d \in Calls \ {c} : phase'[d] = phase[d]
    BY <1>3, TaskFrame
  <2>2. HasRead(asks[p])
    BY <1>3, <2>1 DEF HasRead
  <2>3. \A i \in 1 .. p : i \in DOMAIN asks
    OBVIOUS
  <2> QED BY <1>1, <2>1, <2>2, <2>3 DEF TargetsAreWanted
<1>4. ASSUME NEW c \in Calls, Navigate(c)
      PROVE  TargetsAreWanted'
  <2>1. Task(c)
    BY <1>4 DEF Task
  <2> SUFFICES ASSUME NEW p \in DOMAIN asks, HasRead(asks[p])'
               PROVE  TargetIsWanted(p)'
    BY <2>1, TaskFrame DEF TargetsAreWanted
  <2>2. /\ asks' = asks /\ kind' = kind /\ asks[p] \in Calls /\ target' = target
        /\ \A d \in Calls \ {c} : phase'[d] = phase[d] /\ token'[d] = token[d]
        /\ token'[c] = navigation + 1 /\ navigation \in Nat /\ phase[c] = "going" /\ token[c] = 0
    BY <1>4, <2>1, TaskFrame, NavigateInOrder
  <2>3. \A i \in DOMAIN asks : token[asks[i]] > 0 => token'[asks[i]] > 0
    BY <2>2
  <2>4. HasRead(asks[p])
    BY <2>2 DEF HasRead
  <2>5. TargetIsWanted(p)
    BY <2>4 DEF TargetsAreWanted
  <2>6. \A i \in 1 .. p : i \in DOMAIN asks
    OBVIOUS
  <2>7. CASE asks[p] # c
    BY <1>1, <2>2, <2>3, <2>5, <2>7
  <2>8. CASE asks[p] = c
    <3>1. ~TooLate(p)
      <4> SUFFICES ASSUME NEW j \in DOMAIN asks, j > p, token[asks[j]] > 0
                   PROVE  FALSE
        BY DEF TooLate
      <4>1. j < p /\ j \in Nat /\ p \in Nat
        BY <1>4, <2>8, NavigateInOrder
      <4> QED BY <4>1
    <3>2. WantedAfter(kind, asks, target, target[asks[p]], p)
      BY <2>5, <3>1 DEF TargetIsWanted
    <3> QED BY <2>2, <3>2 DEF TargetIsWanted
  <2> QED BY <2>7, <2>8
<1>5. ASSUME NEW c \in Calls, Task(c), ReadPath(c),
             kind[c] # "open", phase[c] \in {"sent", "acting"},
             UNCHANGED <<token, path>>
      PROVE  TargetsAreWanted'
  <2> SUFFICES ASSUME NEW p \in DOMAIN asks, HasRead(asks[p])'
               PROVE  TargetIsWanted(p)'
    BY <1>5, TaskFrame DEF TargetsAreWanted
  <2>1. /\ asks' = asks /\ kind' = kind /\ asks[p] \in Calls /\ target'[c] = path
        /\ \A d \in Calls \ {c} : phase'[d] = phase[d] /\ target'[d] = target[d] /\ ~Live(d)
    BY <1>5, TaskFrame DEF ReadPath, Kept, TypeOK
  <2>2. \A i \in 1 .. p : i \in DOMAIN asks
    OBVIOUS
  <2>3. \A i \in 1 .. p : kind[asks[i]] = "open" => target'[asks[i]] = target[asks[i]]
    BY <1>5, <2>1, <2>2
  <2>4. CASE asks[p] # c
    <3>1. TargetIsWanted(p)
      BY <2>1, <2>4 DEF HasRead, TargetsAreWanted
    <3> QED BY <1>1, <1>5, <2>1, <2>3, <2>4, <3>1
  <2>5. CASE asks[p] = c
    <3>1. token[c] = 0
      BY <1>5 DEF AsksInv, TokensByPhase
    <3>2. TooLate(p) \/ WantedAfter(kind, asks, target, path, p)
      BY <1>5, <2>1, <2>5, <3>1, ReadIsWanted
    <3>3. TooLate(p) => TooLate(p)'
      BY <1>5, <2>1 DEF TooLate
    <3>4. p \in Nat
      OBVIOUS
    <3>5. WantedAfter(kind, asks, target, path, p)
              => WantedAfter(kind, asks, target', path, p)
      BY <2>3, <3>4, WantedStays
    <3> QED BY <1>5, <2>1, <2>5, <3>1, <3>2, <3>3, <3>5 DEF TargetIsWanted
  <2> QED BY <2>4, <2>5
<1>6. ASSUME NEW c \in Calls, BeginRefresh(c) \/ BeginChange(c)
                              \/ (Changed(c) /\ kind[c] = "create")
      PROVE  TargetsAreWanted'
  <2>1. Task(c) /\ ReadPath(c) /\ kind[c] # "open" /\ phase[c] \in {"sent", "acting"}
        /\ UNCHANGED <<token, path>>
    BY <1>6 DEF Task, BeginRefresh, BeginChange, Changed
  <2> QED BY <1>5, <2>1
<1>7. ASSUME NEW c \in Calls,
             \/ BeginOpen(c) \/ (Changed(c) /\ kind[c] # "create") \/ Refused(c)
             \/ (\E well \in BOOLEAN : Answer(c, well))
             \/ Overtaken(c) \/ StillCurrent(c) \/ MoveTo(c) \/ EmitListing(c)
      PROVE  TargetsAreWanted'
  <2>1. Task(c) /\ token' = token /\ target' = target
    BY <1>7 DEF Task, BeginOpen, Changed, Refused, Answer, Overtaken, StillCurrent,
                MoveTo, EmitListing, history
  <2>2. kind[c] # "open" /\ HasRead(c)' => HasRead(c)
    BY <1>7 DEF BeginOpen, Changed, Refused, Answer, Overtaken, StillCurrent,
                MoveTo, EmitListing, HasRead, Step, Kept
  <2> QED BY <1>3, <2>1, <2>2
<1>8. CASE UNCHANGED <<engine, history>>
  BY <1>8 DEF engine, history, TargetsAreWanted, HasRead, TargetIsWanted, TooLate
<1> QED
  BY <1>2, <1>4, <1>6, <1>7, <1>8
     DEF Next, Task, Hear, HearListing, HearWorking, vars

LEMMA NewestMovesStep ==
    ASSUME TypeOK, AsksInv, NewestMoves, Kept', [Next]_vars
    PROVE  NewestMoves'
<1>1. ASSUME NEW c \in Calls, AskOpen(c) \/ AskAbout(c)
      PROVE  NewestMoves'
  BY <1>1, AskStep DEF NewestMoves, TypeOK
<1>2. ASSUME NEW c \in Calls, Navigate(c)
      PROVE  NewestMoves'
  <2>1. Task(c)
    BY <1>2 DEF Task
  <2>2. \A d \in Calls : phase'[d] \notin {"current", "moved"}
    BY <1>2, <2>1, TaskFrame, NavigateInOrder
  <2> QED BY <2>2 DEF NewestMoves
<1>3. ASSUME NEW c \in Calls, Task(c), ~Navigate(c)
      PROVE  NewestMoves'
  <2>1. phase'[c] \in {"current", "moved"} => token[c] = navigation
    BY <1>3
       DEF Task, BeginOpen, BeginRefresh, BeginChange, Changed, Refused, Answer, Overtaken,
           StillCurrent, IsCurrent, MoveTo, EmitListing, Step, TypeOK, NewestMoves
  <2> QED BY <1>3, <2>1, TaskFrame, OnlyNavigateGives DEF NewestMoves
<1>4. CASE UNCHANGED engine
  BY <1>4 DEF engine, NewestMoves
<1> QED BY <1>1, <1>2, <1>3, <1>4 DEF Next, Hear, HearListing, HearWorking, vars

LEMMA PathStep ==
    ASSUME TypeOK, TokensDiffer, AsksInv, NewestMoves, PathIsNewest, Kept, Kept', [Next]_vars
    PROVE  PathIsNewest'
<1>1. ASSUME NEW c \in Calls, AskOpen(c) \/ AskAbout(c)
      PROVE  PathIsNewest'
  BY <1>1, AskStep DEF PathIsNewest, TypeOK
<1>2. ASSUME NEW c \in Calls, Navigate(c)
      PROVE  PathIsNewest'
  <2>1. Task(c)
    BY <1>2 DEF Task
  <2>2. navigation' = navigation + 1 /\ navigation \in Nat /\ phase'[c] = "listing"
        /\ \A d \in Calls \ {c} : token'[d] = token[d] /\ token[d] <= navigation
                                  /\ token[d] \in Nat
    BY <1>2, <2>1, TaskFrame, NavigateInOrder, AskedTypes
  <2> QED BY <2>2 DEF PathIsNewest
<1>3. ASSUME NEW c \in Calls, MoveTo(c)
      PROVE  PathIsNewest'
  <2>1. Task(c) /\ path' = target[c] /\ phase[c] = "current" /\ target' = target
        /\ token' = token /\ navigation' = navigation
    BY <1>3 DEF Task, MoveTo
  <2>2. token[c] = navigation /\ token[c] > 0
    BY <2>1 DEF NewestMoves, AsksInv, TokensByPhase
  <2>3. \A d \in Calls : token[d] > 0 /\ token[d] = navigation => d = c
    BY <2>2 DEF TokensDiffer
  <2> QED BY <2>1, <2>2, <2>3 DEF PathIsNewest
<1>4. ASSUME NEW c \in Calls, BeginRefresh(c) \/ BeginChange(c) \/ Changed(c)
      PROVE  PathIsNewest'
  <2>1. Task(c) /\ path' = path /\ token' = token /\ navigation' = navigation
        /\ phase[c] \in {"sent", "acting"}
    BY <1>4 DEF Task, BeginRefresh, BeginChange, Changed
  <2>2. token[c] = 0
    BY <2>1 DEF AsksInv, TokensByPhase
  <2> QED BY <2>1, <2>2, TaskFrame DEF PathIsNewest
<1>5. ASSUME NEW c \in Calls,
             \/ BeginOpen(c) \/ Refused(c) \/ (\E well \in BOOLEAN : Answer(c, well))
             \/ Overtaken(c) \/ StillCurrent(c) \/ EmitListing(c)
      PROVE  PathIsNewest'
  <2>1. Task(c) /\ UNCHANGED <<path, target, token, navigation>>
    BY <1>5 DEF Task, BeginOpen, Refused, Answer, Overtaken, StillCurrent,
                EmitListing, history
  <2>2. token[c] = navigation /\ phase'[c] \in {"moved", "over"} => phase[c] \in {"moved", "over"}
    BY <1>5 DEF BeginOpen, Refused, Answer, Overtaken, StillCurrent, IsCurrent,
                EmitListing, Step, TypeOK, Kept
  <2> QED BY <2>1, <2>2, TaskFrame DEF PathIsNewest
<1>6. CASE UNCHANGED engine
  BY <1>6 DEF engine, PathIsNewest
<1> QED
  BY <1>1, <1>2, <1>3, <1>4, <1>5, <1>6 DEF Next, Task, Hear, HearListing, HearWorking, vars

-----------------------------------------------------------------------------
(* The window. *)

NobodyMoves == \A c \in Calls : phase[c] # "moved"

(* News of anything but a listing leaves the last listing the last. *)
LEMMA OtherNews ==
    ASSUME TypeOK, NEW event \in News, Emit(event), event.type # "listing",
           WindowFollows, path' = path, shown' = shown
    PROVE  WindowFollows'
<1>1. \A i \in DOMAIN news : i \in DOMAIN news' /\ news'[i] = news[i]
  BY EmitGrows
<1>2. \A i \in DOMAIN news' : i \in DOMAIN news \/ news'[i] = event
  BY EmitGrows
<1>3. \A i \in DOMAIN news' : LastListing(i)' => i \in DOMAIN news /\ LastListing(i)
  BY <1>1, <1>2 DEF LastListing
<1> QED BY <1>1, <1>2, <1>3 DEF WindowFollows

LEMMA WindowStep ==
    ASSUME TypeOK, NobodyMoves => WindowFollows, NewestMoves, PathIsNewest, AsksInv,
           Kept', [Next]_vars
    PROVE  NobodyMoves' => WindowFollows'
<1> USE DEF Step
<1>1. ASSUME NobodyMoves' => NobodyMoves, UNCHANGED <<news, shown, path>>
      PROVE  NobodyMoves' => WindowFollows'
  BY <1>1 DEF WindowFollows, LastListing
<1>2. ASSUME NEW c \in Calls, AskOpen(c) \/ AskAbout(c)
      PROVE  NobodyMoves' => WindowFollows'
  <2>1. NobodyMoves' => NobodyMoves
    BY <1>2, AskStep DEF NobodyMoves, TypeOK
  <2> QED BY <1>1, <1>2, <2>1, AskStep
<1>3. ASSUME NEW c \in Calls, Navigate(c) \/ \E well \in BOOLEAN : Answer(c, well)
      PROVE  NobodyMoves' => WindowFollows'
  <2>1. PICK on \in BOOLEAN : Emit([type |-> "working", on |-> on])
    BY <1>3 DEF Navigate, Answer
  <2>2. [type |-> "working", on |-> on] \in News
    BY DEF News
  <2>3. UNCHANGED <<path, shown>> /\ phase[c] # "moved"
        /\ \A d \in Calls \ {c} : phase'[d] = phase[d]
    BY <1>3 DEF Navigate, Answer, TypeOK
  <2>4. NobodyMoves' => NobodyMoves
    BY <2>3 DEF NobodyMoves
  <2> QED BY <2>1, <2>2, <2>3, <2>4, OtherNews
<1>4. ASSUME NEW c \in Calls, MoveTo(c)
      PROVE  ~NobodyMoves'
  BY <1>4 DEF MoveTo, NobodyMoves, TypeOK
<1>5. ASSUME NEW c \in Calls, EmitListing(c)
      PROVE  WindowFollows'
  <2> DEFINE listing == [type |-> "listing", folder |-> target[c]]
             last == Len(news) + 1
  <2>1. listing \in News /\ listing.type = "listing" /\ listing.folder = target[c]
    BY DEF TypeOK, News
  <2>2. Emit(listing) /\ path' = path /\ phase[c] = "moved"
    BY <1>5 DEF EmitListing
  <2>3. path = target[c]
    BY <2>2 DEF NewestMoves, PathIsNewest, AsksInv, TokensByPhase
  <2> HIDE DEF listing
  <2>4. last \in DOMAIN news' /\ news'[last] = listing
        /\ \A i \in DOMAIN news' : i = last \/ last > i
    BY <2>1, <2>2, EmitGrows
  <2> HIDE DEF last
  <2> QED BY <2>1, <2>2, <2>3, <2>4 DEF WindowFollows, LastListing
<1>6. CASE Hear
  <2>1. news # <<>> /\ news' = Tail(news) /\ UNCHANGED <<phase, path>>
        /\ (Head(news).type = "listing" => shown' = Head(news).folder)
        /\ (Head(news).type # "listing" => shown' = shown)
    BY <1>6 DEF Hear, HearListing, HearWorking, engine
  <2>2. NobodyMoves' => NobodyMoves
    BY <2>1 DEF NobodyMoves
  <2>3. ASSUME WindowFollows
        PROVE  WindowFollows'
    <3>1. \A i \in DOMAIN news' : LastListing(i)' => i + 1 \in DOMAIN news /\ LastListing(i + 1)
      <4> SUFFICES ASSUME NEW i \in DOMAIN news', LastListing(i)'
                   PROVE  i + 1 \in DOMAIN news /\ LastListing(i + 1)
        OBVIOUS
      <4>1. i \in Nat /\ i + 1 \in DOMAIN news /\ news[i + 1].type = "listing"
        BY <2>1, TailShifts DEF LastListing
      <4>2. ASSUME NEW j \in DOMAIN news, j > i + 1
            PROVE  news[j].type # "listing"
        <5>1. j \in Nat /\ j > 1 /\ j - 1 > i
          BY <2>1, <4>1, <4>2, TailShifts
        <5>2. j - 1 \in DOMAIN news' /\ news'[j - 1] = news[j]
          BY <2>1, <5>1, TailShifts
        <5> QED BY <5>1, <5>2 DEF LastListing
      <4> QED BY <4>1, <4>2 DEF LastListing
    <3>2. \A i \in DOMAIN news' : LastListing(i)' => news'[i].folder = path
      BY <2>1, <2>3, <3>1, TailShifts DEF WindowFollows
    <3>3. ASSUME \A i \in DOMAIN news' : news'[i].type # "listing"
          PROVE  shown' = path
      <4>1. \A j \in DOMAIN news : j > 1 => news[j].type # "listing"
        BY <2>1, <3>3, TailShifts
      <4>2. CASE Head(news).type = "listing"
        <5>1. 1 \in DOMAIN news /\ LastListing(1)
          BY <2>1, <4>1, <4>2, TailShifts DEF LastListing
        <5> QED BY <2>1, <2>3, <4>2, <5>1, TailShifts DEF WindowFollows
      <4>3. CASE Head(news).type # "listing"
        <5>1. \A i \in DOMAIN news : news[i].type # "listing"
          BY <2>1, <4>1, <4>3, TailShifts
        <5> QED BY <2>1, <2>3, <4>3, <5>1 DEF WindowFollows
      <4> QED BY <4>2, <4>3
    <3> QED BY <2>1, <3>2, <3>3 DEF WindowFollows
  <2> QED BY <2>2, <2>3
<1>7. ASSUME NEW c \in Calls,
             \/ BeginOpen(c) \/ BeginRefresh(c) \/ BeginChange(c) \/ Changed(c)
             \/ Refused(c) \/ Overtaken(c) \/ StillCurrent(c)
      PROVE  NobodyMoves' => WindowFollows'
  <2>1. UNCHANGED <<news, shown, path>> /\ phase[c] # "moved"
        /\ \A d \in Calls \ {c} : phase'[d] = phase[d]
    BY <1>7
       DEF BeginOpen, BeginRefresh, BeginChange, Changed, Refused, Overtaken,
           StillCurrent, window, TypeOK
  <2>2. NobodyMoves' => NobodyMoves
    BY <2>1 DEF NobodyMoves
  <2> QED BY <1>1, <2>1, <2>2
<1>8. CASE UNCHANGED vars
  BY <1>1, <1>8 DEF vars, engine, window, NobodyMoves
<1> QED
  BY <1>2, <1>3, <1>4, <1>5, <1>6, <1>7, <1>8 DEF Next, Task

LEMMA OrderlyStep ==
    TypeOK /\ TokensDiffer /\ AsksInv /\ OrderlyInv /\ [Next]_vars => OrderlyInv'
<1> SUFFICES ASSUME TypeOK, TokensDiffer, AsksInv, OrderlyInv, [Next]_vars, Kept'
             PROVE  /\ TokensInOrder' /\ TargetsAreWanted' /\ NewestMoves' /\ PathIsNewest'
                    /\ NobodyMoves' => WindowFollows'
  BY DEF OrderlyInv, NobodyMoves
<1>1. Kept
  BY KeptBefore
<1>2. /\ TokensInOrder /\ TargetsAreWanted /\ NewestMoves /\ PathIsNewest
      /\ NobodyMoves => WindowFollows
  BY <1>1 DEF OrderlyInv, NobodyMoves
<1> QED
  BY <1>1, <1>2, TokensInOrderStep, TargetsStep, NewestMovesStep, PathStep, WindowStep

(* Everything is over and has been heard: the newest navigation was the    *)
(* last command asked for, which listed the folder wanted.                 *)
LEMMA OrderlyEnds ==
    ASSUME TypeOK, AsksInv, OrderlyInv
    PROVE  OrderlyEndsWhereAsked
<1> SUFFICES ASSUME Quiet, orderly, refused = {}
             PROVE  shown = wanted /\ path = wanted
  BY DEF OrderlyEndsWhereAsked
<1> USE AskedTypes
<1>1. Kept /\ news = <<>> /\ DOMAIN news = {}
  BY DEF Kept, Quiet
<1>2. /\ TokensInOrder /\ TargetsAreWanted /\ PathIsNewest
      /\ NobodyMoves => WindowFollows
  BY <1>1 DEF OrderlyInv, NobodyMoves
<1>3. shown = path
  <2>1. NobodyMoves
    BY DEF Quiet, Live, NobodyMoves
  <2> QED BY <1>1, <1>2, <2>1 DEF WindowFollows
<1> DEFINE n == Len(asks)
<1>4. \A i \in DOMAIN asks : phase[asks[i]] = "over" /\ token[asks[i]] > 0
  <2> SUFFICES ASSUME NEW i \in DOMAIN asks
               PROVE  phase[asks[i]] = "over" /\ token[asks[i]] > 0
    OBVIOUS
  <2>1. asks[i] \in Calls /\ phase[asks[i]] # "idle" /\ ~Live(asks[i])
    BY DEF Quiet, AsksInv, AskedWereSent
  <2> QED BY <2>1 DEF Live, AsksInv, TokensByPhase
<1>5. CASE n = 0
  <2>1. wanted = Root
    BY <1>5 DEF AsksInv, WantedIsLast, WantedAfter
  <2>2. ~(navigation > 0)
    <3> SUFFICES ASSUME navigation > 0
                 PROVE  FALSE
      OBVIOUS
    <3>1. PICK c \in Calls : token[c] = navigation
      BY DEF AsksInv, NewestIsHeld
    <3>2. phase[c] # "idle"
      BY <3>1 DEF AsksInv, TokensByPhase
    <3> QED BY <1>5, <3>2 DEF AsksInv, AskedWereSent
  <2>3. navigation = 0
    BY <2>2 DEF TypeOK
  <2> QED BY <1>2, <1>3, <2>1, <2>3 DEF PathIsNewest
<1>6. CASE n # 0
  <2>1. n \in DOMAIN asks /\ n \in Nat /\ n > 0 /\ asks[n] \in Calls
    BY <1>6
  <2>2. token[asks[n]] = navigation
    <3>1. navigation > 0 /\ navigation \in Nat /\ token[asks[n]] <= navigation
      BY <1>4, <2>1 DEF TypeOK
    <3>2. PICK c \in Calls : token[c] = navigation
      BY <3>1 DEF AsksInv, NewestIsHeld
    <3>3. phase[c] # "idle"
      BY <3>1, <3>2 DEF AsksInv, TokensByPhase
    <3>4. PICK i \in DOMAIN asks : asks[i] = c
      BY <3>3 DEF AsksInv, AskedWereSent
    <3>5. ~(i < n)
      BY <1>2, <1>4, <2>1, <3>1, <3>2, <3>4 DEF TokensInOrder
    <3>6. i = n
      BY <2>1, <3>5
    <3> QED BY <3>2, <3>4, <3>6
  <2>3. path = target[asks[n]]
    BY <1>2, <1>4, <2>1, <2>2 DEF PathIsNewest
  <2>4. WantedAfter(kind, asks, target, target[asks[n]], n)
    <3>1. CASE kind[asks[n]] = "open"
      BY <1>6, <2>1, <3>1, WantedNow
    <3>2. CASE kind[asks[n]] # "open"
      <4>1. HasRead(asks[n])
        BY <1>4, <2>1, <3>2 DEF HasRead
      <4> QED BY <1>2, <1>4, <2>1, <4>1 DEF TargetsAreWanted, TargetIsWanted
    <3> QED BY <3>1, <3>2
  <2>5. target[asks[n]] = wanted
    BY <2>1, <2>4, WantedIsOne DEF AsksInv, WantedIsLast
  <2> QED BY <1>3, <2>3, <2>5
<1> QED BY <1>5, <1>6

(* Whatever number of commands there is and in whatever order the server   *)
(* answers: as long as they keep out of one another's way and none is      *)
(* refused, the window and the engine end in the folder asked for last.    *)
THEOREM OrderlyAlwaysEndsWhereAsked == Spec => []OrderlyEndsWhereAsked
<1>1. Spec => []AsksInv
  BY AsksInit, AsksStep, Typing, PTL DEF Spec
<1>2. Spec => []OrderlyInv
  BY <1>1, OrderlyInit, OrderlyStep, TokensAlwaysDiffer, Typing, PTL DEF Spec
<1> QED BY <1>1, <1>2, OrderlyEnds, Typing, PTL

-----------------------------------------------------------------------------
(* Screen: the list of the window, over the same commands. *)
-----------------------------------------------------------------------------
(* The types of the variables. *)

ScreenNews ==
    [type : {"working"}, on : BOOLEAN]
    \cup [type : {"listing"}, folder : Folders, entries : SUBSET Names]
    \cup [type : {"failed"}]
    \cup [type : {"added", "finished"}, of : Uploads]

Stages == {"none", "moving", "landed", "told", "off", "over"}

EngineTypes ==
    /\ kind \in [Calls -> Commands]
    /\ path \in Folders
    /\ navigation \in Nat
    /\ phase \in [Calls -> Phases]
    /\ target \in [Calls -> Folders]
    /\ token \in [Calls -> 0 .. navigation]
    /\ shown \in Folders
    /\ asks \in Seq(Calls)
    /\ refused \subseteq Calls
    /\ orderly \in BOOLEAN

WorkTypes ==
    /\ server \in [Folders -> SUBSET Names]
    /\ what \in [Calls -> SUBSET Names]
    /\ from \in [Calls -> Folders]
    /\ since \in [Calls -> Int]
    /\ into \in [Calls -> Folders]
    /\ got \in [Calls -> SUBSET Names]
    /\ upload \in [Uploads -> Stages]
    /\ overlooked \subseteq Uploads

ListTypes ==
    /\ entries \subseteq Names
    /\ leaving \subseteq Names
    /\ arriving \in [Uploads -> {"no", "moving", "landed"}]

STypes == EngineTypes /\ WorkTypes /\ ListTypes /\ news \in Seq(ScreenNews)

LEMMA STypesInit == SInit => STypes
<1> SUFFICES ASSUME SInit PROVE STypes
  OBVIOUS
<1>1. EngineTypes
  <2>1. asks \in Seq(Calls) /\ navigation \in Nat /\ token \in [Calls -> 0 .. navigation]
    BY DEF SInit, Init
  <2> QED BY <2>1, CallsAssumption DEF SInit, Init, EngineTypes, Phases
<1>2. WorkTypes
  BY CallsAssumption, ScreenAssumption DEF SInit, WorkTypes, Stages
<1>3. ListTypes
  BY CallsAssumption, ScreenAssumption DEF SInit, ListTypes
<1>4. news \in Seq(ScreenNews)
  BY DEF SInit, Init
<1> QED BY <1>1, <1>2, <1>3, <1>4 DEF STypes

(* News is made of what is known. *)
LEMMA NewsKept ==
    ASSUME STypes, NEW event \in ScreenNews, Emit(event)
    PROVE  news' \in Seq(ScreenNews)
BY DEF STypes, Emit

LEMMA TailKept ==
    ASSUME STypes, news # <<>>
    PROVE  /\ Tail(news) \in Seq(ScreenNews)
           /\ Head(news) \in ScreenNews
BY DEF STypes

LEMMA AsksTypes ==
    ASSUME STypes, NEW c \in Calls, Ask(c),
           target' \in [Calls -> Folders]
    PROVE  EngineTypes' /\ news' = news /\ shown' = shown
<1> USE DEF STypes, EngineTypes, Ask, Step, window, Phases
<1>1. asks' \in Seq(Calls)
  OBVIOUS
<1>2. phase' \in [Calls -> Phases]
  OBVIOUS
<1> QED BY <1>1, <1>2

LEMMA GestureTypes ==
    ASSUME STypes, NEW c \in Calls, Gesture(c)
    PROVE  STypes'
<1> USE DEF list, work, queue, Send
<1>1. CASE Browse(c) \/ Reload(c)
  <2>1. /\ Ask(c) /\ target' \in [Calls -> Folders] /\ overlooked' = {}
        /\ UNCHANGED <<server, what, from, since, got, upload, into, list>>
    BY <1>1 DEF Browse, Reload, AskOpen, AskAbout, STypes, EngineTypes
  <2> QED BY <2>1, AsksTypes DEF STypes, WorkTypes, ListTypes
<1>2. CASE Pick(c)
  <2>1. Rows \subseteq Names
    BY ScreenAssumption DEF Rows, STypes, ListTypes
  <2>2. PICK names \in (SUBSET Rows) \ {{}} : what' = [what EXCEPT ![c] = names]
    BY <1>2 DEF Pick
  <2>3. /\ from' = [from EXCEPT ![c] = shown]
        /\ since' = [since EXCEPT ![c] = IF Quiet THEN Len(asks) ELSE -1]
        /\ UNCHANGED <<vars, server, into, got, queue, list>>
    BY <1>2 DEF Pick
  <2>4. Len(asks) \in Int
    BY DEF STypes, EngineTypes
  <2>5. WorkTypes'
    <3>1. what' \in [Calls -> SUBSET Names]
      BY <2>1, <2>2 DEF STypes, WorkTypes
    <3>2. since' \in [Calls -> Int] /\ from' \in [Calls -> Folders]
      BY <2>3, <2>4 DEF STypes, WorkTypes, EngineTypes
    <3> QED BY <2>3, <3>1, <3>2 DEF STypes, WorkTypes
  <2>6. EngineTypes' /\ ListTypes' /\ news' = news
    BY <2>3 DEF vars, engine, window, history, STypes, EngineTypes, ListTypes
  <2> QED BY <2>5, <2>6 DEF STypes
<1>3. CASE RemoveFiles(c)
  <2>1. /\ Ask(c) /\ target' \in [Calls -> Folders] /\ overlooked' = {}
        /\ UNCHANGED <<server, what, from, since, got, upload, into, entries, arriving>>
    BY <1>3 DEF RemoveFiles, AskAbout, STypes, EngineTypes
  <2>2. leaving' \subseteq Names
    BY <1>3 DEF RemoveFiles, ExpectDeparture, STypes, ListTypes, WorkTypes
  <2> QED BY <2>1, <2>2, AsksTypes DEF STypes, WorkTypes, ListTypes
<1>4. CASE MoveInto(c)
  <2>1. /\ Ask(c) /\ target' \in [Calls -> Folders] /\ overlooked' = {}
        /\ UNCHANGED <<server, what, from, since, got, upload, entries, arriving>>
    BY <1>4 DEF MoveInto, AskAbout, STypes, EngineTypes
  <2>2. leaving' \subseteq Names /\ into' \in [Calls -> Folders]
    BY <1>4 DEF MoveInto, ExpectDeparture, STypes, ListTypes, WorkTypes
  <2> QED BY <2>1, <2>2, AsksTypes DEF STypes, WorkTypes, ListTypes
<1> QED BY <1>1, <1>2, <1>3, <1>4 DEF Gesture

LEMMA WithoutTypes ==
    ASSUME STypes, NEW c \in Calls, NEW names
    PROVE  Without(c, names) \in [Folders -> SUBSET Names]
BY DEF Without, STypes, WorkTypes, EngineTypes

LEMMA CommandTypes ==
    ASSUME STypes, NEW c \in Calls, Command(c)
    PROVE  STypes'
<1> USE DEF list, work, queue, Step, Phases, history, window
<1>1. CASE Begin(c)
  <2>1. UNCHANGED <<work, list>>
    BY <1>1 DEF Begin
  <2>2. CASE BeginOpen(c)
    BY <2>1, <2>2 DEF BeginOpen, STypes, EngineTypes, WorkTypes, ListTypes
  <2>3. CASE BeginRefresh(c)
    BY <2>1, <2>3 DEF BeginRefresh, ReadPath, STypes, EngineTypes, WorkTypes, ListTypes
  <2>4. CASE BeginChange(c)
    BY <2>1, <2>4 DEF BeginChange, ReadPath, STypes, EngineTypes, WorkTypes, ListTypes
  <2> QED BY <1>1, <2>2, <2>3, <2>4 DEF Begin
<1>2. CASE Made(c)
  <2>1. server' \in [Folders -> SUBSET Names]
    BY <1>2, WithoutTypes DEF Made
  <2> QED BY <1>2, <2>1 DEF Made, Changed, ReadPath, STypes, EngineTypes, WorkTypes, ListTypes
<1>3. CASE Failed(c)
  <2>1. server' \in [Folders -> SUBSET Names]
    BY <1>3, WithoutTypes DEF Failed
  <2>2. [type |-> "failed"] \in ScreenNews
    BY DEF ScreenNews
  <2>3. news' \in Seq(ScreenNews)
    BY <1>3, <2>2, NewsKept DEF Failed
  <2> QED BY <1>3, <2>1, <2>3 DEF Failed, STypes, EngineTypes, WorkTypes, ListTypes
<1>4. CASE SetOut(c)
  <2>1. [type |-> "working", on |-> TRUE] \in ScreenNews
    BY DEF ScreenNews
  <2>2. news' \in Seq(ScreenNews)
    BY <1>4, <2>1, NewsKept DEF SetOut, Navigate
  <2>3. token' \in [Calls -> 0 .. navigation'] /\ navigation' \in Nat
    BY <1>4 DEF SetOut, Navigate, STypes, EngineTypes
  <2> QED BY <1>4, <2>2, <2>3 DEF SetOut, Navigate, STypes, EngineTypes, WorkTypes, ListTypes
<1>5. CASE Listed(c)
  <2>1. [type |-> "working", on |-> FALSE] \in ScreenNews
    BY DEF ScreenNews
  <2>2. news' \in Seq(ScreenNews)
    BY <1>5, <2>1, NewsKept DEF Listed, Answer
  <2> QED BY <1>5, <2>2 DEF Listed, Answer, STypes, EngineTypes, WorkTypes, ListTypes
<1>6. CASE GetOn(c)
  <2>1. UNCHANGED <<work, list>>
    BY <1>6 DEF GetOn
  <2>2. CASE Overtaken(c)
    BY <2>1, <2>2 DEF Overtaken, STypes, EngineTypes, WorkTypes, ListTypes
  <2>3. CASE StillCurrent(c)
    <3>1. phase' \in [Calls -> Phases]
      BY <2>3 DEF StillCurrent, STypes, EngineTypes
    <3> QED BY <2>1, <2>3, <3>1 DEF StillCurrent, STypes, EngineTypes, WorkTypes, ListTypes
  <2>4. CASE MoveTo(c)
    BY <2>1, <2>4 DEF MoveTo, STypes, EngineTypes, WorkTypes, ListTypes
  <2> QED BY <1>6, <2>2, <2>3, <2>4 DEF GetOn
<1>7. CASE Complain(c)
  <2>1. [type |-> "failed"] \in ScreenNews
    BY DEF ScreenNews
  <2>2. news' \in Seq(ScreenNews)
    BY <1>7, <2>1, NewsKept DEF Complain
  <2> QED BY <1>7, <2>2 DEF Complain, STypes, EngineTypes, WorkTypes, ListTypes
<1>8. CASE ShowListing(c)
  <2>1. [type |-> "listing", folder |-> target[c], entries |-> got[c]] \in ScreenNews
    BY DEF ScreenNews, STypes, EngineTypes, WorkTypes
  <2>2. news' \in Seq(ScreenNews)
    BY <1>8, <2>1, NewsKept DEF ShowListing
  <2> QED BY <1>8, <2>2 DEF ShowListing, STypes, EngineTypes, WorkTypes, ListTypes
<1> QED BY <1>1, <1>2, <1>3, <1>4, <1>5, <1>6, <1>7, <1>8 DEF Command

LEMMA UploadTypes ==
    ASSUME STypes, NEW t \in Uploads, Uploading(t)
    PROVE  STypes'
<1> USE DEF list, work, queue, history, window, engine, UploadTo, Stages
<1>0. upload' \in [Uploads -> Stages] /\ overlooked' \subseteq Uploads
  BY DEF Uploading, StartUpload, Land, ReportUpload, Relist, LeaveToOthers, CallOff, Remain,
         Begun, STypes, WorkTypes
<1>1. ASSUME NEW event \in {"added", "finished"}, Announce(t, event)
      PROVE  STypes'
  <2>1. [type |-> event, of |-> t] \in ScreenNews
    BY DEF ScreenNews
  <2>2. news' \in Seq(ScreenNews)
    BY <1>1, <2>1, NewsKept DEF Announce
  <2> QED BY <1>0, <1>1, <2>2 DEF Announce, STypes, EngineTypes, WorkTypes, ListTypes
<1>2. CASE StartUpload(t) \/ ReportUpload(t) \/ CallOff(t)
  BY <1>1, <1>2 DEF StartUpload, ReportUpload, CallOff
<1>3. CASE Land(t) \/ Remain(t)
  <2>0. MayBeThere(t)
    BY <1>3 DEF Land, Remain
  <2>1. server' \in [Folders -> SUBSET Names]
    <3>1. Called[t] \in Names /\ server \in [Folders -> SUBSET Names]
      BY ScreenAssumption DEF STypes, WorkTypes
    <3>2. CASE server' = [server EXCEPT ![Into[t]] = @ \cup {Called[t]}]
      <4>1. [server EXCEPT ![Into[t]] = @ \cup {Called[t]}] \in [Folders -> SUBSET Names]
        BY <3>1
      <4> QED BY <3>2, <4>1
    <3>3. CASE UNCHANGED server
      BY <3>1, <3>3
    <3> QED BY <2>0, <3>2, <3>3 DEF MayBeThere
  <2>2. UNCHANGED <<engine, window, history>>
    BY <2>0 DEF MayBeThere, vars
  <2> QED BY <1>0, <2>0, <2>1, <2>2 DEF MayBeThere, STypes, EngineTypes, WorkTypes, ListTypes
<1>4. CASE Relist(t)
  <2>1. Afterwards[t] \in Calls
    BY ScreenAssumption
  <2>2. Ask(Afterwards[t]) /\ target' \in [Calls -> Folders]
    BY <1>4 DEF Relist, AskAbout, STypes, EngineTypes
  <2>3. EngineTypes' /\ news' = news
    BY <2>1, <2>2, AsksTypes
  <2> QED BY <1>0, <1>4, <2>3 DEF Relist, STypes, WorkTypes, ListTypes
<1>5. CASE LeaveToOthers(t)
  BY <1>0, <1>5 DEF LeaveToOthers, vars, STypes, EngineTypes, WorkTypes, ListTypes
<1> QED BY <1>2, <1>3, <1>4, <1>5 DEF Uploading

LEMMA ReceiveTypes ==
    ASSUME STypes, Receive
    PROVE  STypes'
<1> USE DEF list, work, queue, history, engine
<1>1. CASE Replace
  <2>1. news # <<>> /\ Head(news).type = "listing" /\ news' = Tail(news)
    BY <1>1 DEF Replace, HearListing
  <2>2. Head(news).folder \in Folders /\ Head(news).entries \subseteq Names
    BY <2>1, TailKept DEF ScreenNews
  <2> QED BY <1>1, <2>1, <2>2, TailKept
          DEF Replace, HearListing, Settle, STypes, EngineTypes, WorkTypes, ListTypes
<1>2. CASE SetBusy
  BY <1>2, TailKept DEF SetBusy, HearWorking, STypes, EngineTypes, WorkTypes, ListTypes
<1>3. CASE HearFailed
  BY <1>3, TailKept DEF HearFailed, NewsIs, Dequeue, Otherwise, STypes, EngineTypes, WorkTypes, ListTypes
<1>4. CASE Expect \/ Arrived
  BY <1>4, TailKept DEF Expect, Arrived, NewsIs, Dequeue, Otherwise, STypes, EngineTypes, WorkTypes, ListTypes
<1> QED BY <1>1, <1>2, <1>3, <1>4 DEF Receive

LEMMA STypesStep == STypes /\ [SNext]_svars => STypes'
<1> SUFFICES ASSUME STypes, [SNext]_svars PROVE STypes'
  OBVIOUS
<1>1. CASE UNCHANGED svars
  BY <1>1 DEF svars, vars, engine, window, history, work, queue, list, STypes, EngineTypes, WorkTypes, ListTypes
<1> QED BY <1>1, GestureTypes, CommandTypes, UploadTypes, ReceiveTypes DEF SNext

-----------------------------------------------------------------------------
(* What the steps come to: for a command, how far its task gets and what   *)
(* that changes besides.                                                   *)

Turn(c, stages, to) == phase[c] \in stages /\ phase' = [phase EXCEPT ![c] = to]

(* A command is sent; what it carries with it is its own. *)
Sent(c) ==
    /\ Turn(c, {"idle"}, "sent")
    /\ asks' = Append(asks, c)
    /\ \A d \in Calls \ {c} : target'[d] = target[d]
    /\ overlooked' = {}
    /\ UNCHANGED <<path, navigation, token, refused, orderly, news, shown,
                   entries, arriving, server, got, since, from>>

(* A command reads the folder of its connection, *)
Looked(c) ==
    /\ Turn(c, {"sent"}, "going") \/ Turn(c, {"sent"}, "acting") \/ Turn(c, {"acting"}, "going")
    /\ target' = [target EXCEPT ![c] = path]
    /\ orderly' = (orderly /\ \A d \in Calls \ {c} : ~Live(d))
    /\ UNCHANGED <<path, navigation, token, refused, asks, news, shown, list,
                   got, queue, since, from>>

(* or goes where it has been told to. *)
Went(c) ==
    /\ Turn(c, {"sent", "acting"}, "going")
    /\ UNCHANGED <<path, navigation, token, refused, asks, target, orderly, news,
                   shown, list, got, queue, since, from>>

GaveUp(c) ==
    /\ Turn(c, {"acting", "answered"}, "over")
    /\ c \in refused' /\ refused \subseteq refused'
    /\ news' = Append(news, [type |-> "failed"])
    /\ UNCHANGED <<path, navigation, token, asks, target, orderly, shown, list,
                   got, queue, since, from>>

SetsOut(c) ==
    /\ Turn(c, {"going"}, "listing")
    /\ navigation' = navigation + 1
    /\ token' = [token EXCEPT ![c] = navigation + 1]
    /\ orderly' => orderly /\ \A d \in Calls \ {c} : phase[d] \notin {"current", "moved"}
    /\ news' = Append(news, [type |-> "working", on |-> TRUE])
    /\ UNCHANGED <<path, target, refused, asks, shown, list, work>>

Answers(c) ==
    /\ Turn(c, {"listing"}, "answered")
    /\ refused \subseteq refused'
    /\ got' = [got EXCEPT ![c] = server[target[c]]]
    /\ news' = Append(news, [type |-> "working", on |-> FALSE])
    /\ UNCHANGED <<path, navigation, target, token, asks, orderly, shown, list,
                   server, queue, since, from>>

Dropped(c) ==
    /\ Turn(c, {"answered"}, "over")
    /\ navigation # token[c]
    /\ UNCHANGED <<path, navigation, target, token, refused, asks, orderly, news,
                   shown, list, work>>

Counts(c) ==
    /\ Turn(c, {"answered"}, "current")
    /\ navigation = token[c]
    /\ UNCHANGED <<path, navigation, target, token, refused, asks, orderly, news,
                   shown, list, work>>

Moves(c) ==
    /\ Turn(c, {"current"}, "moved")
    /\ path' = target[c]
    /\ UNCHANGED <<navigation, target, token, refused, asks, orderly, news,
                   shown, list, work>>

Tells(c) ==
    /\ Turn(c, {"moved"}, "over")
    /\ news' = Append(news, [type |-> "listing", folder |-> target[c], entries |-> got[c]])
    /\ UNCHANGED <<path, navigation, target, token, refused, asks, orderly,
                   shown, list, work>>

Goes(c) ==
    \/ Sent(c) \/ Looked(c) \/ Went(c) \/ GaveUp(c) \/ SetsOut(c) \/ Answers(c)
    \/ Dropped(c) \/ Counts(c) \/ Moves(c) \/ Tells(c)

(* The commands stand still. *)
Rests ==
    UNCHANGED <<path, navigation, phase, target, token, refused, asks, orderly,
                server, got>>

Picks(c) ==
    /\ Rests
    /\ from' = [from EXCEPT ![c] = shown]
    /\ since' = [since EXCEPT ![c] = IF Quiet THEN Len(asks) ELSE -1]
    /\ phase[c] = "idle"
    /\ UNCHANGED <<news, shown, list, queue>>

GetsTo(t, stages, stage) == upload[t] \in stages /\ upload' = [upload EXCEPT ![t] = stage]

LEMMA GestureViewed ==
    ASSUME NEW c \in Calls, Gesture(c)
    PROVE  Picks(c) \/ (Sent(c) /\ upload' = upload)
<1> USE DEF Turn, Step, list, work, queue, window, Send
<1>1. CASE Browse(c)
  BY <1>1 DEF Browse, AskOpen, Ask, Sent
<1>2. CASE Reload(c)
  BY <1>2 DEF Reload, AskAbout, Ask, Sent
<1>3. CASE Pick(c)
  BY <1>3 DEF Pick, Picks, Rests, vars, engine, history
<1>4. CASE RemoveFiles(c)
  BY <1>4 DEF RemoveFiles, AskAbout, Ask, Sent
<1>5. CASE MoveInto(c)
  BY <1>5 DEF MoveInto, AskAbout, Ask, Sent
<1> QED BY <1>1, <1>2, <1>3, <1>4, <1>5 DEF Gesture

LEMMA CommandViewed ==
    ASSUME STypes, NEW c \in Calls, Command(c)
    PROVE  Goes(c) /\ upload' = upload
<1> USE DEF Turn, Step, list, work, queue, window, history
<1>1. CASE Begin(c)
  <2>1. UNCHANGED <<work, list>>
    BY <1>1 DEF Begin
  <2>2. CASE BeginOpen(c)
    BY <2>1, <2>2 DEF BeginOpen, Went, Goes
  <2>3. CASE BeginRefresh(c)
    BY <2>1, <2>3 DEF BeginRefresh, ReadPath, Looked, Goes
  <2>4. CASE BeginChange(c)
    BY <2>1, <2>4 DEF BeginChange, ReadPath, Looked, Goes
  <2> QED BY <1>1, <2>2, <2>3, <2>4 DEF Begin
<1>2. CASE Made(c)
  <2>1. Changed(c) /\ UNCHANGED <<what, from, since, into, got, queue, list>>
    BY <1>2 DEF Made
  <2>2. CASE kind[c] = "create"
    BY <2>1, <2>2 DEF Changed, ReadPath, Looked, Goes
  <2>3. CASE kind[c] # "create"
    BY <2>1, <2>3 DEF Changed, Went, Goes
  <2> QED BY <2>2, <2>3
<1>3. CASE Failed(c)
  <2>1. GaveUp(c)
    BY <1>3 DEF Failed, Emit, GaveUp
  <2> QED BY <1>3, <2>1 DEF Failed, Goes
<1>4. CASE SetOut(c)
  <2>1. SetsOut(c)
    BY <1>4 DEF SetOut, Navigate, Emit, SetsOut
  <2> QED BY <1>4, <2>1 DEF SetOut, Goes
<1>5. CASE Listed(c)
  <2>1. Answers(c)
    BY <1>5 DEF Listed, Answer, Emit, Answers
  <2> QED BY <1>5, <2>1 DEF Listed, Goes
<1>6. CASE GetOn(c)
  <2>1. UNCHANGED <<work, list>>
    BY <1>6 DEF GetOn
  <2>2. CASE Overtaken(c)
    BY <2>1, <2>2 DEF Overtaken, IsCurrent, Dropped, Goes
  <2>3. CASE c \notin refused /\ StillCurrent(c)
    <3>1. phase' = [phase EXCEPT ![c] = "current"]
      BY <2>3 DEF StillCurrent
    <3> QED BY <2>1, <2>3, <3>1 DEF StillCurrent, IsCurrent, Counts, Goes
  <2>4. CASE MoveTo(c)
    BY <2>1, <2>4 DEF MoveTo, Moves, Goes
  <2> QED BY <1>6, <2>2, <2>3, <2>4 DEF GetOn
<1>7. CASE Complain(c)
  <2>1. GaveUp(c)
    BY <1>7 DEF Complain, Emit, GaveUp
  <2> QED BY <1>7, <2>1 DEF Complain, Goes
<1>8. CASE ShowListing(c)
  <2>1. Tells(c)
    BY <1>8 DEF ShowListing, Emit, Tells
  <2> QED BY <1>8, <2>1 DEF ShowListing, Goes
<1> QED BY <1>1, <1>2, <1>3, <1>4, <1>5, <1>6, <1>7, <1>8 DEF Command

(* The steps that are no command's: an upload's, and what the interface    *)
(* thread hears.                                                           *)
Told(t) == upload[t] \in {"told", "off", "over"}

Announces(t) ==
    \/ /\ GetsTo(t, {"none"}, "moving") /\ overlooked' = overlooked
       /\ news' = Append(news, [type |-> "added", of |-> t])
    \/ /\ \/ GetsTo(t, {"landed"}, "told") /\ overlooked' = overlooked
          \/ GetsTo(t, {"moving"}, "off") /\ overlooked' = overlooked \cup Begun
       /\ news' = Append(news, [type |-> "finished", of |-> t])

Lands(t) ==
    /\ \/ GetsTo(t, {"moving"}, "landed") /\ overlooked' = overlooked
       \/ GetsTo(t, {"off"}, "over") /\ overlooked' = overlooked \cup {t}
    /\ \/ server' = [server EXCEPT ![Into[t]] = @ \cup {Called[t]}]
       \/ UNCHANGED server
    /\ UNCHANGED news

Leaves(t) ==
    /\ GetsTo(t, {"told"}, "over")
    /\ overlooked' =
          IF \E u \in Uploads : InFlight(u) THEN overlooked ELSE overlooked \cup Begun
    /\ UNCHANGED news

LEMMA UploadViewed ==
    ASSUME NEW t \in Uploads, Uploading(t)
    PROVE  \/ /\ Announces(t) \/ Leaves(t)
              /\ Rests /\ UNCHANGED <<shown, list, since, from>>
           \/ /\ Lands(t)
              /\ UNCHANGED <<path, navigation, phase, target, token, refused, asks,
                             orderly, got, shown, list, since, from>>
           \/ /\ GetsTo(t, {"told"}, "over")
              /\ Sent(Afterwards[t])
<1> USE DEF UploadTo, GetsTo, list, work, queue, engine, history
<1>1. CASE StartUpload(t)
  BY <1>1 DEF StartUpload, Announce, Announces, Emit, Rests
<1>2. CASE Land(t)
  BY <1>2 DEF Land, MayBeThere, Lands, vars, window
<1>3. CASE ReportUpload(t)
  BY <1>3 DEF ReportUpload, Announce, Announces, Emit, Rests
<1>4. CASE Relist(t)
  BY <1>4 DEF Relist, AskAbout, Ask, Step, Turn, Sent, window
<1>5. CASE LeaveToOthers(t)
  BY <1>5 DEF LeaveToOthers, Leaves, Rests, vars, window
<1>6. CASE CallOff(t)
  BY <1>6 DEF CallOff, Announce, Announces, Emit, Rests
<1>7. CASE Remain(t)
  BY <1>7 DEF Remain, MayBeThere, Lands, vars, window
<1> QED BY <1>1, <1>2, <1>3, <1>4, <1>5, <1>6, <1>7 DEF Uploading

Heard == Rests /\ news # <<>> /\ news' = Tail(news) /\ UNCHANGED <<queue, since, from>>

LEMMA ReceiveViewed ==
    ASSUME Receive
    PROVE  /\ Heard
           /\ Replace \/ (shown' = shown /\ Head(news).type # "listing")
<1> USE DEF NewsIs, Dequeue, Otherwise, Heard, Rests, engine, history, work, queue
<1>1. CASE Replace
  BY <1>1 DEF Replace, HearListing
<1>2. CASE SetBusy
  BY <1>2 DEF SetBusy, HearWorking
<1>3. CASE HearFailed
  BY <1>3 DEF HearFailed
<1>4. CASE Expect
  BY <1>4 DEF Expect
<1>5. CASE Arrived
  BY <1>5 DEF Arrived
<1> QED BY <1>1, <1>2, <1>3, <1>4, <1>5 DEF Receive

-----------------------------------------------------------------------------
(* Who counts. *)

IsNewest(c) == token[c] = navigation /\ token[c] > 0

STokensByPhase ==
    \A c \in Calls :
        /\ phase[c] \in {"idle", "sent", "acting", "going"} => token[c] = 0
        /\ phase[c] \in {"listing", "answered", "current", "moved"} => token[c] > 0
        /\ phase[c] = "over" => token[c] > 0 \/ c \in refused

SNewestIsHeld == navigation > 0 => \E c \in Calls : IsNewest(c)

(* An orderly command that is moving the connection, or has, is the newest, *)
SNewestMoves ==
    orderly => \A c \in Calls : phase[c] \in {"current", "moved"} => token[c] = navigation

(* and the connection is where it moved it. *)
MovedThere == orderly => \A c \in Calls : phase[c] = "moved" => path = target[c]

Tokens == TokensDiffer /\ STokensByPhase /\ SNewestIsHeld /\ SNewestMoves /\ MovedThere

LEMMA STokensInit == SInit => Tokens
BY DEF SInit, Init, Tokens, TokensDiffer, STokensByPhase, SNewestIsHeld, SNewestMoves, MovedThere

(* Only setting out gives a token. *)
SameTokens(c) ==
    /\ UNCHANGED <<token, navigation>> /\ refused \subseteq refused'
    /\ orderly' => orderly
    /\ phase'[c] = "moved" \/ path' = path
    /\ \A d \in Calls \ {c} : phase'[d] = phase[d] /\ target'[d] = target[d]

LEMMA OthersStay ==
    ASSUME STypes, NEW c \in Calls, NEW a, NEW b, Turn(c, a, b)
    PROVE  /\ \A d \in Calls \ {c} : phase'[d] = phase[d]
           /\ phase[c] \in a /\ phase'[c] = b
BY DEF Turn, STypes, EngineTypes

LEMMA GoesOn ==
    ASSUME STypes, NEW c \in Calls, Goes(c)
    PROVE  SetsOut(c) \/ SameTokens(c)
<1> USE DEF SameTokens
<1>0. \A d \in Calls : \A x : d # c => [target EXCEPT ![c] = x][d] = target[d]
  BY DEF STypes, EngineTypes
<1>1. CASE Sent(c)
  BY <1>1, OthersStay DEF Sent
<1>2. CASE Looked(c)
  BY <1>0, <1>2, OthersStay DEF Looked
<1>3. CASE Went(c)
  BY <1>3, OthersStay DEF Went
<1>4. CASE GaveUp(c)
  BY <1>4, OthersStay DEF GaveUp
<1>5. CASE Answers(c)
  BY <1>5, OthersStay DEF Answers
<1>6. CASE Dropped(c)
  BY <1>6, OthersStay DEF Dropped
<1>7. CASE Counts(c)
  BY <1>7, OthersStay DEF Counts
<1>8. CASE Moves(c)
  BY <1>8, OthersStay DEF Moves
<1>9. CASE Tells(c)
  BY <1>9, OthersStay DEF Tells
<1> QED BY <1>1, <1>2, <1>3, <1>4, <1>5, <1>6, <1>7, <1>8, <1>9 DEF Goes

(* Where a command gets to when it does not set out. *)
Road(c) ==
    \/ phase[c] \in {"idle", "sent", "acting"} /\ phase'[c] \in {"sent", "acting", "going"}
    \/ phase[c] = "acting" /\ phase'[c] = "over" /\ c \in refused'
    \/ phase[c] = "listing" /\ phase'[c] = "answered"
    \/ phase[c] = "answered" /\ phase'[c] = "over"
    \/ phase[c] = "answered" /\ phase'[c] = "current" /\ navigation = token[c]
    \/ phase[c] = "current" /\ phase'[c] = "moved" /\ path' = target[c]
       /\ target' = target /\ orderly' = orderly
    \/ phase[c] = "moved" /\ phase'[c] = "over"

LEMMA GoesTheRoad ==
    ASSUME STypes, NEW c \in Calls, Goes(c)
    PROVE  SetsOut(c) \/ Road(c)
<1> USE DEF Road
<1>1. CASE Sent(c)
  BY <1>1, OthersStay DEF Sent
<1>2. CASE Looked(c)
  BY <1>2, OthersStay DEF Looked
<1>3. CASE Went(c)
  BY <1>3, OthersStay DEF Went
<1>4. CASE GaveUp(c)
  BY <1>4, OthersStay DEF GaveUp
<1>5. CASE Answers(c)
  BY <1>5, OthersStay DEF Answers
<1>6. CASE Dropped(c)
  BY <1>6, OthersStay DEF Dropped
<1>7. CASE Counts(c)
  BY <1>7, OthersStay DEF Counts
<1>8. CASE Moves(c)
  BY <1>8, OthersStay DEF Moves
<1>9. CASE Tells(c)
  BY <1>9, OthersStay DEF Tells
<1> QED BY <1>1, <1>2, <1>3, <1>4, <1>5, <1>6, <1>7, <1>8, <1>9 DEF Goes

LEMMA TokensGo ==
    ASSUME STypes, Tokens, NEW c \in Calls, Goes(c)
    PROVE  Tokens'
<1>1. CASE SetsOut(c)
  <2>1. /\ navigation' = navigation + 1 /\ token' = [token EXCEPT ![c] = navigation + 1]
        /\ phase' = [phase EXCEPT ![c] = "listing"] /\ phase[c] = "going"
        /\ UNCHANGED <<path, target, refused>>
        /\ orderly' => orderly /\ \A d \in Calls \ {c} : phase[d] \notin {"current", "moved"}
    BY <1>1 DEF SetsOut, Turn
  <2>2. navigation \in Nat /\ token \in [Calls -> 0 .. navigation] /\ phase \in [Calls -> Phases]
    BY DEF STypes, EngineTypes
  <2>3. /\ token'[c] = navigation + 1 /\ phase'[c] = "listing"
        /\ \A d \in Calls \ {c} : /\ token'[d] = token[d] /\ token[d] \in 0 .. navigation
                                  /\ phase'[d] = phase[d]
    BY <2>1, <2>2
  <2>4. TokensDiffer'
    BY <2>2, <2>3 DEF Tokens, TokensDiffer
  <2>5. STokensByPhase'
    BY <2>1, <2>2, <2>3 DEF Tokens, STokensByPhase
  <2>6. SNewestIsHeld'
    BY <2>1, <2>2, <2>3 DEF SNewestIsHeld, IsNewest
  <2>7. SNewestMoves' /\ MovedThere'
    BY <2>1, <2>3 DEF SNewestMoves, MovedThere
  <2> QED BY <2>4, <2>5, <2>6, <2>7 DEF Tokens
<1>2. CASE ~SetsOut(c)
  <2>1. SameTokens(c) /\ Road(c)
    BY <1>2, GoesOn, GoesTheRoad
  <2>2. TokensDiffer' /\ SNewestIsHeld'
    BY <2>1 DEF SameTokens, Tokens, TokensDiffer, SNewestIsHeld, IsNewest
  <2>3. STokensByPhase'
    BY <2>1 DEF SameTokens, Road, Tokens, STokensByPhase
  <2>4. SNewestMoves'
    BY <2>1 DEF SameTokens, Road, Tokens, SNewestMoves
  <2>5. MovedThere'
    <3>1. CASE phase'[c] = "moved"
      <4>1. path' = target[c] /\ target' = target /\ phase[c] = "current"
        BY <2>1, <3>1 DEF Road
      <4>2. ASSUME orderly', NEW d \in Calls \ {c}, phase'[d] = "moved"
            PROVE  FALSE
        <5>1. orderly /\ phase[d] = "moved"
          BY <2>1, <4>2 DEF SameTokens
        <5>2. token[d] = navigation /\ token[c] = navigation /\ token[c] > 0
          BY <4>1, <5>1 DEF Tokens, SNewestMoves, STokensByPhase
        <5> QED BY <5>2 DEF Tokens, TokensDiffer
      <4> QED BY <4>1, <4>2 DEF MovedThere
    <3>2. CASE phase'[c] # "moved"
      <4>1. path' = path
        BY <2>1, <3>2 DEF SameTokens
      <4> QED BY <2>1, <3>2, <4>1 DEF SameTokens, Tokens, MovedThere
    <3> QED BY <3>1, <3>2
  <2> QED BY <2>2, <2>3, <2>4, <2>5 DEF Tokens
<1> QED BY <1>1, <1>2

LEMMA STokensStep == STypes /\ Tokens /\ [SNext]_svars => Tokens'
<1> SUFFICES ASSUME STypes, Tokens, [SNext]_svars PROVE Tokens'
  OBVIOUS
<1>1. ASSUME UNCHANGED <<path, navigation, phase, target, token, refused, asks, orderly>>
      PROVE  Tokens'
  BY <1>1 DEF Tokens, TokensDiffer, STokensByPhase, SNewestIsHeld, IsNewest, SNewestMoves, MovedThere
<1>2. ASSUME NEW c \in Calls, Gesture(c)
      PROVE  Tokens'
  BY <1>1, <1>2, GestureViewed, TokensGo DEF Picks, Rests, Goes
<1>3. ASSUME NEW c \in Calls, Command(c)
      PROVE  Tokens'
  BY <1>3, CommandViewed, TokensGo
<1>4. ASSUME NEW t \in Uploads, Uploading(t)
      PROVE  Tokens'
  <2>1. Afterwards[t] \in Calls
    BY ScreenAssumption
  <2> QED BY <1>1, <1>4, <2>1, UploadViewed, TokensGo DEF Rests, Goes
<1>5. CASE Receive
  BY <1>1, <1>5, ReceiveViewed DEF Heard, Rests
<1>6. CASE UNCHANGED svars
  BY <1>1, <1>6 DEF svars, vars, engine, history
<1> QED BY <1>2, <1>3, <1>4, <1>5, <1>6 DEF SNext

-----------------------------------------------------------------------------
(* What has been told and not heard. *)

LEMMA NewsGrow ==
    ASSUME STypes, NEW event, news' = Append(news, event)
    PROVE  /\ Len(news) \in Nat /\ Len(news) + 1 \in DOMAIN news'
           /\ \A i \in DOMAIN news : i \in DOMAIN news' /\ news'[i] = news[i]
           /\ \A i \in DOMAIN news' :
                 i \in Int /\ ((i \in DOMAIN news /\ i < Len(news) + 1) \/ i = Len(news) + 1)
           /\ news'[Len(news) + 1] = event
<1>1. news \in Seq(ScreenNews)
  BY DEF STypes
<1> QED BY <1>1, LenProperties

LEMMA NewsShift ==
    ASSUME STypes, news # <<>>, news' = Tail(news)
    PROVE  /\ 1 \in DOMAIN news
           /\ news[1] = Head(news)
           /\ \A i \in DOMAIN news : i \in Int /\ (i = 1 \/ i > 1)
           /\ \A i \in DOMAIN news' :
                 i \in Int /\ i + 1 > 1 /\ i + 1 \in DOMAIN news /\ news'[i] = news[i + 1]
           /\ \A i \in DOMAIN news :
                 i > 1 => /\ i - 1 \in DOMAIN news' /\ news'[i - 1] = news[i]
                          /\ i - 1 + 1 = i
<1>1. news \in Seq(ScreenNews)
  BY DEF STypes
<1> QED BY <1>1, LenProperties

SLastListing(i) ==
    news[i].type = "listing" /\ \A j \in DOMAIN news : j > i => news[j].type # "listing"

NoListing == \A i \in DOMAIN news : news[i].type # "listing"

(* Other news leaves the last listing the last; a listing becomes it. *)
LEMMA GrownLast ==
    ASSUME STypes, NEW event, news' = Append(news, event)
    PROVE  /\ event.type # "listing" =>
                 /\ \A i \in DOMAIN news' :
                       SLastListing(i)' => i \in DOMAIN news /\ SLastListing(i) /\ news'[i] = news[i]
                 /\ NoListing' => NoListing
           /\ event.type = "listing" =>
                 /\ \A i \in DOMAIN news' :
                       SLastListing(i)' => news'[i] = event /\ \A j \in DOMAIN news' : ~ (j > i)
                 /\ ~NoListing'
<1> DEFINE last == Len(news) + 1
<1>1. /\ last \in DOMAIN news' /\ news'[last] = event
      /\ \A i \in DOMAIN news : i \in DOMAIN news' /\ news'[i] = news[i]
      /\ \A i \in DOMAIN news' : (i \in DOMAIN news /\ last > i) \/ i = last
  BY NewsGrow
<1>2. \A i \in DOMAIN news' : ~ (i > last)
  BY NewsGrow
<1> HIDE DEF last
<1>3. CASE event.type = "listing"
  BY <1>1, <1>2, <1>3 DEF SLastListing, NoListing
<1>4. CASE event.type # "listing"
  BY <1>1, <1>4 DEF SLastListing, NoListing
<1> QED BY <1>3, <1>4

LEMMA ShiftedLast ==
    ASSUME STypes, news # <<>>, news' = Tail(news)
    PROVE  /\ \A i \in DOMAIN news' : SLastListing(i)' => SLastListing(i + 1)
           /\ NoListing' => (IF Head(news).type = "listing" THEN SLastListing(1) ELSE NoListing)
<1>1. ASSUME NEW i \in DOMAIN news', SLastListing(i)'
      PROVE  SLastListing(i + 1)
  <2>1. news[i + 1].type = "listing"
    BY <1>1, NewsShift DEF SLastListing
  <2>2. ASSUME NEW j \in DOMAIN news, j > i + 1
        PROVE  news[j].type # "listing"
    <3>1. i \in Int /\ j \in Int /\ i + 1 > 1
      BY <1>1, <2>2, NewsShift
    <3>2. j > 1 /\ j - 1 > i
      BY <2>2, <3>1
    <3>3. j - 1 \in DOMAIN news' /\ news'[j - 1] = news[j]
      BY <2>2, <3>2, NewsShift
    <3> QED BY <1>1, <3>2, <3>3 DEF SLastListing
  <2> QED BY <2>1, <2>2 DEF SLastListing
<1>2. ASSUME NoListing'
      PROVE  IF Head(news).type = "listing" THEN SLastListing(1) ELSE NoListing
  <2>1. \A i \in DOMAIN news : i = 1 \/ news[i].type # "listing"
    BY <1>2, NewsShift DEF NoListing
  <2>2. news[1] = Head(news) /\ ~ (1 > 1)
    BY NewsShift
  <2> QED BY <2>1, <2>2 DEF NoListing, SLastListing
<1> QED BY <1>1, <1>2

-----------------------------------------------------------------------------
(* The rows on their way out. *)

Ahead == \E c \in Calls : phase[c] \in {"sent", "acting", "going"}

UnderWay == \E c \in Calls : IsNewest(c) /\ phase[c] # "over"

Settling(i) == news[i].type \in {"listing", "failed"}

(* While a row is on its way out there is a command that has not set out,  *)
(* a newest one that is not over, or news that brings the row back: one    *)
(* that is overtaken leaves the row to the one that overtook it.           *)
Departing ==
    leaving # {} => Ahead \/ UnderWay \/ \E i \in DOMAIN news : Settling(i)

LEMMA DepartingInit == SInit => Departing
BY DEF SInit, Departing

LEMMA GoesAhead ==
    ASSUME STypes, NEW c \in Calls, Sent(c) \/ Looked(c) \/ Went(c)
    PROVE  Ahead'
BY OthersStay DEF Sent, Looked, Went, Ahead

LEMMA StaysAhead ==
    ASSUME STypes, NEW c \in Calls, Goes(c),
           phase[c] \notin {"sent", "acting", "going"}, Ahead
    PROVE  Ahead'
<1>1. PICK d \in Calls : phase[d] \in {"sent", "acting", "going"}
  BY DEF Ahead
<1>2. \E a, b : Turn(c, a, b)
  BY DEF Goes, Sent, Looked, Went, GaveUp, SetsOut, Answers, Dropped, Counts, Moves, Tells
<1>3. d # c /\ phase'[d] = phase[d]
  BY <1>1, <1>2, OthersStay
<1> QED BY <1>1, <1>3 DEF Ahead

(* Setting out is being the newest; until it is over the newest stays it. *)
LEMMA GoesUnderWay ==
    ASSUME STypes, Tokens, NEW c \in Calls, Goes(c)
    PROVE  /\ SetsOut(c) => UnderWay'
           /\ Answers(c) \/ Dropped(c) \/ Counts(c) \/ Moves(c) => (UnderWay => UnderWay')
<1>1. ASSUME SetsOut(c)
      PROVE  UnderWay'
  <2>1. navigation \in Nat /\ token \in [Calls -> 0 .. navigation]
    BY DEF STypes, EngineTypes
  <2>2. token'[c] = navigation' /\ token'[c] > 0 /\ phase'[c] = "listing"
    BY <1>1, <2>1, OthersStay DEF SetsOut
  <2> QED BY <2>2 DEF UnderWay, IsNewest
<1>2. ASSUME Answers(c) \/ Counts(c) \/ Moves(c), UnderWay
      PROVE  UnderWay'
  <2>1. PICK d \in Calls : IsNewest(d) /\ phase[d] # "over"
    BY <1>2 DEF UnderWay
  <2>2. UNCHANGED <<token, navigation>>
    BY <1>2 DEF Answers, Counts, Moves
  <2>3. phase'[d] # "over"
    BY <1>2, <2>1, OthersStay DEF Answers, Counts, Moves
  <2> QED BY <2>1, <2>2, <2>3 DEF UnderWay, IsNewest
<1>3. ASSUME Dropped(c), UnderWay
      PROVE  UnderWay'
  <2>1. PICK d \in Calls : IsNewest(d) /\ phase[d] # "over"
    BY <1>3 DEF UnderWay
  <2>2. d # c /\ UNCHANGED <<token, navigation>>
    BY <1>3, <2>1 DEF Dropped, IsNewest
  <2>3. phase'[d] = phase[d]
    BY <1>3, <2>2, OthersStay DEF Dropped
  <2> QED BY <2>1, <2>2, <2>3 DEF UnderWay, IsNewest
<1> QED BY <1>1, <1>2, <1>3

LEMMA DepartingGoes ==
    ASSUME STypes, Tokens, Departing, NEW c \in Calls, Goes(c),
           Sent(c) \/ leaving' = leaving
    PROVE  Departing'
<1>1. CASE Sent(c) \/ Looked(c) \/ Went(c) \/ SetsOut(c)
  BY <1>1, GoesAhead, GoesUnderWay DEF Departing
<1>2. CASE GaveUp(c) \/ Tells(c)
  <2>1. PICK event : news' = Append(news, event) /\ event.type \in {"listing", "failed"}
    BY <1>2 DEF GaveUp, Tells
  <2>2. \E i \in DOMAIN news' : news'[i] = event
    BY <2>1, NewsGrow
  <2> QED BY <2>1, <2>2 DEF Departing, Settling
<1>3. CASE Answers(c) \/ Dropped(c) \/ Counts(c) \/ Moves(c)
  <2>1. leaving' = leaving
    BY <1>3 DEF Sent, Answers, Dropped, Counts, Moves, list
  <2>2. Ahead => Ahead'
    BY <1>3, StaysAhead DEF Answers, Dropped, Counts, Moves, Turn
  <2>3. \A i \in DOMAIN news : Settling(i) => i \in DOMAIN news' /\ Settling(i)'
    BY <1>3, NewsGrow DEF Settling, Answers, Dropped, Counts, Moves
  <2> QED BY <1>3, <2>1, <2>2, <2>3, GoesUnderWay DEF Departing
<1> QED BY <1>1, <1>2, <1>3 DEF Goes

LEMMA DepartingStep == STypes /\ Tokens /\ Departing /\ [SNext]_svars => Departing'
<1> SUFFICES ASSUME STypes, Tokens, Departing, [SNext]_svars PROVE Departing'
  OBVIOUS
<1>0. ASSUME UNCHANGED <<phase, token, navigation>>
      PROVE  (Ahead => Ahead') /\ (UnderWay => UnderWay')
  BY <1>0 DEF Ahead, UnderWay, IsNewest
<1>1. ASSUME UNCHANGED <<phase, token, navigation, leaving>>,
             UNCHANGED news \/ \E event : news' = Append(news, event)
      PROVE  Departing'
  <2>1. \A i \in DOMAIN news : Settling(i) => i \in DOMAIN news' /\ Settling(i)'
    BY <1>1, NewsGrow DEF Settling
  <2> QED BY <1>0, <1>1, <2>1 DEF Departing
<1>2. ASSUME NEW c \in Calls, Gesture(c)
      PROVE  Departing'
  BY <1>1, <1>2, GestureViewed, DepartingGoes DEF Picks, Rests, Goes, list
<1>3. ASSUME NEW c \in Calls, Command(c)
      PROVE  Departing'
  <2>1. Goes(c)
    BY <1>3, CommandViewed
  <2>2. Sent(c) \/ leaving' = leaving
    BY <2>1 DEF Goes, Looked, Went, GaveUp, SetsOut, Answers, Dropped, Counts, Moves, Tells, list
  <2> QED BY <2>1, <2>2, DepartingGoes
<1>4. ASSUME NEW t \in Uploads, Uploading(t)
      PROVE  Departing'
  <2>1. Afterwards[t] \in Calls
    BY ScreenAssumption
  <2>2. CASE Sent(Afterwards[t])
    BY <2>1, <2>2, DepartingGoes DEF Goes
  <2>3. CASE Rests /\ (Announces(t) \/ Leaves(t)) /\ UNCHANGED list
    BY <1>1, <2>3 DEF Rests, Announces, Leaves, list
  <2>4. CASE Lands(t) /\ UNCHANGED <<phase, token, navigation, list>>
    BY <1>1, <2>4 DEF Lands, list
  <2> QED BY <1>4, <2>2, <2>3, <2>4, UploadViewed
<1>5. CASE Receive
  <2>1. CASE Replace \/ HearFailed
    BY <2>1 DEF Replace, HearFailed, Departing
  <2>2. CASE SetBusy \/ Expect \/ Arrived
    <3>1. ~ Settling(1) /\ UNCHANGED leaving
      BY <2>2, <1>5, ReceiveViewed, NewsShift
         DEF SetBusy, HearWorking, Expect, Arrived, NewsIs, Heard, Settling, list
    <3>2. ASSUME NEW i \in DOMAIN news, Settling(i)
          PROVE  \E k \in DOMAIN news' : Settling(k)'
      <4>1. i > 1
        BY <1>5, <3>1, <3>2, ReceiveViewed, NewsShift DEF Heard
      <4>2. i - 1 \in DOMAIN news' /\ news'[i - 1] = news[i]
        BY <1>5, <3>2, <4>1, ReceiveViewed, NewsShift DEF Heard
      <4> QED BY <3>2, <4>2 DEF Settling
    <3> QED BY <1>0, <1>5, <3>1, <3>2, ReceiveViewed DEF Heard, Rests, Departing
  <2> QED BY <1>5, <2>1, <2>2 DEF Receive
<1>6. CASE UNCHANGED svars
  BY <1>1, <1>6 DEF svars, vars, engine, window, list
<1> QED BY <1>2, <1>3, <1>4, <1>5, <1>6 DEF SNext

(* When nothing is under way the newest command is over. *)
LEMMA NothingUnderWay ==
    ASSUME Tokens, Quiet
    PROVE  ~Ahead /\ ~UnderWay
BY DEF Tokens, STokensByPhase, Quiet, Live, Ahead, UnderWay, IsNewest

THEOREM STyping == SSpec => [](STypes /\ Tokens)
<1>1. SInit => STypes /\ Tokens
  BY STypesInit, STokensInit
<1>2. STypes /\ Tokens /\ [SNext]_svars => STypes' /\ Tokens'
  BY STypesStep, STokensStep
<1> QED BY <1>1, <1>2, PTL DEF SSpec

(* However many deletions and moves overlap, and whichever of them are     *)
(* overtaken or refused, no row goes on looking as though it were going    *)
(* once everything has settled.                                            *)
THEOREM DeparturesAlwaysEnd == SSpec => []DeparturesEnd
<1>1. SSpec => []Departing
  BY DepartingInit, DepartingStep, STyping, PTL DEF SSpec
<1>2. Tokens /\ Departing => DeparturesEnd
  <2> SUFFICES ASSUME Tokens, Departing, Still PROVE leaving \cap Rows = {}
    BY DEF DeparturesEnd
  <2>1. news = <<>> /\ ~Ahead /\ ~UnderWay
    BY NothingUnderWay DEF Still, Quiet
  <2>2. DOMAIN news = {}
    BY <2>1
  <2> QED BY <2>1, <2>2 DEF Departing
<1> QED BY <1>1, <1>2, STyping, PTL

-----------------------------------------------------------------------------
(* The folder the window shows is the one its connection is in. *)

SNobodyMoves == \A c \in Calls : phase[c] # "moved"

(* Between a move and its listing the window is behind; otherwise, while   *)
(* the commands are orderly, the listing that is heard last is of the      *)
(* folder the connection is in.                                            *)
Follows ==
    orderly /\ SNobodyMoves =>
        /\ \A i \in DOMAIN news : SLastListing(i) => news[i].folder = path
        /\ NoListing => shown = path

LEMMA FollowsInit == SInit => Follows
BY DEF SInit, Init, Follows

LEMMA FollowsGoes ==
    ASSUME STypes, Tokens, Follows, NEW c \in Calls, Goes(c)
    PROVE  Follows'
<1>1. (SetsOut(c) \/ SameTokens(c)) /\ (orderly' => orderly)
  BY GoesOn DEF SameTokens, SetsOut
<1>2. CASE Tells(c)
  <2>1. news' = Append(news, [type |-> "listing", folder |-> target[c], entries |-> got[c]])
    BY <1>2 DEF Tells
  <2>2. ~NoListing' /\ \A i \in DOMAIN news' : SLastListing(i)' => news'[i].folder = target[c]
    BY <2>1, GrownLast
  <2>3. phase[c] = "moved" /\ path' = path
    BY <1>2 DEF Tells, Turn
  <2>4. orderly' => path' = target[c]
    BY <1>1, <2>3 DEF Tokens, MovedThere
  <2> QED BY <2>2, <2>4 DEF Follows
<1>3. CASE Moves(c)
  BY <1>3, OthersStay DEF Moves, Follows, SNobodyMoves
<1>4. CASE ~Tells(c) /\ ~Moves(c)
  <2>1. path' = path /\ shown' = shown
    BY <1>4 DEF Goes, Sent, Looked, Went, GaveUp, SetsOut, Answers, Dropped, Counts
  <2>2. news' = news \/ \E event : news' = Append(news, event) /\ event.type # "listing"
    BY <1>4 DEF Goes, Sent, Looked, Went, GaveUp, SetsOut, Answers, Dropped, Counts
  <2>3. SNobodyMoves' => SNobodyMoves
    <3>1. phase[c] # "moved"
      BY <1>4 DEF Goes, Sent, Looked, Went, GaveUp, SetsOut, Answers, Dropped, Counts, Turn
    <3>2. \A d \in Calls \ {c} : phase'[d] = phase[d]
      BY <1>4, OthersStay DEF Goes, Sent, Looked, Went, GaveUp, SetsOut, Answers, Dropped, Counts
    <3> QED BY <3>1, <3>2 DEF SNobodyMoves
  <2>4. /\ \A i \in DOMAIN news' : SLastListing(i)' =>
              i \in DOMAIN news /\ SLastListing(i) /\ news'[i] = news[i]
        /\ NoListing' => NoListing
    BY <2>2, GrownLast DEF SLastListing, NoListing
  <2> QED BY <1>1, <2>1, <2>3, <2>4 DEF Follows
<1> QED BY <1>2, <1>3, <1>4

LEMMA FollowsStep == STypes /\ Tokens /\ Follows /\ [SNext]_svars => Follows'
<1> SUFFICES ASSUME STypes, Tokens, Follows, [SNext]_svars PROVE Follows'
  OBVIOUS
<1>1. ASSUME UNCHANGED <<phase, orderly, path, shown>>,
             news' = news \/ \E event : news' = Append(news, event) /\ event.type # "listing"
      PROVE  Follows'
  <2>1. /\ \A i \in DOMAIN news' : SLastListing(i)' =>
              i \in DOMAIN news /\ SLastListing(i) /\ news'[i] = news[i]
        /\ NoListing' => NoListing
    BY <1>1, GrownLast DEF SLastListing, NoListing
  <2> QED BY <1>1, <2>1 DEF Follows, SNobodyMoves
<1>2. ASSUME NEW c \in Calls, Gesture(c)
      PROVE  Follows'
  BY <1>1, <1>2, GestureViewed, FollowsGoes DEF Picks, Rests, Goes
<1>3. ASSUME NEW c \in Calls, Command(c)
      PROVE  Follows'
  BY <1>3, CommandViewed, FollowsGoes
<1>4. ASSUME NEW t \in Uploads, Uploading(t)
      PROVE  Follows'
  <2>1. Afterwards[t] \in Calls
    BY ScreenAssumption
  <2>2. CASE Sent(Afterwards[t])
    BY <2>1, <2>2, FollowsGoes DEF Goes
  <2>3. CASE Rests /\ (Announces(t) \/ Leaves(t)) /\ UNCHANGED shown
    <3>1. /\ UNCHANGED <<phase, orderly, path, shown>>
          /\ news' = news \/ \E event : news' = Append(news, event) /\ event.type # "listing"
      BY <2>3 DEF Rests, Announces, Leaves
    <3> QED BY <1>1, <3>1
  <2>4. CASE Lands(t) /\ UNCHANGED <<phase, orderly, path, shown>>
    BY <1>1, <2>4 DEF Lands
  <2> QED BY <1>4, <2>2, <2>3, <2>4, UploadViewed
<1>5. CASE Receive
  <2>1. news # <<>> /\ news' = Tail(news) /\ UNCHANGED <<phase, orderly, path>>
    BY <1>5, ReceiveViewed DEF Heard, Rests
  <2>2. \A i \in DOMAIN news' :
            i + 1 \in DOMAIN news /\ news'[i] = news[i + 1] /\ (SLastListing(i)' => SLastListing(i + 1))
    BY <2>1, NewsShift, ShiftedLast
  <2>3. NoListing' => (IF Head(news).type = "listing" THEN SLastListing(1) ELSE NoListing)
    BY <2>1, ShiftedLast
  <2>4. 1 \in DOMAIN news /\ news[1] = Head(news)
    BY <2>1, NewsShift
  <2>5. Head(news).type = "listing" => shown' = news[1].folder
    BY <1>5, <2>4, ReceiveViewed DEF Replace, HearListing
  <2>6. Head(news).type # "listing" => shown' = shown
    BY <1>5, ReceiveViewed DEF Replace, HearListing
  <2> QED BY <2>1, <2>2, <2>3, <2>4, <2>5, <2>6 DEF Follows, SNobodyMoves
<1>6. CASE UNCHANGED svars
  BY <1>1, <1>6 DEF svars, vars, engine, window, history
<1> QED BY <1>2, <1>3, <1>4, <1>5, <1>6 DEF SNext

-----------------------------------------------------------------------------
(* The names to delete. *)

Alone(c) == \A d \in Calls \ {c} : ~Live(d)

Last(c) == Len(asks) = since[c] + 1 /\ asks[Len(asks)] = c

(* What was picked while nothing was under way is picked where the         *)
(* connection is, and stays so until something else is sent.               *)
PickedHere(c) ==
    /\ since[c] <= Len(asks)
    /\ phase[c] = "idle" /\ Len(asks) = since[c] =>
          Alone(c) /\ (orderly => path = from[c])
    /\ Last(c) /\ phase[c] = "sent" => Alone(c) /\ (orderly => path = from[c])
    /\ Last(c) /\ phase[c] = "acting" /\ orderly => target[c] = from[c]

Picked == \A c \in Calls : since[c] >= 0 => PickedHere(c)

LEMMA PickedInit == SInit => Picked
BY DEF SInit, Picked

LEMMA PickedSent ==
    ASSUME STypes, Picked, NEW c \in Calls, Sent(c)
    PROVE  Picked'
<1>1. Len(asks) \in Nat /\ Len(asks') = Len(asks) + 1 /\ asks'[Len(asks')] = c
  <2>1. asks \in Seq(Calls) /\ asks' = Append(asks, c)
    BY DEF STypes, EngineTypes, Sent
  <2> QED BY <2>1
<1>2. phase[c] = "idle" /\ phase'[c] = "sent" /\ \A d \in Calls \ {c} : phase'[d] = phase[d]
  BY OthersStay DEF Sent
<1>3. UNCHANGED <<path, orderly, since, from>>
  BY DEF Sent
<1>4. ASSUME NEW d \in Calls, since[d] >= 0
      PROVE  PickedHere(d)'
  <2>1. since[d] \in Int /\ since[d] <= Len(asks)
    BY <1>4 DEF STypes, WorkTypes, Picked, PickedHere
  <2>2. since'[d] = since[d] /\ since'[d] <= Len(asks') /\ Len(asks') # since'[d]
    BY <1>1, <1>3, <2>1
  <2>3. ASSUME Last(d)'
        PROVE  d = c /\ Len(asks) = since[d]
    BY <1>1, <2>1, <2>2, <2>3 DEF Last
  <2>4. Last(d)' => /\ phase'[d] = "sent" /\ Alone(d)'
                    /\ orderly' => path' = from'[d]
    BY <1>2, <1>3, <1>4, <2>3 DEF Picked, PickedHere, Alone, Live
  <2> QED BY <2>2, <2>4 DEF PickedHere
<1> QED BY <1>3, <1>4 DEF Picked

LEMMA PickedGoes ==
    ASSUME STypes, Picked, NEW c \in Calls, Goes(c)
    PROVE  Picked'
<1>1. CASE Sent(c)
  BY <1>1, PickedSent
<1>2. CASE ~Sent(c)
  <2>1. UNCHANGED <<asks, since, from>>
    BY <1>2 DEF Goes, Looked, Went, GaveUp, SetsOut, Answers, Dropped, Counts, Moves, Tells, work
  <2>2. Live(c) /\ phase'[c] \notin {"idle", "sent"}
    <3>1. CASE Looked(c) \/ Went(c) \/ GaveUp(c)
      BY <3>1, OthersStay DEF Looked, Went, GaveUp, Live
    <3>2. CASE SetsOut(c) \/ Answers(c) \/ Dropped(c)
      BY <3>2, OthersStay DEF SetsOut, Answers, Dropped, Live
    <3>3. CASE Counts(c) \/ Moves(c) \/ Tells(c)
      BY <3>3, OthersStay DEF Counts, Moves, Tells, Live
    <3> QED BY <1>2, <3>1, <3>2, <3>3 DEF Goes
  <2>3. \A d \in Calls \ {c} : phase'[d] = phase[d]
    BY <1>2, OthersStay
       DEF Goes, Looked, Went, GaveUp, SetsOut, Answers, Dropped, Counts, Moves, Tells
  <2>4. orderly' => orderly
    BY <1>2 DEF Goes, Looked, Went, GaveUp, SetsOut, Answers, Dropped, Counts, Moves, Tells
  <2>5. \A d \in Calls \ {c} : target'[d] = target[d]
    BY <1>2 DEF Goes, Looked, Went, GaveUp, SetsOut, Answers, Dropped, Counts, Moves, Tells,
                STypes, EngineTypes
  <2>6. phase'[c] = "acting" => phase[c] = "sent" /\ target'[c] = path
    BY <1>2, OthersStay
       DEF Goes, Looked, Went, GaveUp, SetsOut, Answers, Dropped, Counts, Moves, Tells,
           STypes, EngineTypes
  <2>7. ASSUME NEW d \in Calls, since[d] >= 0
        PROVE  PickedHere(d)'
    <3>1. PickedHere(d)
      BY <2>7 DEF Picked
    <3>2. Last(d)' <=> Last(d)
      BY <2>1 DEF Last
    <3>3. CASE d = c
      BY <2>1, <2>2, <2>4, <2>6, <3>1, <3>2, <3>3 DEF PickedHere
    <3>4. CASE d # c
      <4>1. ~Alone(d) /\ phase'[d] = phase[d] /\ target'[d] = target[d]
        BY <2>2, <2>3, <2>5, <3>4 DEF Alone
      <4> QED BY <2>1, <2>4, <3>1, <3>2, <4>1 DEF PickedHere
    <3> QED BY <3>3, <3>4
  <2> QED BY <2>1, <2>7 DEF Picked
<1> QED BY <1>1, <1>2

LEMMA PickedPicks ==
    ASSUME STypes, Follows, Picked, NEW c \in Calls, Picks(c)
    PROVE  Picked'
<1>1. UNCHANGED <<path, phase, target, asks, orderly>> /\ phase[c] = "idle"
  BY DEF Picks, Rests
<1>2. /\ since'[c] = (IF Quiet THEN Len(asks) ELSE -1)
      /\ from'[c] = shown
      /\ \A d \in Calls \ {c} : since'[d] = since[d] /\ from'[d] = from[d]
  BY DEF Picks, STypes, WorkTypes
<1>3. ASSUME Quiet
      PROVE  PickedHere(c)'
  <2>1. Len(asks) \in Nat /\ since'[c] = Len(asks)
    BY <1>2, <1>3 DEF STypes, EngineTypes
  <2>2. ~Last(c)' /\ since'[c] <= Len(asks')
    BY <1>1, <2>1 DEF Last
  <2>3. NoListing /\ SNobodyMoves
    <3>1. news = <<>> /\ DOMAIN news = {}
      BY <1>3 DEF Quiet
    <3> QED BY <1>3, <3>1 DEF NoListing, SNobodyMoves, Quiet, Live
  <2>4. Alone(c)' /\ (orderly' => path' = from'[c])
    BY <1>1, <1>2, <1>3, <2>3 DEF Quiet, Alone, Live, Follows
  <2> QED BY <2>2, <2>4 DEF PickedHere
<1>4. ASSUME NEW d \in Calls, since'[d] >= 0
      PROVE  PickedHere(d)'
  <2>1. CASE d = c
    BY <1>2, <1>3, <1>4, <2>1
  <2>2. CASE d # c
    <3>1. since'[d] = since[d] /\ from'[d] = from[d] /\ PickedHere(d)
      BY <1>2, <1>4, <2>2 DEF Picked
    <3> QED BY <1>1, <3>1 DEF PickedHere, Last, Alone, Live
  <2> QED BY <2>1, <2>2
<1> QED BY <1>4 DEF Picked

LEMMA PickedStep == STypes /\ Follows /\ Picked /\ [SNext]_svars => Picked'
<1> SUFFICES ASSUME STypes, Follows, Picked, [SNext]_svars PROVE Picked'
  OBVIOUS
<1>1. ASSUME UNCHANGED <<path, phase, target, asks, orderly, since, from>>
      PROVE  Picked'
  BY <1>1 DEF Picked, PickedHere, Last, Alone, Live
<1>2. ASSUME NEW c \in Calls, Gesture(c)
      PROVE  Picked'
  BY <1>2, GestureViewed, PickedPicks, PickedSent
<1>3. ASSUME NEW c \in Calls, Command(c)
      PROVE  Picked'
  BY <1>3, CommandViewed, PickedGoes
<1>4. ASSUME NEW t \in Uploads, Uploading(t)
      PROVE  Picked'
  <2>1. Afterwards[t] \in Calls
    BY ScreenAssumption
  <2> QED BY <1>1, <1>4, <2>1, UploadViewed, PickedSent DEF Rests
<1>5. CASE Receive
  BY <1>1, <1>5, ReceiveViewed DEF Heard, Rests
<1>6. CASE UNCHANGED svars
  BY <1>1, <1>6 DEF svars, vars, engine, history, work
<1> QED BY <1>2, <1>3, <1>4, <1>5, <1>6 DEF SNext

(* What is deleted is deleted in the folder it was picked in, as long as   *)
(* nothing was under way then and nothing else was sent before the command *)
(* began.                                                                  *)
THEOREM AlwaysDeletedWherePicked == SSpec => []DeletedWherePicked
<1>1. SSpec => []Follows
  BY FollowsInit, FollowsStep, STyping, PTL DEF SSpec
<1>2. SSpec => []Picked
  BY PickedInit, PickedStep, STyping, <1>1, PTL DEF SSpec
<1>3. Picked => DeletedWherePicked
  BY DEF Picked, PickedHere, Last, DeletedWherePicked
<1> QED BY <1>2, <1>3, PTL

-----------------------------------------------------------------------------
(* The list ends true: what the newest command has found.                  *)

(* The uploads that the list may be behind with: those nobody will list    *)
(* for, and, while one is there that will have the folder listed or that   *)
(* others left it to, all that have begun.                                 *)
Promised == \E t \in Uploads : upload[t] \in {"moving", "landed", "told"}

Behind == overlooked \cup (IF Promised THEN Begun ELSE {})

NamesBehind(folder) == {Called[t] : t \in {u \in Behind : Into[u] = folder}}

AlmostIs(names, folder) == names \ NamesBehind(folder) = server[folder] \ NamesBehind(folder)

Found == {"answered", "current", "moved", "over"}

(* What the newest command found is what the server has but for these,     *)
(* unless there is a command ahead that will list the folder again.        *)
Seen ==
    refused = {} /\ ~Ahead =>
        /\ \A c \in Calls :
              IsNewest(c) /\ phase[c] \in Found => AlmostIs(got[c], target[c])
        /\ navigation = 0 => \A folder \in Folders : AlmostIs(HeldAtFirst[folder], folder)

(* What the newest command found is what the list shows once it has heard  *)
(* of it.                                                                  *)
Shows ==
    orderly /\ refused = {} =>
        /\ \A c \in Calls : IsNewest(c) /\ phase[c] = "over" =>
              /\ \A i \in DOMAIN news : SLastListing(i) =>
                    news[i].folder = target[c] /\ news[i].entries = got[c]
              /\ NoListing => shown = target[c] /\ entries = got[c]
        /\ navigation = 0 =>
              NoListing /\ shown = Root /\ entries = HeldAtFirst[Root]

LEMMA SeenInit == SInit => Seen /\ Shows
<1> SUFFICES ASSUME SInit PROVE Seen /\ Shows
  OBVIOUS
<1>1. token = [c \in Calls |-> 0] /\ news = <<>> /\ DOMAIN news = {}
  BY DEF SInit, Init
<1>2. \A c \in Calls : ~IsNewest(c)
  BY <1>1 DEF IsNewest
<1> QED BY <1>1, <1>2 DEF SInit, Init, Seen, Shows, AlmostIs, NoListing

LEMMA NewestIsOne ==
    ASSUME Tokens, NEW c \in Calls, NEW d \in Calls, IsNewest(d), token[c] = navigation
    PROVE  d = c
BY DEF Tokens, TokensDiffer, IsNewest

LEMMA NewestSetsOut ==
    ASSUME STypes, NEW c \in Calls, SetsOut(c)
    PROVE  /\ navigation' # 0
           /\ \A d \in Calls : IsNewest(d)' => d = c
           /\ phase'[c] = "listing"
<1>1. navigation \in Nat /\ token \in [Calls -> 0 .. navigation]
  BY DEF STypes, EngineTypes
<1>2. \A d \in Calls \ {c} : token'[d] \in 0 .. navigation
  BY <1>1 DEF SetsOut
<1>3. navigation' = navigation + 1 /\ phase'[c] = "listing"
  BY OthersStay DEF SetsOut
<1> QED BY <1>1, <1>2, <1>3 DEF IsNewest

(* Who is not the newest now does not become it but by setting out. *)
LEMMA NewestStays ==
    ASSUME STypes, Tokens, NEW c \in Calls, Goes(c), ~SetsOut(c)
    PROVE  /\ \A d \in Calls : IsNewest(d)' <=> IsNewest(d)
           /\ navigation' = navigation
           /\ phase[c] \in {"idle", "sent", "acting", "going"} => ~IsNewest(c)
BY GoesOn DEF SameTokens, IsNewest, Tokens, STokensByPhase

(* Nobody stops being one of them but by being listed for, *)
LEMMA BehindGrows ==
    ASSUME STypes, NEW t \in Uploads, Announces(t) \/ Leaves(t) \/ Lands(t)
    PROVE  /\ Behind \subseteq Behind'
           /\ upload[t] # "none" => t \in Behind'
           /\ \A u \in Uploads \ {t} : upload'[u] = upload[u]
<1>1. upload \in [Uploads -> Stages]
  BY DEF STypes, WorkTypes
<1>2. \A u \in Uploads \ {t} : upload'[u] = upload[u]
  BY <1>1 DEF Announces, Leaves, Lands, GetsTo
<1>3. CASE upload'[t] \in {"moving", "landed", "told"}
  <2>1. Promised' /\ Begun \subseteq Begun' /\ t \in Begun'
    BY <1>2, <1>3 DEF Promised, Begun
  <2>2. overlooked' = overlooked
    BY <1>1, <1>3 DEF Announces, Leaves, Lands, GetsTo
  <2> QED BY <1>2, <2>1, <2>2 DEF Behind
<1>4. CASE upload'[t] = "off" \/ (Leaves(t) /\ ~\E u \in Uploads : InFlight(u))
  <2>1. overlooked' = overlooked \cup Begun
    BY <1>1, <1>4 DEF Announces, Leaves, Lands, GetsTo
  <2> QED BY <1>2, <2>1 DEF Behind, Begun
<1>5. CASE Leaves(t) /\ \E u \in Uploads : InFlight(u)
  <2>1. PICK u \in Uploads : upload[u] = "moving"
    BY <1>5 DEF InFlight
  <2>2. upload[t] = "told" /\ upload'[t] = "over" /\ overlooked' = overlooked
    BY <1>1, <1>5 DEF Leaves, GetsTo
  <2>3. Promised' /\ Begun' = Begun /\ t \in Begun
    BY <1>2, <2>1, <2>2 DEF Promised, Begun
  <2> QED BY <1>2, <2>2, <2>3 DEF Behind
<1>6. CASE upload[t] = "off" /\ upload'[t] = "over" /\ overlooked' = overlooked \cup {t}
  <2>1. (Promised => Promised') /\ Begun' = Begun
    BY <1>2, <1>6 DEF Promised, Begun
  <2> QED BY <1>2, <1>6, <2>1 DEF Behind
<1>7. \/ upload'[t] \in {"moving", "landed", "told", "off"}
      \/ Leaves(t)
      \/ upload[t] = "off" /\ upload'[t] = "over" /\ overlooked' = overlooked \cup {t}
  BY <1>1 DEF Announces, Lands, GetsTo
<1> QED BY <1>3, <1>4, <1>5, <1>6, <1>7

(* and what an upload makes of a folder is about one of them.              *)
LEMMA AlmostStays ==
    ASSUME STypes, NEW t \in Uploads, Announces(t) \/ Leaves(t) \/ Lands(t),
           Lands(t) \/ server' = server,
           NEW names, NEW folder \in Folders, AlmostIs(names, folder)
    PROVE  AlmostIs(names, folder)'
<1>1. NamesBehind(folder) \subseteq NamesBehind(folder)'
  BY BehindGrows DEF NamesBehind
<1>2. server'[folder] \ NamesBehind(folder)' = server[folder] \ NamesBehind(folder)'
  <2>1. CASE server' = server
    BY <2>1
  <2>2. CASE Lands(t) /\ server' # server
    <3>1. upload[t] # "none" /\ server' = [server EXCEPT ![Into[t]] = @ \cup {Called[t]}]
      BY <2>2 DEF Lands, GetsTo
    <3>2. Into[t] = folder => Called[t] \in NamesBehind(folder)'
      BY <3>1, BehindGrows DEF NamesBehind
    <3>3. server \in [Folders -> SUBSET Names] /\ Into[t] \in Folders
      BY ScreenAssumption DEF STypes, WorkTypes
    <3> QED BY <3>1, <3>2, <3>3
  <2> QED BY <2>1, <2>2
<1> QED BY <1>1, <1>2 DEF AlmostIs

LEMMA SameBehind ==
    ASSUME UNCHANGED queue
    PROVE  /\ Behind' = Behind
           /\ \A folder \in Folders : NamesBehind(folder)' = NamesBehind(folder)
BY DEF queue, Behind, NamesBehind, Promised, Begun

LEMMA SeenGoes ==
    ASSUME STypes, Tokens, Seen, NEW c \in Calls, Goes(c)
    PROVE  Seen'
<1>1. CASE Sent(c) \/ Looked(c) \/ Went(c)
  BY <1>1, GoesAhead DEF Seen
<1>2. CASE GaveUp(c)
  BY <1>2 DEF GaveUp, Seen
<1>3. CASE SetsOut(c)
  <2>1. UNCHANGED <<refused, server, queue>>
    BY <1>3 DEF SetsOut, work
  <2> QED BY <1>3, <2>1, NewestSetsOut DEF Seen, Found
<1>4. CASE Answers(c) \/ Dropped(c) \/ Counts(c) \/ Moves(c) \/ Tells(c)
  <2>1. ~SetsOut(c) /\ phase[c] \notin {"sent", "acting", "going"}
    BY <1>4 DEF Answers, Dropped, Counts, Moves, Tells, SetsOut, Turn
  <2>2. UNCHANGED <<server, target, queue>> /\ refused \subseteq refused'
    BY <1>4 DEF Answers, Dropped, Counts, Moves, Tells, work
  <2>3. Ahead => Ahead'
    BY <2>1, StaysAhead
  <2>4. \A d \in Calls \ {c} : phase'[d] = phase[d] /\ got'[d] = got[d]
    BY <1>4, OthersStay DEF Answers, Dropped, Counts, Moves, Tells, work, STypes, WorkTypes
  <2>5. got'[c] = server[target[c]] \/ (got'[c] = got[c] /\ phase[c] \in Found)
    BY <1>4, OthersStay DEF Answers, Dropped, Counts, Moves, Tells, work, STypes, WorkTypes, Found
  <2>6. \A d \in Calls : IsNewest(d)' <=> IsNewest(d)
    BY <2>1, NewestStays
  <2>7. navigation' = navigation
    BY <2>1, NewestStays
  <2>8. target \in [Calls -> Folders]
    BY DEF STypes, EngineTypes
  <2>9. \A folder \in Folders : NamesBehind(folder)' = NamesBehind(folder)
    BY <2>2, SameBehind
  <2>10. ASSUME refused' = {}, ~Ahead', NEW d \in Calls, IsNewest(d)', phase'[d] \in Found
         PROVE  AlmostIs(got[d], target[d])'
    <3>1. AlmostIs(got'[d], target[d]) \/ got'[d] = server[target[d]]
      BY <2>2, <2>3, <2>4, <2>5, <2>6, <2>10 DEF Seen
    <3>2. NamesBehind(target[d])' = NamesBehind(target[d])
      BY <2>2, <2>8, <2>9
    <3> QED BY <2>2, <3>1, <3>2 DEF AlmostIs
  <2>11. ASSUME refused' = {}, ~Ahead', navigation' = 0, NEW folder \in Folders
         PROVE  AlmostIs(HeldAtFirst[folder], folder)'
    BY <2>2, <2>3, <2>7, <2>9, <2>11 DEF Seen, AlmostIs
  <2> QED BY <2>10, <2>11 DEF Seen
<1> QED BY <1>1, <1>2, <1>3, <1>4 DEF Goes

LEMMA SeenStep == STypes /\ Tokens /\ Seen /\ [SNext]_svars => Seen'
<1> SUFFICES ASSUME STypes, Tokens, Seen, [SNext]_svars PROVE Seen'
  OBVIOUS
<1>0. target \in [Calls -> Folders]
  BY DEF STypes, EngineTypes
<1>1. ASSUME UNCHANGED <<phase, token, navigation, refused, got, target>>,
             \A names : \A folder \in Folders : AlmostIs(names, folder) => AlmostIs(names, folder)'
      PROVE  Seen'
  <2>1. (Ahead => Ahead') /\ \A c \in Calls : IsNewest(c)' <=> IsNewest(c)
    BY <1>1 DEF Ahead, IsNewest
  <2>2. ASSUME refused' = {}, ~Ahead', NEW d \in Calls, IsNewest(d)', phase'[d] \in Found
        PROVE  AlmostIs(got[d], target[d])'
    BY <1>0, <1>1, <2>1, <2>2 DEF Seen
  <2>3. ASSUME refused' = {}, ~Ahead', navigation' = 0, NEW folder \in Folders
        PROVE  AlmostIs(HeldAtFirst[folder], folder)'
    BY <1>1, <2>1, <2>3 DEF Seen
  <2> QED BY <1>1, <2>2, <2>3 DEF Seen, AlmostIs
<1>2. ASSUME Rests, UNCHANGED queue
      PROVE  Seen'
  BY <1>1, <1>2, SameBehind DEF Rests, AlmostIs
<1>3. ASSUME NEW c \in Calls, Gesture(c)
      PROVE  Seen'
  BY <1>2, <1>3, GestureViewed, SeenGoes DEF Picks, Goes
<1>4. ASSUME NEW c \in Calls, Command(c)
      PROVE  Seen'
  BY <1>4, CommandViewed, SeenGoes
<1>5. ASSUME NEW t \in Uploads, Uploading(t)
      PROVE  Seen'
  <2>1. Afterwards[t] \in Calls
    BY ScreenAssumption
  <2>2. CASE Sent(Afterwards[t])
    BY <2>1, <2>2, SeenGoes DEF Goes
  <2>3. CASE Rests /\ (Announces(t) \/ Leaves(t))
    BY <1>1, <2>3, AlmostStays DEF Rests
  <2>4. CASE Lands(t) /\ UNCHANGED <<phase, token, navigation, refused, got, target>>
    BY <1>1, <2>4, AlmostStays
  <2> QED BY <1>5, <2>2, <2>3, <2>4, UploadViewed
<1>6. CASE Receive
  BY <1>2, <1>6, ReceiveViewed DEF Heard
<1>7. CASE UNCHANGED svars
  BY <1>2, <1>7 DEF svars, vars, engine, history, work, Rests
<1> QED BY <1>3, <1>4, <1>5, <1>6, <1>7 DEF SNext

LEMMA ShowsGoes ==
    ASSUME STypes, Tokens, Shows, NEW c \in Calls, Goes(c)
    PROVE  Shows'
<1>1. CASE GaveUp(c)
  BY <1>1 DEF GaveUp, Shows
<1>2. CASE SetsOut(c)
  BY <1>2, NewestSetsOut DEF Shows
<1>3. CASE Tells(c)
  <2> SUFFICES ASSUME orderly', refused' = {} PROVE Shows'
    BY DEF Shows
  <2>1. phase[c] = "moved" /\ UNCHANGED <<token, navigation, target, got, orderly, refused>>
        /\ news' = Append(news, [type |-> "listing", folder |-> target[c], entries |-> got[c]])
    BY <1>3 DEF Tells, Turn, work
  <2>2. token[c] = navigation /\ token[c] > 0 /\ navigation # 0
    BY <2>1 DEF Tokens, SNewestMoves, STokensByPhase
  <2>3. \A d \in Calls : IsNewest(d)' => d = c
    BY <2>1, <2>2, NewestIsOne DEF IsNewest
  <2>4. /\ ~NoListing'
        /\ \A i \in DOMAIN news' : SLastListing(i)' =>
              news'[i].folder = target[c] /\ news'[i].entries = got[c]
    BY <2>1, GrownLast
  <2> QED BY <2>1, <2>2, <2>3, <2>4 DEF Shows
<1>4. CASE ~GaveUp(c) /\ ~SetsOut(c) /\ ~Tells(c)
  <2>1. /\ UNCHANGED <<shown, entries>> /\ (orderly' => orderly) /\ refused \subseteq refused'
        /\ \A d \in Calls \ {c} : phase'[d] = phase[d] /\ target'[d] = target[d]
    <3>1. UNCHANGED <<shown, entries>>
      BY <1>4 DEF Goes, Sent, Looked, Went, Answers, Dropped, Counts, Moves, list
    <3> QED BY <1>4, <3>1, GoesOn DEF SameTokens
  <2>2. \A d \in Calls \ {c} : got'[d] = got[d]
    BY <1>4 DEF Goes, Sent, Looked, Went, Answers, Dropped, Counts, Moves, work, STypes, WorkTypes
  <2>3. news' = news \/ \E event : news' = Append(news, event) /\ event.type # "listing"
    BY <1>4 DEF Goes, Sent, Looked, Went, Answers, Dropped, Counts, Moves
  <2>4. /\ \A i \in DOMAIN news' : SLastListing(i)' =>
              i \in DOMAIN news /\ SLastListing(i) /\ news'[i] = news[i]
        /\ NoListing' => NoListing
    BY <2>3, GrownLast DEF SLastListing, NoListing
  <2>5. NoListing => NoListing'
    BY <2>3, NewsGrow DEF NoListing
  <2>6. \A d \in Calls : IsNewest(d)' /\ phase'[d] = "over" => d # c /\ IsNewest(d)
    <3>1. IsNewest(c)' /\ phase'[c] = "over" => FALSE
      <4>1. CASE Dropped(c)
        BY <4>1, NewestStays, <1>4 DEF Dropped, IsNewest
      <4>2. CASE ~Dropped(c)
        BY <1>4, <4>2, OthersStay DEF Goes, Sent, Looked, Went, Answers, Counts, Moves
      <4> QED BY <4>1, <4>2
    <3> QED BY <1>4, <3>1, NewestStays
  <2>7. navigation' = navigation
    BY <1>4, NewestStays
  <2>8. ASSUME orderly', refused' = {}, NEW d \in Calls, IsNewest(d)', phase'[d] = "over"
        PROVE  /\ \A i \in DOMAIN news' : SLastListing(i)' =>
                     news'[i].folder = target'[d] /\ news'[i].entries = got'[d]
               /\ NoListing' => shown' = target'[d] /\ entries' = got'[d]
    <3>1. d # c /\ IsNewest(d) /\ phase[d] = "over" /\ orderly /\ refused = {}
      BY <2>1, <2>6, <2>8
    <3>2. target'[d] = target[d] /\ got'[d] = got[d]
      BY <2>1, <2>2, <3>1
    <3> QED BY <2>1, <2>4, <3>1, <3>2 DEF Shows
  <2>9. orderly' /\ refused' = {} /\ navigation' = 0 =>
            NoListing' /\ shown' = Root /\ entries' = HeldAtFirst[Root]
    BY <2>1, <2>5, <2>7 DEF Shows
  <2> QED BY <2>8, <2>9 DEF Shows
<1> QED BY <1>1, <1>2, <1>3, <1>4

LEMMA ShowsStep == STypes /\ Tokens /\ Shows /\ [SNext]_svars => Shows'
<1> SUFFICES ASSUME STypes, Tokens, Shows, [SNext]_svars PROVE Shows'
  OBVIOUS
<1>1. ASSUME UNCHANGED <<phase, token, navigation, refused, orderly, got, target, shown, entries>>,
             news' = news \/ \E event : news' = Append(news, event) /\ event.type # "listing"
      PROVE  Shows'
  <2>1. /\ \A i \in DOMAIN news' : SLastListing(i)' =>
              i \in DOMAIN news /\ SLastListing(i) /\ news'[i] = news[i]
        /\ NoListing' => NoListing
    BY <1>1, GrownLast DEF SLastListing, NoListing
  <2>2. NoListing => NoListing'
    BY <1>1, NewsGrow DEF NoListing
  <2>3. \A d \in Calls : IsNewest(d)' <=> IsNewest(d)
    BY <1>1 DEF IsNewest
  <2> QED BY <1>1, <2>1, <2>2, <2>3 DEF Shows
<1>2. ASSUME NEW c \in Calls, Gesture(c)
      PROVE  Shows'
  BY <1>1, <1>2, GestureViewed, ShowsGoes DEF Picks, Rests, Goes, list
<1>3. ASSUME NEW c \in Calls, Command(c)
      PROVE  Shows'
  BY <1>3, CommandViewed, ShowsGoes
<1>4. ASSUME NEW t \in Uploads, Uploading(t)
      PROVE  Shows'
  <2>1. Afterwards[t] \in Calls
    BY ScreenAssumption
  <2>2. CASE Sent(Afterwards[t])
    BY <2>1, <2>2, ShowsGoes DEF Goes
  <2>3. CASE Rests /\ (Announces(t) \/ Leaves(t)) /\ UNCHANGED <<shown, list>>
    BY <1>1, <2>3 DEF Rests, Announces, Leaves, list
  <2>4. CASE Lands(t) /\ UNCHANGED <<phase, token, navigation, refused, orderly, got, target,
                                     shown, list>>
    BY <1>1, <2>4 DEF Lands, list
  <2> QED BY <1>4, <2>2, <2>3, <2>4, UploadViewed
<1>5. CASE Receive
  <2>1. news # <<>> /\ news' = Tail(news)
        /\ UNCHANGED <<phase, token, navigation, refused, orderly, got, target>>
    BY <1>5, ReceiveViewed DEF Heard, Rests
  <2>2. \A i \in DOMAIN news' :
            i + 1 \in DOMAIN news /\ news'[i] = news[i + 1] /\ (SLastListing(i)' => SLastListing(i + 1))
    BY <2>1, NewsShift, ShiftedLast
  <2>3. NoListing' => (IF Head(news).type = "listing" THEN SLastListing(1) ELSE NoListing)
    BY <2>1, ShiftedLast
  <2>4. 1 \in DOMAIN news /\ news[1] = Head(news)
    BY <2>1, NewsShift
  <2>5. Head(news).type = "listing" => shown' = news[1].folder /\ entries' = news[1].entries
    BY <1>5, <2>4, ReceiveViewed DEF Replace, HearListing
  <2>6. Head(news).type # "listing" => UNCHANGED <<shown, entries>>
    BY <1>5 DEF Receive, Replace, HearListing, SetBusy, HearWorking, HearFailed, Otherwise,
                Expect, Arrived, list
  <2>7. \A d \in Calls : IsNewest(d)' <=> IsNewest(d)
    BY <2>1 DEF IsNewest
  <2>8. NoListing => NoListing' /\ Head(news).type # "listing"
    BY <2>2, <2>4 DEF NoListing
  <2>9. ASSUME orderly, refused = {}, NEW d \in Calls, IsNewest(d), phase[d] = "over"
        PROVE  /\ \A i \in DOMAIN news' : SLastListing(i)' =>
                     news'[i].folder = target[d] /\ news'[i].entries = got[d]
               /\ NoListing' => shown' = target[d] /\ entries' = got[d]
    BY <2>2, <2>3, <2>4, <2>5, <2>6, <2>9 DEF Shows
  <2>10. orderly /\ refused = {} /\ navigation = 0 =>
             NoListing' /\ shown' = Root /\ entries' = HeldAtFirst[Root]
    BY <2>6, <2>8 DEF Shows
  <2> QED BY <2>1, <2>7, <2>9, <2>10 DEF Shows
<1>6. CASE UNCHANGED svars
  BY <1>1, <1>6 DEF svars, vars, engine, window, history, work, list
<1> QED BY <1>2, <1>3, <1>4, <1>5, <1>6 DEF SNext

-----------------------------------------------------------------------------
(* The list ends true: the rows that stand in for what is uploaded.        *)

About(i, t) == news[i].type \in {"added", "finished"} /\ news[i].of = t
Ends(i, t) == news[i].type = "finished" /\ news[i].of = t

(* What was said of an upload that is over ends with its end. *)
StandsFor(t) ==
    /\ \A i \in DOMAIN news : About(i, t) /\ ~Ends(i, t) /\ Told(t) =>
          \E j \in DOMAIN news : j > i /\ Ends(j, t)
    /\ upload[t] = "none" => arriving[t] = "no" /\ \A i \in DOMAIN news : ~About(i, t)
    /\ upload[t] \in {"moving", "landed"} => \A i \in DOMAIN news : ~Ends(i, t)
    /\ arriving[t] = "moving" /\ Told(t) => \E i \in DOMAIN news : Ends(i, t)

Stands == \A t \in Uploads : StandsFor(t)

LEMMA StandsInit == SInit => Stands
<1> SUFFICES ASSUME SInit PROVE Stands
  OBVIOUS
<1>1. DOMAIN news = {}
  BY DEF SInit, Init
<1> QED BY <1>1 DEF SInit, Stands, StandsFor, Told

(* News of something else changes nothing of that, *)
LEMMA StandsOn ==
    ASSUME STypes, NEW t \in Uploads, StandsFor(t),
           news' = news \/ \E event : /\ news' = Append(news, event)
                                      /\ event.type \in {"added", "finished"} => event.of # t,
           arriving'[t] = arriving[t],
           \/ upload'[t] = upload[t]
           \/ upload[t] = "moving" /\ upload'[t] = "landed"
           \/ Told(t) /\ Told(t)'
    PROVE  StandsFor(t)'
<1>1. CASE news' = news
  BY <1>1 DEF StandsFor, Told, About, Ends
<1>2. CASE news' # news
  <2>1. PICK event : /\ news' = Append(news, event)
                     /\ event.type \in {"added", "finished"} => event.of # t
    BY <1>2
  <2>2. /\ \A i \in DOMAIN news : i \in DOMAIN news' /\ news'[i] = news[i]
        /\ \A i \in DOMAIN news' : i \in DOMAIN news \/ news'[i] = event
    BY <2>1, NewsGrow
  <2>3. \A i \in DOMAIN news' : About(i, t)' => i \in DOMAIN news /\ About(i, t)
    BY <2>1, <2>2 DEF About
  <2>4. \A i \in DOMAIN news' : Ends(i, t)' => i \in DOMAIN news /\ Ends(i, t)
    BY <2>1, <2>2 DEF Ends
  <2>5. \A i \in DOMAIN news : Ends(i, t) => i \in DOMAIN news' /\ Ends(i, t)'
    BY <2>2 DEF Ends
  <2> QED BY <2>2, <2>3, <2>4, <2>5 DEF StandsFor, Told, About, Ends
<1> QED BY <1>1, <1>2

(* nor that something is heard. *)
LEMMA StandsHeard ==
    ASSUME STypes, NEW t \in Uploads, StandsFor(t), upload' = upload,
           news # <<>>, news' = Tail(news),
           \/ arriving'[t] = "no"
           \/ arriving'[t] = arriving[t] /\ ~Ends(1, t)
           \/ arriving'[t] = "landed" /\ Ends(1, t)
           \/ arriving'[t] = "moving" /\ About(1, t) /\ ~Ends(1, t)
    PROVE  StandsFor(t)'
<1>1. \A i \in DOMAIN news' : /\ i + 1 \in DOMAIN news /\ i \in Int
                              /\ About(i, t)' <=> About(i + 1, t)
                              /\ Ends(i, t)' <=> Ends(i + 1, t)
  BY NewsShift DEF About, Ends
<1>2. \A i \in DOMAIN news : i > 1 /\ Ends(i, t) => i - 1 \in DOMAIN news' /\ Ends(i - 1, t)'
  <2>1. ASSUME NEW i \in DOMAIN news, i > 1, Ends(i, t)
        PROVE  i - 1 \in DOMAIN news' /\ Ends(i - 1, t)'
    <3>1. i - 1 \in DOMAIN news' /\ news'[i - 1] = news[i]
      BY <2>1, NewsShift
    <3> QED BY <2>1, <3>1 DEF Ends
  <2> QED BY <2>1
<1>3. 1 \in DOMAIN news /\ \A i \in DOMAIN news : i \in Int /\ (i = 1 \/ i > 1)
  BY NewsShift
<1>4. ASSUME NEW i \in DOMAIN news', About(i, t)', ~Ends(i, t)', Told(t)
      PROVE  \E j \in DOMAIN news' : j > i /\ Ends(j, t)'
  <2>1. PICK j \in DOMAIN news : j > i + 1 /\ Ends(j, t)
    BY <1>1, <1>4 DEF StandsFor
  <2>2. j > 1 /\ j - 1 > i
    <3>1. i \in Int /\ j \in Int /\ i + 1 \in DOMAIN news
      BY <1>1, <1>3, <1>4, <2>1
    <3>2. i + 1 = 1 \/ i + 1 > 1
      BY <1>3, <3>1
    <3> QED BY <2>1, <3>1, <3>2
  <2> QED BY <1>2, <2>1, <2>2
<1>5. upload[t] = "none" => arriving'[t] = "no" /\ \A i \in DOMAIN news' : ~About(i, t)'
  BY <1>1, <1>3 DEF StandsFor, Ends, About
<1>6. upload[t] \in {"moving", "landed"} => \A i \in DOMAIN news' : ~Ends(i, t)'
  BY <1>1 DEF StandsFor
<1>7. arriving'[t] = "moving" /\ Told(t) => \E i \in DOMAIN news' : Ends(i, t)'
  <2> SUFFICES ASSUME arriving'[t] = "moving", Told(t) PROVE \E i \in DOMAIN news' : Ends(i, t)'
    OBVIOUS
  <2>1. \E i \in DOMAIN news : i > 1 /\ Ends(i, t)
    BY <1>3 DEF StandsFor
  <2> QED BY <1>2, <2>1
<1> QED BY <1>4, <1>5, <1>6, <1>7 DEF StandsFor, Told

LEMMA StandsGoes ==
    ASSUME STypes, Stands, NEW c \in Calls, Goes(c),
           \A t \in Uploads : upload'[t] = upload[t] \/ (Told(t) /\ Told(t)')
    PROVE  Stands'
<1>1. news' = news \/ \E event : /\ news' = Append(news, event)
                                 /\ event.type \notin {"added", "finished"}
  <2>1. CASE Sent(c) \/ Looked(c) \/ Went(c) \/ Dropped(c) \/ Counts(c) \/ Moves(c)
    BY <2>1 DEF Sent, Looked, Went, Dropped, Counts, Moves
  <2>2. CASE GaveUp(c) \/ SetsOut(c) \/ Answers(c) \/ Tells(c)
    BY <2>2 DEF GaveUp, SetsOut, Answers, Tells
  <2> QED BY <2>1, <2>2 DEF Goes
<1>2. arriving' = arriving
  BY DEF Goes, Sent, Looked, Went, GaveUp, SetsOut, Answers, Dropped, Counts, Moves, Tells, list
<1>3. ASSUME NEW t \in Uploads
      PROVE  StandsFor(t)'
  BY <1>1, <1>2, StandsOn DEF Stands
<1> QED BY <1>3 DEF Stands

LEMMA StandsAnnounces ==
    ASSUME STypes, Stands, NEW t \in Uploads, Announces(t), arriving' = arriving
    PROVE  Stands'
<1>1. upload \in [Uploads -> Stages]
  BY DEF STypes, WorkTypes
<1>2. ASSUME NEW u \in Uploads, u # t
      PROVE  StandsFor(u)'
  <2>1. upload'[u] = upload[u]
    BY <1>1, <1>2 DEF Announces, GetsTo
  <2>2. \E event : news' = Append(news, event) /\ event.of # u
    BY <1>2 DEF Announces
  <2> QED BY <2>1, <2>2, StandsOn DEF Stands
<1>3. CASE /\ GetsTo(t, {"none"}, "moving")
           /\ news' = Append(news, [type |-> "added", of |-> t])
  <2>1. upload[t] = "none" /\ upload'[t] = "moving"
    BY <1>1, <1>3 DEF GetsTo
  <2>2. \A i \in DOMAIN news : ~About(i, t) /\ ~Ends(i, t)
    BY <2>1 DEF Stands, StandsFor, About, Ends
  <2>3. \A i \in DOMAIN news' : (i \in DOMAIN news /\ news'[i] = news[i]) \/ news'[i].type = "added"
    BY <1>3, NewsGrow
  <2>4. \A i \in DOMAIN news' : ~Ends(i, t)'
    BY <2>2, <2>3 DEF Ends
  <2>5. StandsFor(t)'
    BY <2>1, <2>4 DEF StandsFor, Told
  <2> QED BY <1>2, <2>5 DEF Stands
<1>4. CASE /\ GetsTo(t, {"landed"}, "told") \/ GetsTo(t, {"moving"}, "off")
           /\ news' = Append(news, [type |-> "finished", of |-> t])
  <2> DEFINE last == Len(news) + 1
             end == [type |-> "finished", of |-> t]
  <2>1. upload'[t] \in {"told", "off"}
    BY <1>1, <1>4 DEF GetsTo
  <2>2. /\ last \in DOMAIN news' /\ news'[last] = end
        /\ \A i \in DOMAIN news' : last > i \/ i = last
    BY <1>4, NewsGrow
  <2>3. end.type = "finished" /\ end.of = t
    OBVIOUS
  <2> HIDE DEF last, end
  <2>4. PICK k \in DOMAIN news' : news'[k] = end /\ \A i \in DOMAIN news' : k > i \/ i = k
    BY <2>2
  <2>5. Ends(k, t)'
    BY <2>3, <2>4 DEF Ends
  <2>6. StandsFor(t)'
    BY <2>1, <2>4, <2>5 DEF StandsFor, Told
  <2> QED BY <1>2, <2>6 DEF Stands
<1> QED BY <1>3, <1>4 DEF Announces

LEMMA StandsReceives ==
    ASSUME STypes, Stands, Receive
    PROVE  Stands'
<1>1. upload' = upload /\ news # <<>> /\ news' = Tail(news)
  BY ReceiveViewed DEF Heard, queue
<1>2. news[1] = Head(news) /\ Head(news) \in ScreenNews
  BY <1>1, NewsShift, TailKept
<1>3. ASSUME NEW t \in Uploads
      PROVE  \/ arriving'[t] = "no"
             \/ arriving'[t] = arriving[t] /\ ~Ends(1, t)
             \/ arriving'[t] = "landed" /\ Ends(1, t)
             \/ arriving'[t] = "moving" /\ About(1, t) /\ ~Ends(1, t)
  <2>1. CASE Replace
    BY <1>2, <2>1 DEF Replace, HearListing, Settle, Ends
  <2>2. CASE SetBusy \/ HearFailed
    BY <1>2, <2>2 DEF SetBusy, HearWorking, HearFailed, NewsIs, list, Ends
  <2>3. CASE Expect
    <3>1. Head(news).type = "added" /\ arriving' = [arriving EXCEPT ![Head(news).of] = "moving"]
      BY <2>3 DEF Expect, NewsIs
    <3>2. ~Ends(1, t) /\ (About(1, t) <=> Head(news).of = t)
      BY <1>2, <3>1 DEF Ends, About
    <3> QED BY <3>1, <3>2 DEF STypes, ListTypes
  <2>4. CASE Arrived
    <3>1. Head(news).type = "finished" /\ arriving' = [arriving EXCEPT ![Head(news).of] = "landed"]
      BY <2>4 DEF Arrived, NewsIs
    <3>2. Ends(1, t) <=> Head(news).of = t
      BY <1>2, <3>1 DEF Ends
    <3> QED BY <3>1, <3>2 DEF STypes, ListTypes
  <2> QED BY <2>1, <2>2, <2>3, <2>4 DEF Receive
<1>4. ASSUME NEW t \in Uploads
      PROVE  StandsFor(t)'
  BY <1>1, <1>3, StandsHeard DEF Stands
<1> QED BY <1>4 DEF Stands

LEMMA StandsStep == STypes /\ Stands /\ [SNext]_svars => Stands'
<1> SUFFICES ASSUME STypes, Stands, [SNext]_svars PROVE Stands'
  OBVIOUS
<1>1. ASSUME UNCHANGED <<news, arriving, upload>>
      PROVE  Stands'
  BY <1>1 DEF Stands, StandsFor, Told, About, Ends
<1>2. ASSUME NEW c \in Calls, Gesture(c)
      PROVE  Stands'
  BY <1>1, <1>2, GestureViewed, StandsGoes DEF Picks, Goes, list, queue
<1>3. ASSUME NEW c \in Calls, Command(c)
      PROVE  Stands'
  BY <1>3, CommandViewed, StandsGoes
<1>4. ASSUME NEW t \in Uploads, Uploading(t)
      PROVE  Stands'
  <2>0. Afterwards[t] \in Calls /\ upload \in [Uploads -> Stages]
    BY ScreenAssumption DEF STypes, WorkTypes
  <2>1. CASE GetsTo(t, {"told"}, "over") /\ Sent(Afterwards[t])
    <3>1. \A u \in Uploads : upload'[u] = upload[u] \/ (Told(u) /\ Told(u)')
      BY <2>0, <2>1 DEF GetsTo, Told
    <3> QED BY <2>0, <2>1, <3>1, StandsGoes DEF Goes
  <2>2. CASE Announces(t) /\ UNCHANGED list
    BY <2>2, StandsAnnounces DEF list
  <2>3. CASE Lands(t) /\ UNCHANGED list
    <3>1. ASSUME NEW u \in Uploads
          PROVE  StandsFor(u)'
      <4>1. \/ upload'[u] = upload[u]
            \/ upload[u] = "moving" /\ upload'[u] = "landed"
            \/ Told(u) /\ Told(u)'
        BY <2>0, <2>3 DEF Lands, GetsTo, Told
      <4>2. news' = news /\ arriving' = arriving
        BY <2>3 DEF Lands, list
      <4> QED BY <4>1, <4>2, StandsOn DEF Stands
    <3> QED BY <3>1 DEF Stands
  <2>4. CASE Leaves(t) /\ UNCHANGED list
    <3>1. \A u \in Uploads : upload'[u] = upload[u] \/ (Told(u) /\ Told(u)')
      BY <2>0, <2>4 DEF Leaves, GetsTo, Told
    <3>2. news' = news /\ arriving' = arriving
      BY <2>4 DEF Leaves, list
    <3> QED BY <3>1, <3>2, StandsOn DEF Stands
  <2> QED BY <1>4, <2>1, <2>2, <2>3, <2>4, UploadViewed
<1>5. CASE Receive
  BY <1>5, StandsReceives
<1>6. CASE UNCHANGED svars
  BY <1>1, <1>6 DEF svars, vars, window, work, queue, list
<1> QED BY <1>2, <1>3, <1>4, <1>5, <1>6 DEF SNext

(* Once a listing has been heard since an upload was over, nothing stands  *)
(* in for it in the folder that is shown, nor will anything again.         *)
SettledFor(t) ==
    /\ navigation > 0
    /\ \A i \in DOMAIN news : SLastListing(i) => \A j \in DOMAIN news : j > i => ~About(j, t)
    /\ NoListing => /\ \A i \in DOMAIN news : ~About(i, t)
                    /\ arriving[t] = "no" \/ Into[t] # shown

Settles ==
    refused = {} =>
        \A t \in Uploads : upload[t] \in {"off", "over"} =>
            Ahead \/ UnderWay \/ t \in Behind \/ SettledFor(t)

LEMMA SettlesInit == SInit => Settles
BY DEF SInit, Settles

LEMMA SettledOn ==
    ASSUME STypes, NEW t \in Uploads, SettledFor(t),
           news' = news \/ \E event : /\ news' = Append(news, event)
                                      /\ event.type # "listing"
                                      /\ event.type \in {"added", "finished"} => event.of # t,
           UNCHANGED <<arriving, shown, navigation>>
    PROVE  SettledFor(t)'
<1>1. CASE news' = news
  BY <1>1 DEF SettledFor, SLastListing, NoListing, About
<1>2. CASE news' # news
  <2>1. PICK event : /\ news' = Append(news, event)
                     /\ event.type # "listing"
                     /\ event.type \in {"added", "finished"} => event.of # t
    BY <1>2
  <2>2. \A i \in DOMAIN news' : About(i, t)' => i \in DOMAIN news /\ About(i, t)
    BY <2>1, NewsGrow DEF About
  <2>3. /\ \A i \in DOMAIN news' : SLastListing(i)' => i \in DOMAIN news /\ SLastListing(i)
        /\ NoListing' => NoListing
    BY <2>1, GrownLast
  <2> QED BY <2>2, <2>3 DEF SettledFor
<1> QED BY <1>1, <1>2

LEMMA SettlesGoes ==
    ASSUME STypes, Tokens, Settles, NEW c \in Calls, Goes(c), Sent(c) \/ upload' = upload
    PROVE  Settles'
<1>1. CASE Sent(c) \/ Looked(c) \/ Went(c)
  BY <1>1, GoesAhead DEF Settles
<1>2. CASE SetsOut(c)
  BY <1>2, GoesUnderWay DEF Settles
<1>3. CASE GaveUp(c)
  BY <1>3 DEF GaveUp, Settles
<1>4. CASE Tells(c)
  <2>1. news' = Append(news, [type |-> "listing", folder |-> target[c], entries |-> got[c]])
    BY <1>4 DEF Tells
  <2>2. ~NoListing' /\ \A i \in DOMAIN news' : SLastListing(i)' => \A j \in DOMAIN news' : ~ (j > i)
    BY <2>1, GrownLast
  <2>3. navigation' > 0
    <3>1. phase[c] = "moved" /\ navigation' = navigation
      BY <1>4 DEF Tells, Turn
    <3>2. token[c] > 0 /\ token[c] \in 0 .. navigation /\ navigation \in Nat
      BY <3>1 DEF Tokens, STokensByPhase, STypes, EngineTypes
    <3> QED BY <3>1, <3>2
  <2>4. \A t \in Uploads : SettledFor(t)'
    BY <2>2, <2>3 DEF SettledFor
  <2> QED BY <2>4 DEF Settles
<1>5. CASE Answers(c) \/ Dropped(c) \/ Counts(c) \/ Moves(c)
  <2>1. /\ UNCHANGED <<arriving, shown, navigation>> /\ refused \subseteq refused'
        /\ news' = news \/ \E event : /\ news' = Append(news, event)
                                      /\ event.type \notin {"listing", "added", "finished"}
    BY <1>5 DEF Answers, Dropped, Counts, Moves, list
  <2>2. upload' = upload /\ Behind' = Behind
    BY <1>5, SameBehind DEF Answers, Dropped, Counts, Moves, work, queue
  <2>3. Ahead => Ahead'
    BY <1>5, StaysAhead DEF Answers, Dropped, Counts, Moves, Turn
  <2>4. UnderWay => UnderWay'
    BY <1>5, GoesUnderWay
  <2>5. \A t \in Uploads : SettledFor(t) => SettledFor(t)'
    BY <2>1, SettledOn
  <2>6. refused' = {} => refused = {}
    BY <2>1
  <2> QED BY <2>2, <2>3, <2>4, <2>5, <2>6 DEF Settles
<1> QED BY <1>1, <1>2, <1>3, <1>4, <1>5 DEF Goes

LEMMA SettledHeard ==
    ASSUME STypes, Stands, NEW t \in Uploads, SettledFor(t), upload[t] \in {"off", "over"},
           Receive
    PROVE  SettledFor(t)'
<1>1. news # <<>> /\ news' = Tail(news) /\ navigation' = navigation
  BY ReceiveViewed DEF Heard, Rests
<1>2. /\ 1 \in DOMAIN news /\ news[1] = Head(news)
      /\ \A i \in DOMAIN news : i \in Int /\ (i = 1 \/ i > 1)
  BY <1>1, NewsShift
<1>3. \A i \in DOMAIN news' : /\ i + 1 \in DOMAIN news /\ i \in Int /\ i + 1 > 1
                              /\ About(i, t)' <=> About(i + 1, t)
                              /\ SLastListing(i)' => SLastListing(i + 1)
  <2>1. \A i \in DOMAIN news' : i + 1 \in DOMAIN news /\ i \in Int /\ i + 1 > 1 /\ news'[i] = news[i + 1]
    BY <1>1, NewsShift
  <2>2. \A i \in DOMAIN news' : SLastListing(i)' => SLastListing(i + 1)
    BY <1>1, ShiftedLast
  <2> QED BY <2>1, <2>2 DEF About
<1>4. NoListing' => (IF Head(news).type = "listing" THEN SLastListing(1) ELSE NoListing)
  BY <1>1, ShiftedLast
<1>5. ASSUME NEW i \in DOMAIN news', SLastListing(i)', NEW j \in DOMAIN news', j > i
      PROVE  ~About(j, t)'
  <2>1. i + 1 \in DOMAIN news /\ SLastListing(i + 1) /\ j + 1 \in DOMAIN news /\ j + 1 > i + 1
    BY <1>3, <1>5
  <2> QED BY <1>3, <1>5, <2>1 DEF SettledFor
<1>6. ASSUME NoListing'
      PROVE  /\ \A i \in DOMAIN news' : ~About(i, t)'
             /\ arriving'[t] = "no" \/ Into[t] # shown'
  <2>1. CASE Replace
    <3>1. SLastListing(1)
      BY <1>4, <1>6, <2>1 DEF Replace, HearListing
    <3>2. \A j \in DOMAIN news : ~About(j, t)
      <4>1. ~About(1, t)
        BY <1>2, <3>1 DEF SLastListing, About
      <4> QED BY <1>2, <3>1, <4>1 DEF SettledFor
    <3>3. arriving[t] # "moving"
      BY <3>2 DEF Stands, StandsFor, Told, Ends, About
    <3>4. arriving[t] \in {"no", "landed"}
      BY <3>3 DEF STypes, ListTypes
    <3>5. arriving'[t] = "no" \/ Into[t] # shown'
      BY <2>1, <3>4 DEF Replace, HearListing, Settle
    <3> QED BY <1>3, <3>2, <3>5
  <2>2. CASE ~Replace
    <3>1. NoListing /\ shown' = shown
      BY <1>4, <1>6, <2>2, ReceiveViewed
    <3>2. \A j \in DOMAIN news : ~About(j, t)
      BY <3>1 DEF SettledFor
    <3>3. arriving'[t] = arriving[t]
      <4>1. CASE SetBusy \/ HearFailed
        BY <4>1 DEF SetBusy, HearFailed, list
      <4>2. CASE Expect \/ Arrived
        <5>1. Head(news).of # t
          BY <1>2, <3>2, <4>2 DEF Expect, Arrived, NewsIs, About
        <5> QED BY <4>2, <5>1 DEF Expect, Arrived, STypes, ListTypes
      <4> QED BY <2>2, <4>1, <4>2 DEF Receive
    <3> QED BY <1>3, <3>1, <3>2, <3>3 DEF SettledFor
  <2> QED BY <2>1, <2>2
<1> QED BY <1>1, <1>5, <1>6 DEF SettledFor

LEMMA SettlesStep == STypes /\ Tokens /\ Stands /\ Settles /\ [SNext]_svars => Settles'
<1> SUFFICES ASSUME STypes, Tokens, Stands, Settles, [SNext]_svars PROVE Settles'
  OBVIOUS
<1>1. ASSUME UNCHANGED <<phase, token, navigation, refused>>, Behind \subseteq Behind',
             \A t \in Uploads : upload'[t] \in {"off", "over"} =>
                 \/ t \in Behind'
                 \/ upload[t] \in {"off", "over"} /\ (SettledFor(t) => SettledFor(t)')
      PROVE  Settles'
  <2>1. (Ahead => Ahead') /\ (UnderWay => UnderWay')
    BY <1>1 DEF Ahead, UnderWay, IsNewest
  <2> QED BY <1>1, <2>1 DEF Settles
<1>2. ASSUME NEW c \in Calls, Gesture(c)
      PROVE  Settles'
  <2>1. CASE Picks(c)
    <3>1. UNCHANGED <<phase, token, navigation, refused, arriving, shown, news, queue>>
      BY <2>1 DEF Picks, Rests, list
    <3> QED BY <1>1, <3>1, SettledOn, SameBehind DEF queue
  <2>2. CASE Sent(c)
    BY <2>2, SettlesGoes DEF Goes
  <2> QED BY <1>2, <2>1, <2>2, GestureViewed
<1>3. ASSUME NEW c \in Calls, Command(c)
      PROVE  Settles'
  BY <1>3, CommandViewed, SettlesGoes
<1>4. ASSUME NEW t \in Uploads, Uploading(t)
      PROVE  Settles'
  <2>0. Afterwards[t] \in Calls /\ upload \in [Uploads -> Stages]
    BY ScreenAssumption DEF STypes, WorkTypes
  <2>1. CASE Sent(Afterwards[t])
    BY <2>0, <2>1, SettlesGoes DEF Goes
  <2>2. CASE /\ Announces(t) \/ Leaves(t) \/ Lands(t)
             /\ UNCHANGED <<phase, token, navigation, refused, shown, list>>
    <3>1. ASSUME NEW u \in Uploads, upload'[u] \in {"off", "over"}
          PROVE  \/ u \in Behind'
                 \/ upload[u] \in {"off", "over"} /\ (SettledFor(u) => SettledFor(u)')
      <4>1. CASE u = t
        <5>1. upload[t] # "none"
          BY <2>0, <2>2, <3>1, <4>1 DEF Announces, Leaves, Lands, GetsTo
        <5> QED BY <2>2, <4>1, <5>1, BehindGrows
      <4>2. CASE u # t
        <5>1. upload[u] \in {"off", "over"}
          BY <2>2, <3>1, <4>2, BehindGrows
        <5>2. news' = news \/ \E event : news' = Append(news, event) /\ event.type # "listing"
                                                                  /\ event.of # u
          BY <2>2, <4>2 DEF Announces, Leaves, Lands
        <5>3. UNCHANGED <<arriving, shown, navigation>>
          BY <2>2 DEF list
        <5> QED BY <5>1, <5>2, <5>3, SettledOn
      <4> QED BY <4>1, <4>2
    <3> QED BY <1>1, <2>2, <3>1, BehindGrows
  <2> QED BY <1>4, <2>1, <2>2, UploadViewed DEF Rests
<1>5. CASE Receive
  <2>1. UNCHANGED <<phase, token, navigation, refused, queue>>
    BY <1>5, ReceiveViewed DEF Heard, Rests
  <2> QED BY <1>1, <1>5, <2>1, SettledHeard, SameBehind DEF queue
<1>6. CASE UNCHANGED svars
  <2>1. UNCHANGED <<phase, token, navigation, refused, shown, news, arriving, queue>>
    BY <1>6 DEF svars, vars, engine, window, history, work, list
  <2> QED BY <1>1, <2>1, SettledOn, SameBehind DEF queue
<1> QED BY <1>2, <1>3, <1>4, <1>5, <1>6 DEF SNext

(* However the commands and the uploads interleave and whatever is         *)
(* overtaken, when everything has settled the list is what the server has  *)
(* in the folder that is shown and nothing has a bar, as long as the       *)
(* commands were orderly and none was refused: but for the uploads begun   *)
(* by the time one was called off, or ended beside a download, and nothing *)
(* was sent after it, which the list may be wrong about.                   *)
THEOREM ListAlwaysEndsTrue == SSpec => []ListEndsTrue
<1>1. SSpec => [](Seen /\ Shows)
  BY SeenInit, SeenStep, ShowsStep, STyping, PTL DEF SSpec
<1>2. SSpec => []Stands
  BY StandsInit, StandsStep, STyping, PTL DEF SSpec
<1>3. SSpec => []Settles
  BY SettlesInit, SettlesStep, STyping, <1>2, PTL DEF SSpec
<1>4. STypes /\ Tokens /\ Seen /\ Shows /\ Stands /\ Settles => ListEndsTrue
  <2> SUFFICES ASSUME STypes, Tokens, Seen, Shows, Stands, Settles,
                      Still, orderly, refused = {}
               PROVE  Rows \ Doubtful = server[shown] \ Doubtful /\ Bars = {}
    BY DEF ListEndsTrue
  <2>1. Quiet /\ \A t \in Uploads : upload[t] \in {"none", "over"}
    BY DEF Still
  <2>2. ~Ahead /\ ~UnderWay
    BY <2>1, NothingUnderWay
  <2>3. DOMAIN news = {} /\ NoListing
    <3>1. news = <<>>
      BY <2>1 DEF Quiet
    <3> QED BY <3>1 DEF NoListing
  <2>4. Behind = overlooked /\ NamesBehind(shown) = Doubtful
    <3>1. ~Promised
      BY <2>1 DEF Promised
    <3> QED BY <3>1 DEF Behind, NamesBehind, Doubtful
  <2>5. AlmostIs(entries, shown)
    <3>0. shown \in Folders
      BY DEF STypes, EngineTypes
    <3>1. CASE navigation = 0
      BY <2>2, <3>0, <3>1 DEF Seen, Shows
    <3>2. CASE navigation # 0
      <4>1. PICK c \in Calls : IsNewest(c)
        BY <3>2 DEF Tokens, SNewestIsHeld, STypes, EngineTypes
      <4>2. phase[c] = "over"
        BY <2>2, <4>1 DEF UnderWay
      <4> QED BY <2>2, <2>3, <4>1, <4>2 DEF Seen, Shows, Found
    <3> QED BY <3>1, <3>2
  <2>6. \A t \in Uploads : StandsIn(t) => t \in overlooked /\ arriving[t] # "moving"
    <3>1. ASSUME NEW t \in Uploads, StandsIn(t)
          PROVE  t \in overlooked /\ arriving[t] # "moving"
      <4>1. upload[t] = "over"
        BY <2>1, <3>1 DEF Stands, StandsFor, StandsIn
      <4>2. t \in overlooked
        BY <2>2, <2>3, <2>4, <3>1, <4>1 DEF Settles, SettledFor, StandsIn
      <4>3. arriving[t] # "moving"
        BY <2>3, <4>1 DEF Stands, StandsFor, Told
      <4> QED BY <4>2, <4>3
    <3> QED BY <3>1
  <2>7. Bars = {}
    BY <2>6 DEF Bars
  <2>8. \A name \in Rows \ Doubtful : name \in entries
    BY <2>6 DEF Rows, Doubtful, StandsIn
  <2>9. entries \subseteq Rows
    BY DEF Rows
  <2>10. Rows \ Doubtful = entries \ Doubtful
    BY <2>8, <2>9
  <2>11. entries \ Doubtful = server[shown] \ Doubtful
    BY <2>4, <2>5 DEF AlmostIs
  <2> QED BY <2>7, <2>10, <2>11
<1> QED BY <1>1, <1>2, <1>3, <1>4, STyping, PTL

-----------------------------------------------------------------------------
(* Screen is Navigation, with the news that is about neither folders nor   *)
(* waiting left out.                                                       *)

Sifts(f, s, n) ==
    f = [i \in 0 .. n |-> IF i = 0 THEN <<>> ELSE f[i - 1] \o InNavigation(s[i])]

LEMMA LeastOfNumbers ==
    ASSUME NEW K \in SUBSET Nat, K # {}
    PROVE  \E k \in K : \A j \in K : k <= j
<1>1. \E k \in K : \A j \in K : ~ (<<j, k>> \in OpToRel(<, Nat))
  BY WFMin, NatLessThanWellFounded
<1>2. \A j, k \in Nat : <<j, k>> \in OpToRel(<, Nat) <=> j < k
  BY DEF OpToRel
<1>3. PICK k \in K : \A j \in K : ~ (j < k)
  BY <1>1, <1>2
<1>4. \A j \in K : k <= j
  BY <1>3
<1> QED BY <1>4

LEMMA SomethingSifts ==
    ASSUME NEW s, NEW m \in Nat
    PROVE  \E f : Sifts(f, s, m)
<1> DEFINE Can(n) == \E f : Sifts(f, s, n)
           K == {n \in 0 .. m : ~Can(n)}
<1>1. Can(0)
  <2> DEFINE f == [i \in 0 .. 0 |-> <<>>]
  <2>1. f = [i \in 0 .. 0 |-> IF i = 0 THEN <<>> ELSE f[i - 1] \o InNavigation(s[i])]
    OBVIOUS
  <2> QED BY <2>1 DEF Sifts
<1>2. ASSUME NEW n \in Nat, Can(n)
      PROVE  Can(n + 1)
  <2>1. PICK f : Sifts(f, s, n)
    BY <1>2
  <2> DEFINE last == f[n] \o InNavigation(s[n + 1])
             g == [i \in 0 .. (n + 1) |-> IF i = n + 1 THEN last ELSE f[i]]
             h == [i \in 0 .. (n + 1) |->
                      IF i = 0 THEN <<>> ELSE g[i - 1] \o InNavigation(s[i])]
  <2>2. \A i \in 0 .. n : f[i] = IF i = 0 THEN <<>> ELSE f[i - 1] \o InNavigation(s[i])
    BY <2>1 DEF Sifts
  <2>3. ASSUME NEW i \in 0 .. (n + 1)
        PROVE  g[i] = h[i]
    <3>1. CASE i = n + 1
      <4> HIDE DEF last
      <4>1. i # 0 /\ i - 1 = n /\ n \in 0 .. (n + 1) /\ n # n + 1
        BY <3>1
      <4>4. g[i] = last
        BY <3>1
      <4>2. g[n] = f[n]
        BY <4>1
      <4>0. i \in 0 .. (n + 1)
        OBVIOUS
      <4> HIDE DEF g
      <4>3. h[i] = g[n] \o InNavigation(s[n + 1])
        BY <3>1, <4>0, <4>1
      <4> QED BY <4>1, <4>2, <4>3, <4>4 DEF last
    <3>2. CASE i = 0
      BY <3>2, <2>2
    <3>3. CASE i # 0 /\ i # n + 1
      <4>1. i - 1 \in 0 .. (n + 1) /\ i - 1 # n + 1 /\ i \in 0 .. n
        BY <3>3
      <4>2. g[i] = f[i] /\ g[i - 1] = f[i - 1]
        BY <4>1, <3>3
      <4>3. h[i] = g[i - 1] \o InNavigation(s[i])
        BY <3>3
      <4> QED BY <4>1, <4>2, <4>3, <2>2, <3>3
    <3> QED BY <3>1, <3>2, <3>3
  <2>4. g = h
    <3>1. g = [i \in 0 .. (n + 1) |-> g[i]] /\ h = [i \in 0 .. (n + 1) |-> h[i]]
      OBVIOUS
    <3> HIDE DEF g, h
    <3> QED BY <2>3, <3>1
  <2>5. h = [i \in 0 .. (n + 1) |-> IF i = 0 THEN <<>> ELSE g[i - 1] \o InNavigation(s[i])]
    OBVIOUS
  <2> HIDE DEF g, h
  <2> QED BY <2>4, <2>5 DEF Sifts
<1> HIDE DEF Can
<1>3. SUFFICES ASSUME K # {} PROVE FALSE
  BY DEF Can
<1>4. PICK k \in K : \A j \in K : k <= j
  <2>1. K \in SUBSET Nat
    OBVIOUS
  <2> QED BY <2>1, <1>3, LeastOfNumbers
<1>5. k # 0 /\ k \in Nat
  BY <1>4, <1>1
<1>6. k - 1 \in 0 .. m /\ k - 1 \in Nat /\ ~(k <= k - 1) /\ (k - 1) + 1 = k
  BY <1>4, <1>5
<1>7. Can(k - 1)
  BY <1>4, <1>6
<1>8. Can((k - 1) + 1)
  BY <1>7, <1>2, <1>6
<1> QED BY <1>4, <1>6, <1>8

(* What is sifted of the beginning does not depend on how it goes on. *)
LEMMA SiftedAlike ==
    ASSUME NEW f, NEW g, NEW s, NEW u, NEW m \in Nat, NEW n \in Nat, NEW k \in 0 .. m,
           k <= n, Sifts(f, s, m), Sifts(g, u, n),
           \A i \in 1 .. k : s[i] = u[i]
    PROVE  f[k] = g[k]
<1> DEFINE K == {j \in 0 .. k : f[j] # g[j]}
<1>1. SUFFICES ASSUME K # {} PROVE FALSE
  OBVIOUS
<1>2. PICK j \in K : \A i \in K : j <= i
  <2>1. K \in SUBSET Nat
    OBVIOUS
  <2> QED BY <2>1, <1>1, LeastOfNumbers
<1>3. /\ \A i \in 0 .. m : f[i] = IF i = 0 THEN <<>> ELSE f[i - 1] \o InNavigation(s[i])
      /\ \A i \in 0 .. n : g[i] = IF i = 0 THEN <<>> ELSE g[i - 1] \o InNavigation(u[i])
  BY DEF Sifts
<1>4. j \in 0 .. k /\ f[j] # g[j] /\ j \in 0 .. m /\ j \in 0 .. n
  BY <1>2
<1>5. j # 0
  BY <1>3, <1>4
<1>6. j - 1 \in 0 .. k /\ ~(j <= j - 1) /\ j \in 1 .. k
  BY <1>4, <1>5
<1>7. f[j - 1] = g[j - 1]
  BY <1>2, <1>6
<1> HIDE DEF K
<1>8. f[j] = f[j - 1] \o InNavigation(s[j]) /\ g[j] = g[j - 1] \o InNavigation(u[j])
  BY <1>3, <1>4, <1>5
<1> QED BY <1>4, <1>6, <1>7, <1>8

LEMMA SiftedBy ==
    ASSUME NEW S, NEW s \in Seq(S)
    PROVE  \E f : Sifts(f, s, Len(s)) /\ Sifted(s) = f[Len(s)]
<1> DEFINE n == Len(s)
           Is(f) == f = [i \in 0 .. n |-> IF i = 0 THEN <<>> ELSE f[i - 1] \o InNavigation(s[i])]
           sifted == CHOOSE f : Is(f)
<1>0. n \in Nat
  OBVIOUS
<1> HIDE DEF n
<1>1. \E f : Is(f)
  <2>1. PICK f : Sifts(f, s, n)
    BY <1>0, SomethingSifts
  <2> QED BY <2>1 DEF Sifts
<1>2. Is(sifted)
  BY <1>1
<1>3. Sifted(s) = sifted[n]
  BY DEF Sifted, n
<1>4. Sifts(sifted, s, n)
  BY <1>2 DEF Sifts
<1> HIDE DEF sifted
<1> QED BY <1>3, <1>4 DEF n

LEMMA SiftedAppend ==
    ASSUME NEW S, NEW s \in Seq(S), NEW e \in S
    PROVE  Sifted(Append(s, e)) = Sifted(s) \o InNavigation(e)
<1> DEFINE n == Len(s)
           t == Append(s, e)
<1>1. n \in Nat /\ Len(t) = n + 1 /\ t \in Seq(S) /\ t[n + 1] = e /\ \A i \in 1 .. n : s[i] = t[i]
  OBVIOUS
<1> HIDE DEF t, n
<1>2. PICK f : Sifts(f, s, n) /\ Sifted(s) = f[n]
  BY SiftedBy DEF n
<1>3. PICK g : Sifts(g, t, n + 1) /\ Sifted(t) = g[n + 1]
  BY <1>1, SiftedBy
<1>4. g[n + 1] = g[n] \o InNavigation(e)
  <2>1. n + 1 \in 0 .. (n + 1) /\ n + 1 # 0 /\ (n + 1) - 1 = n
    BY <1>1
  <2>2. g[n + 1] = g[n] \o InNavigation(t[n + 1])
    BY <1>3, <2>1 DEF Sifts
  <2> QED BY <2>2, <1>1
<1>5. f[n] = g[n]
  <2>1. n \in 0 .. n /\ n <= n + 1 /\ n + 1 \in Nat
    BY <1>1
  <2> QED BY <2>1, <1>1, <1>2, <1>3, SiftedAlike
<1> QED BY <1>2, <1>3, <1>4, <1>5 DEF t

LEMMA InNavigationIs ==
    ASSUME NEW e \in ScreenNews
    PROVE  InNavigation(e) \in Seq(News)
<1>1. CASE e.type = "working"
  <2>1. e \in News
    BY <1>1 DEF ScreenNews, News
  <2> QED BY <1>1, <2>1 DEF InNavigation
<1>2. CASE e.type = "listing"
  <2>1. e.folder \in Folders
    BY <1>2 DEF ScreenNews
  <2>2. [type |-> "listing", folder |-> e.folder] \in News
    BY <2>1 DEF News
  <2> QED BY <1>2, <2>2 DEF InNavigation
<1>3. CASE e.type # "working" /\ e.type # "listing"
  BY <1>3 DEF InNavigation
<1> QED BY <1>1, <1>2, <1>3

LEMMA SiftedIsNews ==
    ASSUME NEW s \in Seq(ScreenNews), NEW f, Sifts(f, s, Len(s)), NEW k \in 0 .. Len(s)
    PROVE  f[k] \in Seq(News)
<1> DEFINE n == Len(s)
           K == {j \in 0 .. n : f[j] \notin Seq(News)}
<1>0. n \in Nat /\ \A i \in 1 .. n : s[i] \in ScreenNews
  OBVIOUS
<1> HIDE DEF n
<1>1. SUFFICES ASSUME K # {} PROVE FALSE
  BY DEF n
<1>2. PICK j \in K : \A i \in K : j <= i
  <2>1. K \in SUBSET Nat
    BY <1>0
  <2> QED BY <2>1, <1>1, LeastOfNumbers
<1>3. \A i \in 0 .. n : f[i] = IF i = 0 THEN <<>> ELSE f[i - 1] \o InNavigation(s[i])
  BY DEF Sifts, n
<1>4. j \in 0 .. n /\ f[j] \notin Seq(News)
  BY <1>2
<1>5. j # 0
  <2>1. f[0] = <<>> /\ <<>> \in Seq(News)
    BY <1>0, <1>3
  <2> QED BY <1>4, <2>1
<1>6. j - 1 \in 0 .. n /\ ~(j <= j - 1) /\ j \in 1 .. n
  BY <1>0, <1>4, <1>5
<1>7. f[j - 1] \in Seq(News)
  BY <1>2, <1>6
<1> HIDE DEF K
<1>8. f[j] = f[j - 1] \o InNavigation(s[j])
  BY <1>3, <1>4, <1>5
<1>9. InNavigation(s[j]) \in Seq(News)
  BY <1>0, <1>6, InNavigationIs
<1> QED BY <1>4, <1>7, <1>8, <1>9

LEMMA SiftedHead ==
    ASSUME NEW s \in Seq(ScreenNews), s # <<>>
    PROVE  Sifted(s) = InNavigation(Head(s)) \o Sifted(Tail(s))
<1> DEFINE n == Len(s) - 1
           t == Tail(s)
           h == InNavigation(Head(s))
<1>1. /\ n \in Nat /\ Len(s) = n + 1 /\ t \in Seq(ScreenNews) /\ Len(t) = n
      /\ s[1] = Head(s) /\ Head(s) \in ScreenNews
      /\ \A i \in 1 .. n : t[i] = s[i + 1] /\ t[i] \in ScreenNews
  OBVIOUS
<1> HIDE DEF t, n
<1>2. PICK f : Sifts(f, s, n + 1) /\ Sifted(s) = f[n + 1]
  BY <1>1, SiftedBy
<1>3. PICK g : Sifts(g, t, n) /\ Sifted(t) = g[n]
  BY <1>1, SiftedBy
<1>4. \A i \in 0 .. (n + 1) : f[i] = IF i = 0 THEN <<>> ELSE f[i - 1] \o InNavigation(s[i])
  BY <1>2 DEF Sifts
<1>5. \A i \in 0 .. n : g[i] = IF i = 0 THEN <<>> ELSE g[i - 1] \o InNavigation(t[i])
  BY <1>3 DEF Sifts
<1>6. \A i \in 0 .. n : g[i] \in Seq(News)
  BY <1>1, <1>3, SiftedIsNews
<1>7. h \in Seq(News)
  BY <1>1, InNavigationIs
<1> DEFINE K == {i \in 0 .. n : f[i + 1] # h \o g[i]}
<1>8. ASSUME K # {} PROVE FALSE
  <2>1. PICK j \in K : \A i \in K : j <= i
    <3>1. K \in SUBSET (0 .. n)
      OBVIOUS
    <3> HIDE DEF K
    <3>2. K \in SUBSET Nat
      BY <1>1, <3>1
    <3> QED BY <3>2, <1>8, LeastOfNumbers
  <2>2. j \in 0 .. n /\ f[j + 1] # h \o g[j]
    BY <2>1
  <2>3. j + 1 \in 0 .. (n + 1) /\ j + 1 # 0 /\ (j + 1) - 1 = j
    BY <1>1, <2>2
  <2>4. f[j + 1] = f[j] \o InNavigation(s[j + 1])
    BY <2>3, <1>4
  <2>5. CASE j = 0
    <3>1. f[0] = <<>> /\ g[0] = <<>>
      BY <1>1, <1>4, <1>5
    <3>2. f[j + 1] = <<>> \o h
      BY <2>4, <2>5, <3>1, <1>1
    <3> HIDE DEF h
    <3>3. <<>> \o h = h \o <<>>
      BY <1>7
    <3> QED BY <2>2, <2>5, <3>1, <3>2, <3>3
  <2>6. CASE j # 0
    <3>1. j - 1 \in 0 .. n /\ ~(j <= j - 1) /\ (j - 1) + 1 = j /\ j \in 1 .. n
      BY <1>1, <2>2, <2>6
    <3>2. f[j] = h \o g[j - 1]
      BY <2>1, <3>1
    <3>3. g[j] = g[j - 1] \o InNavigation(t[j]) /\ t[j] = s[j + 1]
      BY <2>2, <2>6, <3>1, <1>1, <1>5
    <3>4. g[j - 1] \in Seq(News) /\ InNavigation(t[j]) \in Seq(News)
      BY <3>1, <1>1, <1>6, InNavigationIs
    <3> DEFINE w == InNavigation(t[j])
               u == g[j - 1]
    <3>6. h \in Seq(News) /\ u \in Seq(News) /\ w \in Seq(News)
      BY <3>4, <1>7
    <3> HIDE DEF h, w, u, K
    <3>5. (h \o u) \o w = h \o (u \o w)
      BY <3>6, ConcatAssociative
    <3> QED BY <2>2, <2>4, <3>2, <3>3, <3>5 DEF w, u
  <2> QED BY <2>5, <2>6
<1>9. f[n + 1] = h \o g[n]
  <2>1. n \in 0 .. n
    BY <1>1
  <2> QED BY <1>8, <2>1
<1> QED BY <1>2, <1>3, <1>9 DEF t

LEMMA SiftedAre ==
    ASSUME NEW s \in Seq(ScreenNews)
    PROVE  Sifted(s) \in Seq(News)
<1>1. PICK f : Sifts(f, s, Len(s)) /\ Sifted(s) = f[Len(s)]
  BY SiftedBy
<1>2. Len(s) \in 0 .. Len(s)
  OBVIOUS
<1> QED BY <1>1, <1>2, SiftedIsNews

LEMMA ListingsAre ==
    ASSUME STypes
    PROVE  Listings \in Seq(News)
BY SiftedAre DEF STypes, Listings

LEMMA Foremost ==
    ASSUME NEW S, NEW d \in S, NEW s \in Seq(S)
    PROVE  <<d>> \o s # <<>> /\ Head(<<d>> \o s) = d /\ Tail(<<d>> \o s) = s
OBVIOUS

(* What is told joins the listings, or is left out of them. *)
LEMMA ListingsGrow ==
    ASSUME STypes, NEW e \in ScreenNews, Emit(e)
    PROVE  Listings' = Listings \o InNavigation(e)
BY SiftedAppend DEF Emit, Listings, STypes

LEMMA ListingsAfter ==
    ASSUME STypes, news # <<>>, news' = Tail(news)
    PROVE  Listings = InNavigation(Head(news)) \o Listings'
BY SiftedHead DEF Listings, STypes

LEMMA ListingsStay ==
    ASSUME news' = news
    PROVE  Listings' = Listings
BY DEF Listings

LEMMA AskFolds ==
    ASSUME NEW c \in Calls
    PROVE  /\ AskOpen(c) => Folder!AskOpen(c)
           /\ AskAbout(c) => Folder!AskAbout(c)
<1>1. Ask(c) => Folder!Ask(c)
  BY ListingsStay DEF Ask, Folder!Ask, Step, Folder!Step, window, Folder!window
<1> QED BY <1>1 DEF AskOpen, Folder!AskOpen, AskAbout, Folder!AskAbout

LEMMA CommandFolds ==
    ASSUME STypes, NEW c \in Calls, Command(c)
    PROVE  Folder!Task(c)
<1> USE DEF Step, Folder!Step, window, Folder!window, history, Folder!history
<1>1. CASE Begin(c)
  <2>1. Listings' = Listings
    BY <1>1, ListingsStay DEF Begin, BeginOpen, BeginRefresh, BeginChange
  <2>2. CASE BeginOpen(c)
    BY <2>1, <2>2 DEF BeginOpen, Folder!BeginOpen, Folder!Task
  <2>3. CASE BeginRefresh(c)
    BY <2>1, <2>3 DEF BeginRefresh, Folder!BeginRefresh, ReadPath, Folder!ReadPath,
                      Live, Folder!Live, Folder!Task
  <2>4. CASE BeginChange(c)
    BY <2>1, <2>4 DEF BeginChange, Folder!BeginChange, ReadPath, Folder!ReadPath,
                      Live, Folder!Live, Folder!Task
  <2> QED BY <1>1, <2>2, <2>3, <2>4 DEF Begin
<1>2. CASE Made(c)
  <2>1. Listings' = Listings
    BY <1>2, ListingsStay DEF Made, Changed
  <2>2. Folder!Changed(c)
    BY <1>2, <2>1 DEF Made, Changed, Folder!Changed, ReadPath, Folder!ReadPath, Live, Folder!Live
  <2> QED BY <2>2 DEF Folder!Task
<1>3. CASE Failed(c)
  <2>1. Listings' = Listings
    <3>1. [type |-> "failed"] \in ScreenNews /\ InNavigation([type |-> "failed"]) = <<>>
      BY DEF ScreenNews, InNavigation
    <3>2. Listings' = Listings \o <<>>
      BY <1>3, <3>1, ListingsGrow DEF Failed
    <3> QED BY <3>2, ListingsAre
  <2>2. Folder!Refused(c)
    BY <1>3, <2>1 DEF Failed, Folder!Refused
  <2> QED BY <2>2 DEF Folder!Task
<1>4. CASE SetOut(c)
  <2> DEFINE e == [type |-> "working", on |-> TRUE]
  <2>1. e \in ScreenNews /\ e \in News /\ InNavigation(e) = <<e>>
    BY DEF ScreenNews, News, InNavigation
  <2>2. Emit(e)
    BY <1>4 DEF SetOut, Navigate
  <2> HIDE DEF e
  <2>3. Listings' = Append(Listings, e)
    <3>1. Listings' = Listings \o <<e>>
      BY <2>1, <2>2, ListingsGrow
    <3> QED BY <2>1, <3>1, ListingsAre
  <2>4. Folder!Emit(e)
    BY <2>3 DEF Folder!Emit
  <2>5. Folder!Navigate(c)
    BY <1>4, <2>4 DEF SetOut, Navigate, Folder!Navigate, AskedBefore, Folder!AskedBefore, e
  <2> QED BY <2>5 DEF Folder!Task
<1>5. CASE Listed(c)
  <2> DEFINE e == [type |-> "working", on |-> FALSE]
  <2>1. e \in ScreenNews /\ e \in News /\ InNavigation(e) = <<e>>
    BY DEF ScreenNews, News, InNavigation
  <2>0. PICK well \in BOOLEAN : Answer(c, well)
    BY <1>5 DEF Listed
  <2>2. Emit(e)
    BY <2>0 DEF Answer
  <2> HIDE DEF e
  <2>3. Listings' = Append(Listings, e)
    <3>1. Listings' = Listings \o <<e>>
      BY <2>1, <2>2, ListingsGrow
    <3> QED BY <2>1, <3>1, ListingsAre
  <2>4. Folder!Emit(e)
    BY <2>3 DEF Folder!Emit
  <2>5. Folder!Answer(c, well)
    BY <2>0, <2>4 DEF Answer, Folder!Answer, e
  <2> QED BY <2>5 DEF Folder!Task
<1>6. CASE GetOn(c)
  <2>1. Listings' = Listings
    BY <1>6, ListingsStay DEF GetOn, Overtaken, StillCurrent, MoveTo
  <2>2. CASE Overtaken(c)
    BY <2>1, <2>2 DEF Overtaken, Folder!Overtaken, IsCurrent, Folder!IsCurrent, Folder!Task
  <2>3. CASE StillCurrent(c)
    BY <2>1, <2>3 DEF StillCurrent, Folder!StillCurrent, IsCurrent, Folder!IsCurrent, Folder!Task
  <2>4. CASE MoveTo(c)
    BY <2>1, <2>4 DEF MoveTo, Folder!MoveTo, Folder!Task
  <2> QED BY <1>6, <2>2, <2>3, <2>4 DEF GetOn
<1>7. CASE Complain(c)
  <2>1. Listings' = Listings
    <3>1. [type |-> "failed"] \in ScreenNews /\ InNavigation([type |-> "failed"]) = <<>>
      BY DEF ScreenNews, InNavigation
    <3>2. Listings' = Listings \o <<>>
      BY <1>7, <3>1, ListingsGrow DEF Complain
    <3> QED BY <3>2, ListingsAre
  <2>2. Folder!StillCurrent(c)
    BY <1>7, <2>1 DEF Complain, Folder!StillCurrent, IsCurrent, Folder!IsCurrent
  <2> QED BY <2>2 DEF Folder!Task
<1>8. CASE ShowListing(c)
  <2> DEFINE e == [type |-> "listing", folder |-> target[c], entries |-> got[c]]
             d == [type |-> "listing", folder |-> target[c]]
  <2>1. e \in ScreenNews /\ d \in News
    BY DEF STypes, EngineTypes, WorkTypes, ScreenNews, News
  <2>6. InNavigation(e) = <<d>>
    BY DEF InNavigation
  <2>2. Emit(e)
    BY <1>8 DEF ShowListing
  <2>3. Listings' = Listings \o InNavigation(e)
    BY <2>1, <2>2, ListingsGrow
  <2>4. Listings' = Append(Listings, d)
    <3> HIDE DEF d, e
    <3> QED BY <2>1, <2>3, <2>6, ListingsAre
  <2>5. Folder!EmitListing(c)
    BY <1>8, <2>4 DEF ShowListing, Folder!EmitListing, Folder!Emit
  <2> QED BY <2>5 DEF Folder!Task
<1> QED BY <1>1, <1>2, <1>3, <1>4, <1>5, <1>6, <1>7, <1>8 DEF Command

LEMMA HeardFolds ==
    ASSUME STypes, Receive
    PROVE  Folder!Hear \/ UNCHANGED Folder!vars
<1> USE DEF Folder!engine, Folder!window, Folder!history, Folder!vars
<1>1. news # <<>> /\ news' = Tail(news)
  BY ReceiveViewed DEF Heard
<1>2. Listings = InNavigation(Head(news)) \o Listings'
  BY <1>1, ListingsAfter
<1>3. Listings' \in Seq(News)
  <2>1. news' \in Seq(ScreenNews)
    BY <1>1, TailKept
  <2> QED BY <2>1, SiftedAre DEF Listings
<1>4. Head(news) \in ScreenNews
  BY <1>1, TailKept
<1>5. CASE Replace
  <2> DEFINE d == [type |-> "listing", folder |-> Head(news).folder]
  <2>1. Head(news).type = "listing"
    BY <1>5 DEF Replace, HearListing
  <2>2. InNavigation(Head(news)) = <<d>>
    BY <2>1 DEF InNavigation
  <2>3. d \in News /\ d.type = "listing" /\ d.folder = Head(news).folder
    BY <2>1, <1>4 DEF ScreenNews, News
  <2> HIDE DEF d
  <2>4. Listings # <<>> /\ Head(Listings) = d /\ Listings' = Tail(Listings)
    BY <1>2, <1>3, <2>2, <2>3, Foremost
  <2>5. Folder!HearListing
    BY <1>5, <2>3, <2>4 DEF Replace, HearListing, Folder!HearListing, engine, history
  <2> QED BY <2>5 DEF Folder!Hear
<1>6. CASE SetBusy
  <2> DEFINE d == Head(news)
  <2>1. Head(news).type = "working"
    BY <1>6 DEF SetBusy, HearWorking
  <2>2. InNavigation(Head(news)) = <<d>>
    BY <2>1 DEF InNavigation
  <2>3. d \in News
    BY <2>1, <1>4 DEF ScreenNews, News
  <2> HIDE DEF d
  <2>4. Listings # <<>> /\ Head(Listings) = d /\ Listings' = Tail(Listings)
    BY <1>2, <1>3, <2>2, <2>3, Foremost
  <2>5. Folder!HearWorking
    BY <1>6, <2>4 DEF SetBusy, HearWorking, Folder!HearWorking, engine, history, d
  <2> QED BY <2>5 DEF Folder!Hear
<1>7. CASE HearFailed \/ Expect \/ Arrived
  <2>1. Head(news).type \in {"failed", "added", "finished"}
    BY <1>7 DEF HearFailed, Expect, Arrived, NewsIs
  <2>2. InNavigation(Head(news)) = <<>>
    BY <2>1 DEF InNavigation
  <2>3. Listings' = Listings
    BY <1>2, <1>3, <2>2
  <2> QED BY <1>7, <2>3 DEF HearFailed, Expect, Arrived, Otherwise, engine, history
<1> QED BY <1>5, <1>6, <1>7 DEF Receive

LEMMA FoldsInit == SInit => Folder!Init
<1> SUFFICES ASSUME SInit PROVE Folder!Init
  OBVIOUS
<1>1. news = <<>>
  BY DEF SInit, Init
<1>2. PICK f : Sifts(f, news, Len(news)) /\ Sifted(news) = f[Len(news)]
  <2>1. news \in Seq(ScreenNews)
    BY <1>1
  <2> QED BY <2>1, SiftedBy
<1>3. Listings = <<>>
  BY <1>1, <1>2 DEF Listings, Sifts
<1> QED BY <1>3 DEF SInit, Init, Folder!Init, Commands, Folder!Commands

LEMMA FoldsStep == STypes /\ [SNext]_svars => [Folder!Next]_(Folder!vars)
<1> SUFFICES ASSUME STypes, [SNext]_svars
             PROVE  Folder!Next \/ UNCHANGED Folder!vars
  OBVIOUS
<1>1. ASSUME NEW c \in Calls, Gesture(c)
      PROVE  Folder!Next \/ UNCHANGED Folder!vars
  <2>1. CASE Pick(c)
    BY <2>1, ListingsStay
       DEF Pick, vars, Folder!vars, engine, window, history, Folder!engine, Folder!window, Folder!history
  <2>2. CASE Browse(c) \/ Reload(c) \/ RemoveFiles(c) \/ MoveInto(c)
    <3>1. AskOpen(c) \/ AskAbout(c)
      BY <2>2 DEF Browse, Reload, RemoveFiles, MoveInto
    <3> QED BY <3>1, AskFolds DEF Folder!Next
  <2> QED BY <1>1, <2>1, <2>2 DEF Gesture
<1>2. ASSUME NEW c \in Calls, Command(c)
      PROVE  Folder!Next
  BY <1>2, CommandFolds DEF Folder!Next
<1>3. ASSUME NEW t \in Uploads, Uploading(t)
      PROVE  Folder!Next \/ UNCHANGED Folder!vars
  <2> USE DEF Folder!vars, Folder!engine, Folder!window, Folder!history
  <2>1. CASE StartUpload(t) \/ ReportUpload(t) \/ CallOff(t)
    <3>1. PICK type \in {"added", "finished"} : Announce(t, type)
      BY <2>1 DEF StartUpload, ReportUpload, CallOff
    <3> DEFINE e == [type |-> type, of |-> t]
    <3>2. e \in ScreenNews /\ InNavigation(e) = <<>>
      BY DEF ScreenNews, InNavigation
    <3>3. Emit(e)
      BY <3>1 DEF Announce
    <3> HIDE DEF e
    <3>4. Listings' = Listings \o <<>>
      BY <3>2, <3>3, ListingsGrow
    <3>5. Listings' = Listings
      BY <3>4, ListingsAre
    <3> QED BY <3>1, <3>5 DEF Announce, engine, history
  <2>2. CASE Land(t) \/ Remain(t) \/ LeaveToOthers(t)
    BY <2>2, ListingsStay DEF Land, Remain, MayBeThere, LeaveToOthers, vars, engine, window, history
  <2>3. CASE Relist(t)
    <3>1. Afterwards[t] \in Calls
      BY ScreenAssumption
    <3> QED BY <2>3, <3>1, AskFolds DEF Relist, Folder!Next
  <2> QED BY <1>3, <2>1, <2>2, <2>3 DEF Uploading
<1>4. ASSUME Receive
      PROVE  Folder!Next \/ UNCHANGED Folder!vars
  BY <1>4, HeardFolds DEF Folder!Next
<1>5. CASE UNCHANGED svars
  BY <1>5, ListingsStay
     DEF svars, vars, Folder!vars, engine, window, history, Folder!engine, Folder!window, Folder!history
<1> QED BY <1>1, <1>2, <1>3, <1>4, <1>5 DEF SNext

(* Whatever files, uploads and gestures do, the window and the engine do   *)
(* what Navigation allows, for any number of commands (screen.rs receive,  *)
(* engine.rs navigate).                                                    *)
THEOREM WindowsKeepToNavigation == SSpec => KeepsToNavigation
<1>1. SSpec => []STypes
  BY STyping, PTL
<1> QED BY <1>1, FoldsInit, FoldsStep, PTL DEF SSpec, KeepsToNavigation, Folder!Spec
=============================================================================
