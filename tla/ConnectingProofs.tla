-------------------------- MODULE ConnectingProofs --------------------------
(***************************************************************************)
(* What Connecting keeps for any number of windows, attempts and uploads.  *)
(***************************************************************************)
EXTENDS Connecting, SequenceTheorems, TLAPS

USE DEF screens, questions

-----------------------------------------------------------------------------
(* What a step of the engine's tasks comes to, whichever it is: the task   *)
(* gets on, asking as it begins to wait and having been answered as it     *)
(* stops, and nothing of the interface changes.                            *)

(* An upload does nothing but ask, and nobody else asks what it asks. *)
KeepsToItsKind ==
    \A t \in Tasks :
        /\ kind[t] = "upload" => phase[t] \in {"idle", "sent", "Overwrite", "over"}
        /\ phase[t] = "Overwrite" => kind[t] = "upload" /\ on[t] \in Tasks

Asks(t, to) ==
    /\ to \in Questions
    /\ phase[t] \notin Questions
    /\ answer' = answer
    /\ news' = Append(news, [type |-> "ask", of |-> t])

GetsOn(t, to) ==
    /\ to \in Phases \ (Questions \cup {"idle"})
    /\ \/ phase[t] \notin Questions /\ answer' = answer
       \/ answer[t] # "none" /\ answer' = [answer EXCEPT ![t] = "none"]
    /\ \/ news' = news
       \/ news' = Append(news, [type |-> "connecting", of |-> t])
       \/ news' = Append(news, [type |-> "connected", of |-> t]) /\ to = "told"
       \/ news' = Append(news, [type |-> "failed", of |-> t])

Works(t, to) ==
    /\ phase[t] # "idle"
    /\ phase' = [phase EXCEPT ![t] = to]
    /\ Asks(t, to) \/ GetsOn(t, to)
    /\ keyed' \in [Tasks -> BOOLEAN]
    /\ unlocked' \in BOOLEAN
    /\ wrong' \in Nat
    /\ \/ registry' = registry
          /\ phase[t] # "told"
       \/ registry' = registry \cup {t}
    /\ kind[t] = "upload" => to \in {"Overwrite", "over"}
    /\ to = "Overwrite" => kind[t] = "upload" /\ on[t] \in registry
    /\ UNCHANGED <<open, screens, questions, kind, on, leaving, departing, slipped>>

LEMMA WorkWorks ==
    ASSUME TypeOK, KeepsToItsKind, NEW t \in Tasks, Work(t)
    PROVE  Works(t, phase'[t]) /\ phase'[t] \in Phases
<1> USE DEF TypeOK, KeepsToItsKind, Works, Asks, GetsOn, Step, Emit, OnlyTasks, Quietly, Fail, Ask,
            Woken, Phases, Questions, Commands, window, vault
<1>1. CASE EmitConnecting(t)
  BY <1>1 DEF EmitConnecting
<1>2. CASE BeginChange(t)
  BY <1>2 DEF BeginChange
<1>3. CASE FindStore(t)
  BY <1>3 DEF FindStore
<1>4. CASE FindSecret(t)
  BY <1>4 DEF FindSecret
<1>5. CASE Dial(t)
  BY <1>5 DEF Dial
<1>6. CASE NotSignedIn(t)
  BY <1>6 DEF NotSignedIn
<1>7. CASE SignedIn(t)
  BY <1>7 DEF SignedIn
<1>8. CASE Register(t)
  BY <1>8 DEF Register
<1>9. CASE BeginUpload(t)
  BY <1>9 DEF BeginUpload
<1>10. CASE Declined(t)
  BY <1>10 DEF Declined
<1>11. CASE Passphrase(t)
  BY <1>11 DEF Passphrase
<1>12. CASE WrongPassphrase(t)
  <2>1. wrong' \in Nat
    BY <1>12 DEF WrongPassphrase
  <2>2. /\ phase' = [phase EXCEPT ![t] = "vault"]
        /\ phase[t] = "Passphrase"
        /\ answer[t] = "given"
        /\ answer' = [answer EXCEPT ![t] = "none"]
        /\ UNCHANGED <<news, keyed, unlocked, window, kind, on, registry, leaving,
                       departing, slipped>>
    BY <1>12 DEF WrongPassphrase
  <2> QED BY <2>1, <2>2
<1>13. CASE SecretGiven(t)
  BY <1>13 DEF SecretGiven
<1>14. CASE HostKeyAccepted(t)
  BY <1>14 DEF HostKeyAccepted
<1>15. CASE KeyPassphrase(t)
  BY <1>15 DEF KeyPassphrase
<1>16. CASE OverwriteAnswered(t)
  BY <1>16 DEF OverwriteAnswered
<1> QED
  BY <1>1, <1>2, <1>3, <1>4, <1>5, <1>6, <1>7, <1>8, <1>9, <1>10, <1>11, <1>12,
     <1>13, <1>14, <1>15, <1>16 DEF Work

LEMMA TasksGetOn ==
    ASSUME TypeOK, KeepsToItsKind, NEW t \in Tasks, NEW to \in Phases, Works(t, to)
    PROVE  TypeOK' /\ KeepsToItsKind'
<1>1. news' \in Seq(News)
  <2>1. \A type \in {"connecting", "connected", "failed", "ask"} :
           [type |-> type, of |-> t] \in News
    BY DEF News
  <2>2. \/ news' = news
        \/ \E type \in {"connecting", "connected", "failed", "ask"} :
              news' = Append(news, [type |-> type, of |-> t])
    BY DEF Works, Asks, GetsOn
  <2>3. \A event \in News : Append(news, event) \in Seq(News)
    BY DEF TypeOK
  <2> QED BY <2>1, <2>2, <2>3 DEF TypeOK
<1>2. answer' \in [Tasks -> {"none", "given", "declined"}]
  BY DEF Works, Asks, GetsOn, TypeOK
<1>3. phase' \in [Tasks -> Phases]
  BY DEF Works, TypeOK
<1>4. TypeOK'
  BY <1>1, <1>2, <1>3 DEF Works, TypeOK
<1>5. KeepsToItsKind'
  BY DEF Works, TypeOK, KeepsToItsKind
<1> QED BY <1>4, <1>5

-----------------------------------------------------------------------------
(* The types of the variables. *)

Typed == TypeOK /\ KeepsToItsKind

THEOREM TypeInit == Init => Typed
BY TasksAssumption DEF Init, Typed, TypeOK, KeepsToItsKind, Phases, Questions, Commands

(* The reply that reaches a prompt is one it can be given. *)
LEMMA AnsweredType ==
    ASSUME TypeOK, NEW ts, NEW reply \in {"given", "declined"}, Answered(ts, reply)
    PROVE  /\ answer' \in [Tasks -> {"none", "given", "declined"}]
           /\ \A t \in Tasks : answer'[t] = "none" <=> answer[t] = "none" /\ t \notin ts
           /\ \A t \in Tasks : answer[t] # "none" => answer'[t] = answer[t]
BY DEF TypeOK, Answered

LEMMA HeadOfNews ==
    ASSUME TypeOK, news # <<>>
    PROVE  Head(news) \in News /\ Tail(news) \in Seq(News)
BY DEF TypeOK

LEMMA TypeStep == Typed /\ [Next]_vars => Typed'
<1> SUFFICES ASSUME Typed, [Next]_vars
             PROVE  Typed'
  OBVIOUS
<1> USE DEF Typed, TypeOK, Step, Emit, vault, sessions
<1>1. ASSUME NEW w \in Windows, NEW t \in Tasks, ConnectTo(w, t) \/ ChangeCredentials(w, t)
      PROVE  Typed'
  <2>1. /\ attempt' = [attempt EXCEPT ![w] = t]
        /\ phase[t] = "idle"
        /\ phase' = [phase EXCEPT ![t] = "sent"]
        /\ connecting' \in [Windows -> BOOLEAN]
        /\ slipped' = slipped \cup Awaited(w)
        /\ UNCHANGED <<open, session, pending, asking, news, kind, answer, on, keyed,
                       vault, sessions>>
    BY <1>1 DEF ConnectTo, ChangeCredentials, Attempt
  <2>2. Awaited(w) \subseteq Tasks
    BY DEF Awaited
  <2> QED BY <2>1, <2>2 DEF KeepsToItsKind, Phases
<1>2. ASSUME NEW w \in Windows, NEW t \in Tasks, Upload(w, t)
      PROVE  Typed'
  BY <1>2 DEF Upload, window, KeepsToItsKind, Phases
<1>3. ASSUME NEW w \in Windows, Leave(w)
      PROVE  leaving' \in [Tasks -> Nat]
  BY <1>3 DEF Leave
<1>4. ASSUME NEW w \in Windows, Disconnect(w)
      PROVE  Typed'
  BY <1>3, <1>4 DEF Disconnect, window, task, KeepsToItsKind
<1>5. ASSUME NEW w \in Windows, Close(w)
      PROVE  Typed'
  <2>1. answer' \in [Tasks -> {"none", "given", "declined"}]
    BY <1>5, AnsweredType DEF Close
  <2>2. Awaited(w) \subseteq Tasks
    BY DEF Awaited
  <2> QED BY <1>3, <1>5, <2>1, <2>2 DEF Close, KeepsToItsKind
<1>6. ASSUME NEW w \in Windows, NEW reply \in {"given", "declined"}, Reply(w, reply)
      PROVE  Typed'
  <2>1. answer' \in [Tasks -> {"none", "given", "declined"}]
    BY <1>6, AnsweredType DEF Reply
  <2>2. pending' \in [Windows -> Seq(Tasks)]
    BY <1>6 DEF Reply
  <2>3. asking' \in [Windows -> BOOLEAN]
    BY <1>6, Zenon DEF Reply
  <2> QED BY <1>6, <2>1, <2>2, <2>3 DEF Reply, KeepsToItsKind
<1>7. ASSUME NEW t \in Tasks, Work(t)
      PROVE  Typed'
  BY <1>7, WorkWorks, TasksGetOn
<1>8. ASSUME NEW s \in Tasks, RunDisconnect(s)
      PROVE  Typed'
  BY <1>8 DEF RunDisconnect, window, task, KeepsToItsKind
<1>9. ASSUME NEW s \in Tasks, Gone(s)
      PROVE  Typed'
  <2>1. [type |-> "disconnected", of |-> s] \in News
    BY DEF News
  <2> QED BY <1>9, <2>1 DEF Gone, window, task, KeepsToItsKind
<1>10. ASSUME NEW t \in Tasks, HearConnecting(t) \/ HearConnected(t) \/ HearFailed(t)
       PROVE  Typed'
  BY <1>10, HeadOfNews
     DEF HearConnecting, HearConnected, HearFailed, Hear, OnlyScreens, Concerned, task,
         KeepsToItsKind
<1>11. ASSUME NEW s \in Tasks, HearDisconnected(s)
       PROVE  Typed'
  BY <1>11, HeadOfNews DEF HearDisconnected, Hear, OnlyScreens, task, KeepsToItsKind
<1>12. ASSUME NEW t \in Tasks, HearAsk(t)
       PROVE  Typed'
  <2>1. answer' \in [Tasks -> {"none", "given", "declined"}]
    BY <1>12, AnsweredType DEF HearAsk
  <2>2. pending' \in [Windows -> Seq(Tasks)]
    BY <1>12 DEF HearAsk
  <2>3. asking' \in [Windows -> BOOLEAN]
    BY <1>12, Zenon DEF HearAsk
  <2> QED BY <1>12, <2>1, <2>2, <2>3, HeadOfNews DEF HearAsk, Hear, KeepsToItsKind
<1>13. CASE UNCHANGED vars
  BY <1>13 DEF vars, window, task, KeepsToItsKind
<1> QED
  BY <1>1, <1>2, <1>4, <1>5, <1>6, <1>7, <1>8, <1>9, <1>10, <1>11, <1>12, <1>13
     DEF Next, Window, Choose, Leaving, Listen

(* Every variable keeps its type, and every task keeps to its kind. *)
THEOREM Typing == Spec => []TypeOK
BY TypeInit, TypeStep, PTL DEF Spec, Typed

-----------------------------------------------------------------------------
(* A task is asked for in one window, and what comes of it is shown in no  *)
(* other.                                                                  *)

Holds(w, t) == attempt[w] = t \/ session[w] = t

(* What a window holds has been asked for, and no other window holds it.   *)
Apart ==
    \A t \in Tasks : \A w \in Windows : Holds(w, t) =>
        /\ phase[t] # "idle"
        /\ \A v \in Windows : Holds(v, t) => v = w

LEMMA ApartInit == Init => Apart
BY TasksAssumption DEF Init, Apart, Holds

(* Windows that come to hold nothing new stay apart while tasks get on.    *)
LEMMA ApartLess ==
    ASSUME Apart,
           \A t \in Tasks : phase[t] # "idle" => phase'[t] # "idle",
           \A t \in Tasks, w \in Windows : Holds(w, t)' => Holds(w, t)
    PROVE  Apart'
BY DEF Apart, Holds

LEMMA ApartStep == Typed /\ Apart /\ [Next]_vars => Apart'
<1> SUFFICES ASSUME Typed, Apart, [Next]_vars
             PROVE  Apart'
  OBVIOUS
<1> USE DEF Typed, TypeOK, Step, Holds
<1>1. ASSUME NEW w \in Windows, NEW t \in Tasks, ConnectTo(w, t) \/ ChangeCredentials(w, t)
      PROVE  Apart'
  <2>1. /\ attempt' = [attempt EXCEPT ![w] = t]
        /\ phase[t] = "idle"
        /\ phase' = [phase EXCEPT ![t] = "sent"]
        /\ session' = session
    BY <1>1 DEF ConnectTo, ChangeCredentials, Attempt
  <2>2. \A v \in Windows : ~Holds(v, t)
    BY <2>1 DEF Apart
  <2> QED BY <2>1, <2>2 DEF Apart
<1>2. ASSUME NEW t \in Tasks, Work(t)
      PROVE  Apart'
  <2>1. Works(t, phase'[t]) /\ phase'[t] \in Phases
    BY <1>2, WorkWorks
  <2>2. phase'[t] # "idle" /\ UNCHANGED <<attempt, session>>
        /\ phase' = [phase EXCEPT ![t] = phase'[t]]
    BY <2>1 DEF Works, Asks, GetsOn, Questions
  <2> QED BY <2>2, ApartLess
<1>3. ASSUME NEW w \in Windows, NEW t \in Tasks, Upload(w, t)
      PROVE  Apart'
  BY <1>3, ApartLess DEF Upload, window
<1>4. ASSUME NEW w \in Windows, Close(w)
      PROVE  Apart'
  <2>1. phase' = phase /\ attempt' = [attempt EXCEPT ![w] = None]
        /\ session' = [session EXCEPT ![w] = None]
    BY <1>4 DEF Close
  <2> QED BY <2>1, TasksAssumption, ApartLess
<1>5. ASSUME NEW t \in Tasks, HearConnected(t)
      PROVE  Apart'
  <2>1. phase' = phase /\ attempt' = attempt
        /\ session' = [w \in Windows |-> IF w \in Concerned(t) THEN t ELSE session[w]]
    BY <1>5 DEF HearConnected, OnlyScreens, task
  <2> QED BY <2>1, ApartLess DEF Concerned
<1>6. ASSUME NEW t \in Tasks, HearFailed(t)
      PROVE  Apart'
  <2>1. phase' = phase /\ session' = session
        /\ attempt' = [w \in Windows |-> IF w \in Concerned(t) THEN None ELSE attempt[w]]
    BY <1>6 DEF HearFailed, OnlyScreens, task
  <2> QED BY <2>1, TasksAssumption, ApartLess
<1>7. ASSUME NEW s \in Tasks, HearDisconnected(s)
      PROVE  Apart'
  <2> DEFINE theirs == {w \in open : session[w] = s}
  <2>1. phase' = phase
        /\ session' = [w \in Windows |-> IF w \in theirs THEN None ELSE session[w]]
        /\ attempt' = [w \in Windows |-> IF w \in theirs THEN None ELSE attempt[w]]
    BY <1>7 DEF HearDisconnected, OnlyScreens, task
  <2> HIDE DEF theirs
  <2> QED BY <2>1, TasksAssumption, ApartLess
<1>8. CASE UNCHANGED <<attempt, session, phase>>
  BY <1>8, ApartLess
<1>9. CASE UNCHANGED vars
  BY <1>8, <1>9 DEF vars, window, task
<1>10. ASSUME NEW w \in Windows, Disconnect(w) \/ Choose(w)
       PROVE  UNCHANGED <<attempt, session, phase>>
  BY <1>10 DEF Disconnect, Choose, Reply, window, task
<1>11. ASSUME NEW t \in Tasks, Leaving(t) \/ HearConnecting(t) \/ HearAsk(t)
       PROVE  UNCHANGED <<attempt, session, phase>>
  BY <1>11
     DEF Leaving, RunDisconnect, Gone, HearConnecting, HearAsk, OnlyScreens, window, task
<1> QED
  BY <1>1, <1>2, <1>3, <1>4, <1>5, <1>6, <1>7, <1>8, <1>9, <1>10, <1>11
     DEF Next, Window, Listen

(* No connection is ever shown by two windows, so neither can close what   *)
(* the other is using.                                                     *)
THEOREM SessionsAreNeverShared == Spec => []SessionsAreNotShared
<1>1. Typed /\ Apart => SessionsAreNotShared
  BY DEF Typed, TypeOK, Apart, Holds, SessionsAreNotShared
<1> QED
  BY <1>1, TypeInit, TypeStep, ApartInit, ApartStep, PTL DEF Spec

-----------------------------------------------------------------------------
(* The questions.                                                          *)

Asking(t) == phase[t] \in Questions /\ answer[t] = "none"

Broken(t) == [type |-> "ask", of |-> t]

(* A question is in line once, while its task waits for it and after the   *)
(* windows have heard of it.                                               *)
InLine ==
    \A w \in Windows : \A i \in DOMAIN pending[w] :
        /\ Asking(pending[w][i])
        /\ \A j \in DOMAIN news : news[j] # Broken(pending[w][i])
        /\ \A j \in DOMAIN pending[w] : pending[w][j] = pending[w][i] => j = i

(* The news of a question breaks once, while its task waits for it. *)
OnItsWay ==
    \A i \in DOMAIN news : \A t \in Tasks : news[i] = Broken(t) =>
        /\ Asking(t)
        /\ \A j \in DOMAIN news : news[j] = Broken(t) => j = i

(* A task that does not wait has no answer coming. *)
NoAnswerComing == \A t \in Tasks : phase[t] \notin Questions => answer[t] = "none"

(* A window has a question on screen when it has one in line, and none     *)
(* once it is closed.                                                      *)
OnScreen ==
    \A w \in Windows :
        /\ asking[w] <=> pending[w] # <<>>
        /\ w \notin open => pending[w] = <<>>

Orderly ==
    /\ InLine
    /\ OnItsWay
    /\ OneWindowAsks
    /\ NoAnswerComing
    /\ OnScreen
    /\ NobodyWaitsForNothing

LEMMA OrderlyInit == Init => Orderly
BY DEF Init, Orderly, InLine, OnItsWay, OneWindowAsks, NoAnswerComing, OnScreen,
       NobodyWaitsForNothing, Elements, Questions

LEMMA ElementsAreTasks ==
    ASSUME TypeOK, NEW w \in Windows
    PROVE  /\ pending[w] \in Seq(Tasks)
           /\ \A i \in DOMAIN pending[w] : pending[w][i] \in Tasks
BY DEF TypeOK

LEMMA NewsThatBreaks ==
    ASSUME TypeOK, NEW event \in News, news' = Append(news, event)
    PROVE  /\ DOMAIN news' = 1 .. Len(news) + 1
           /\ DOMAIN news = 1 .. Len(news)
           /\ Len(news) \in Nat
           /\ \A i \in 1 .. Len(news) : news'[i] = news[i]
           /\ news'[Len(news) + 1] = event
BY AppendProperties DEF TypeOK

LEMMA NewsThatIsHeard ==
    ASSUME TypeOK, news # <<>>, news' = Tail(news)
    PROVE  /\ DOMAIN news' = 1 .. Len(news) - 1
           /\ DOMAIN news = 1 .. Len(news)
           /\ Len(news) \in Nat \ {0}
           /\ \A i \in 1 .. Len(news) - 1 : news'[i] = news[i + 1]
           /\ news[1] = Head(news)
BY HeadTailProperties, EmptySeq DEF TypeOK

(* A step that asks nothing and answers nothing, whatever it reports. *)
LEMMA NothingAsked ==
    ASSUME Typed, Orderly,
           UNCHANGED <<open, pending, asking>>,
           \A t \in Tasks : Asking(t)' <=> Asking(t),
           NoAnswerComing',
           \/ news' = news
           \/ \E event \in News : event.type # "ask" /\ news' = Append(news, event)
    PROVE  Orderly'
<1> USE DEF Typed, Orderly
<1>1. /\ \A t \in Tasks, i \in DOMAIN news' :
             news'[i] = Broken(t) => i \in DOMAIN news /\ news[i] = Broken(t)
      /\ \A i \in DOMAIN news : i \in DOMAIN news' /\ news'[i] = news[i]
  <2>1. CASE news' = news
    BY <2>1
  <2>2. ASSUME NEW event \in News, event.type # "ask", news' = Append(news, event)
        PROVE  <1>1!1 /\ <1>1!2
    <3>1. \A t \in Tasks : event # Broken(t)
      BY <2>2 DEF Broken
    <3> QED BY <2>2, <3>1, NewsThatBreaks
  <2> QED BY <2>1, <2>2
<1>2. InLine'
  BY <1>1, ElementsAreTasks DEF InLine
<1>3. OnItsWay'
  BY <1>1 DEF OnItsWay
<1>4. OneWindowAsks' /\ OnScreen'
  BY DEF OneWindowAsks, OnScreen
<1>5. NobodyWaitsForNothing'
  <2> SUFFICES ASSUME NEW t \in Tasks, Asking(t)'
               PROVE  \/ \E i \in DOMAIN news' : news'[i] = Broken(t)
                      \/ \E w \in open' : asking'[w] /\ t \in Elements(pending[w])'
    BY DEF NobodyWaitsForNothing, Asking, Broken
  <2>1. Asking(t)
    OBVIOUS
  <2>2. \/ \E i \in DOMAIN news : news[i] = Broken(t)
        \/ \E w \in open : asking[w] /\ t \in Elements(pending[w])
    BY <2>1 DEF NobodyWaitsForNothing, Asking, Broken
  <2> QED BY <1>1, <2>2
<1> QED BY <1>2, <1>3, <1>4, <1>5

(* News other than a question's is heard. *)
LEMMA OtherNewsHeard ==
    ASSUME Typed, Orderly,
           UNCHANGED <<open, pending, asking, phase, answer>>,
           news # <<>>, Head(news).type # "ask", news' = Tail(news)
    PROVE  Orderly'
<1> USE DEF Typed, Orderly
<1>1. /\ DOMAIN news = 1 .. Len(news)
      /\ DOMAIN news' = 1 .. Len(news) - 1
      /\ Len(news) \in Nat \ {0}
      /\ \A i \in 1 .. Len(news) - 1 : news'[i] = news[i + 1]
      /\ \A t \in Tasks : news[1] # Broken(t)
  BY NewsThatIsHeard DEF Broken
<1>2. \A t \in Tasks : Asking(t)' <=> Asking(t)
  BY DEF Asking
<1>3. InLine'
  <2> SUFFICES ASSUME NEW w \in Windows, NEW i \in DOMAIN pending[w]
               PROVE  /\ Asking(pending[w][i])'
                      /\ \A j \in DOMAIN news' : news'[j] # Broken(pending[w][i])
                      /\ \A j \in DOMAIN pending[w] : pending[w][j] = pending[w][i] => j = i
    BY DEF InLine, Broken
  <2> QED BY <1>1, <1>2, ElementsAreTasks DEF InLine
<1>4. OnItsWay'
  BY <1>1, <1>2 DEF OnItsWay
<1>5. OneWindowAsks' /\ OnScreen' /\ NoAnswerComing'
  BY DEF OneWindowAsks, OnScreen, NoAnswerComing
<1>6. NobodyWaitsForNothing'
  <2> SUFFICES ASSUME NEW t \in Tasks, Asking(t)
               PROVE  \/ \E i \in DOMAIN news' : news'[i] = Broken(t)
                      \/ \E w \in open' : asking'[w] /\ t \in Elements(pending[w])'
    BY <1>2 DEF NobodyWaitsForNothing, Asking, Broken
  <2>1. CASE \E w \in open : asking[w] /\ t \in Elements(pending[w])
    BY <2>1
  <2>2. ASSUME NEW i \in DOMAIN news, news[i] = Broken(t)
        PROVE  \E k \in DOMAIN news' : news'[k] = Broken(t)
    <3>1. i - 1 \in DOMAIN news' /\ news'[i - 1] = news[i]
      BY <1>1, <2>2
    <3> QED BY <2>2, <3>1
  <2> QED BY <2>1, <2>2 DEF NobodyWaitsForNothing, Asking, Broken
<1> QED BY <1>3, <1>4, <1>5, <1>6

(* A task asks, and waits. *)
LEMMA QuestionBreaks ==
    ASSUME Typed, Orderly, NEW t \in Tasks, NEW to \in Questions,
           phase[t] \notin Questions,
           phase' = [phase EXCEPT ![t] = to],
           answer' = answer,
           news' = Append(news, Broken(t)),
           UNCHANGED <<open, pending, asking>>
    PROVE  Orderly'
<1> USE DEF Typed, Orderly
<1> DEFINE last == Len(news) + 1
<1>1. Broken(t) \in News
  BY DEF Broken, News
<1>2. /\ DOMAIN news' = 1 .. last
      /\ DOMAIN news = 1 .. Len(news)
      /\ Len(news) \in Nat
      /\ \A i \in 1 .. Len(news) : news'[i] = news[i]
      /\ news'[last] = Broken(t)
  BY <1>1, NewsThatBreaks
<1>3. answer[t] = "none" /\ ~Asking(t)
  BY DEF NoAnswerComing, Asking
<1>4. \A u \in Tasks : Asking(u)' <=> Asking(u) \/ u = t
  BY <1>3 DEF Asking, TypeOK
<1>5. \A u \in Tasks : u # t => Broken(u) # Broken(t)
  BY DEF Broken
<1>6. \A i \in DOMAIN news : news[i] # Broken(t)
  BY <1>3 DEF OnItsWay
<1> HIDE DEF last
<1>7. InLine'
  <2> SUFFICES ASSUME NEW w \in Windows, NEW i \in DOMAIN pending[w]
               PROVE  /\ Asking(pending[w][i])'
                      /\ \A j \in DOMAIN news' : news'[j] # Broken(pending[w][i])
                      /\ \A j \in DOMAIN pending[w] : pending[w][j] = pending[w][i] => j = i
    BY DEF InLine, Broken
  <2>1. pending[w][i] \in Tasks /\ Asking(pending[w][i])
    BY ElementsAreTasks DEF InLine
  <2>2. pending[w][i] # t
    BY <1>3, <2>1
  <2> QED BY <1>2, <1>4, <1>5, <2>1, <2>2 DEF InLine, last
<1>8. OnItsWay'
  <2> SUFFICES ASSUME NEW i \in DOMAIN news', NEW u \in Tasks, news'[i] = Broken(u)
               PROVE  /\ Asking(u)'
                      /\ \A j \in DOMAIN news' : news'[j] = Broken(u) => j = i
    BY DEF OnItsWay, Broken
  <2>1. CASE u = t
    BY <1>2, <1>4, <1>6, <2>1 DEF last
  <2>2. CASE u # t
    BY <1>2, <1>4, <1>5, <2>2 DEF last, OnItsWay
  <2> QED BY <2>1, <2>2
<1>9. OneWindowAsks' /\ OnScreen'
  BY DEF OneWindowAsks, OnScreen
<1>10. NoAnswerComing'
  BY <1>3 DEF NoAnswerComing, TypeOK
<1>11. NobodyWaitsForNothing'
  <2> SUFFICES ASSUME NEW u \in Tasks, Asking(u) \/ u = t
               PROVE  \/ \E i \in DOMAIN news' : news'[i] = Broken(u)
                      \/ \E w \in open' : asking'[w] /\ u \in Elements(pending[w])'
    BY <1>4 DEF NobodyWaitsForNothing, Asking, Broken
  <2>1. CASE u = t
    BY <1>2, <2>1 DEF last
  <2>2. CASE Asking(u)
    <3>1. \/ \E i \in DOMAIN news : news[i] = Broken(u)
          \/ \E w \in open : asking[w] /\ u \in Elements(pending[w])
      BY <2>2 DEF NobodyWaitsForNothing, Asking, Broken
    <3> QED BY <1>2, <3>1 DEF last
  <2> QED BY <2>1, <2>2
<1> QED BY <1>7, <1>8, <1>9, <1>10, <1>11

(* The windows hear of a question.  One of them at most puts it in line,   *)
(* and if none does it is declined.                                        *)
LEMMA OneIsOurs ==
    ASSUME Typed, Apart, NEW t \in Tasks, Asking(t),
           NEW v \in Ours(t), NEW w \in Ours(t)
    PROVE  v = w
<1> USE DEF Typed, TypeOK
<1>1. CASE kind[t] # "upload"
  BY <1>1 DEF Ours, Apart, Holds
<1>2. CASE kind[t] = "upload"
  <2>1. on[t] \in Tasks
    BY <1>2 DEF Asking, KeepsToItsKind, Questions
  <2> QED BY <1>2, <2>1 DEF Ours, Apart, Holds
<1> QED BY <1>1, <1>2

LEMMA QuestionIsHeard ==
    ASSUME Typed, Apart, Orderly, NEW t \in Tasks, HearAsk(t)
    PROVE  Orderly'
<1> USE DEF Typed, Orderly
<1>1. /\ DOMAIN news = 1 .. Len(news)
      /\ DOMAIN news' = 1 .. Len(news) - 1
      /\ Len(news) \in Nat \ {0}
      /\ \A i \in 1 .. Len(news) - 1 : news'[i] = news[i + 1]
      /\ news[1] = Broken(t)
  BY NewsThatIsHeard DEF HearAsk, Hear, Broken
<1>2. /\ Asking(t)
      /\ \A i \in DOMAIN news : news[i] = Broken(t) => i = 1
  BY <1>1 DEF OnItsWay
<1>3. \A w \in Windows : \A i \in DOMAIN pending[w] : pending[w][i] # t
  BY <1>1 DEF InLine
<1>4. UNCHANGED <<open, phase>>
  BY DEF HearAsk
<1>5. \A u \in Tasks : \A i \in DOMAIN news' :
         news'[i] = Broken(u) => u # t /\ i + 1 \in DOMAIN news /\ news[i + 1] = Broken(u)
  BY <1>1, <1>2
<1>6. \A u \in Tasks, i \in DOMAIN news :
         u # t /\ news[i] = Broken(u) => i - 1 \in DOMAIN news' /\ news'[i - 1] = Broken(u)
  BY <1>1 DEF Broken
<1>7. CASE Ours(t) = {}
  <2>1. pending' = pending /\ asking' = asking
    BY <1>7 DEF HearAsk, TypeOK
  <2>2. \A u \in Tasks : answer'[u] = IF u = t THEN "declined" ELSE answer[u]
    BY <1>2, <1>7 DEF HearAsk, Answered, Asking
  <2>3. \A u \in Tasks : Asking(u)' <=> Asking(u) /\ u # t
    BY <1>4, <2>2 DEF Asking
  <2>4. InLine'
    <3> SUFFICES ASSUME NEW w \in Windows, NEW i \in DOMAIN pending[w]
                 PROVE  /\ Asking(pending[w][i])'
                        /\ \A j \in DOMAIN news' : news'[j] # Broken(pending[w][i])
                        /\ \A j \in DOMAIN pending[w] :
                              pending[w][j] = pending[w][i] => j = i
      BY <2>1 DEF InLine, Broken
    <3>1. pending[w][i] \in Tasks /\ Asking(pending[w][i]) /\ pending[w][i] # t
      BY <1>3, ElementsAreTasks DEF InLine
    <3>2. Asking(pending[w][i])'
      BY <1>4, <2>1, <2>2, <3>1 DEF Asking
    <3>3. \A j \in DOMAIN news' : news'[j] # Broken(pending[w][i])
      BY <1>5, <3>1 DEF InLine
    <3> QED BY <3>2, <3>3 DEF InLine
  <2>5. OnItsWay'
    <3> SUFFICES ASSUME NEW i \in DOMAIN news', NEW u \in Tasks, news'[i] = Broken(u)
                 PROVE  /\ Asking(u)'
                        /\ \A j \in DOMAIN news' : news'[j] = Broken(u) => j = i
      BY DEF OnItsWay, Broken
    <3> QED BY <1>1, <1>5, <2>3 DEF OnItsWay
  <2>6. OneWindowAsks' /\ OnScreen'
    BY <1>4, <2>1 DEF OneWindowAsks, OnScreen
  <2>7. NoAnswerComing'
    BY <1>2, <1>4, <2>2 DEF NoAnswerComing, Asking
  <2>8. NobodyWaitsForNothing'
    <3> SUFFICES ASSUME NEW u \in Tasks, Asking(u), u # t
                 PROVE  \/ \E i \in DOMAIN news' : news'[i] = Broken(u)
                        \/ \E w \in open' : asking'[w] /\ u \in Elements(pending[w])'
      BY <2>3 DEF NobodyWaitsForNothing, Asking, Broken
    <3>1. \/ \E i \in DOMAIN news : news[i] = Broken(u)
          \/ \E w \in open : asking[w] /\ u \in Elements(pending[w])
      BY DEF NobodyWaitsForNothing, Asking, Broken
    <3> QED BY <1>4, <1>6, <2>1, <3>1
  <2> QED BY <2>4, <2>5, <2>6, <2>7, <2>8
<1>8. ASSUME NEW w \in Ours(t)
      PROVE  Orderly'
  <2>1. Ours(t) = {w} /\ w \in open /\ w \in Windows
    BY <1>2, OneIsOurs DEF Ours, TypeOK
  <2>2. /\ pending' = [pending EXCEPT ![w] = Append(pending[w], t)]
        /\ \A v \in Windows : asking'[v] <=> v = w \/ asking[v]
    BY <2>1 DEF HearAsk, TypeOK
  <2>3. \A u \in Tasks : answer'[u] = answer[u]
    BY <2>1 DEF HearAsk, Answered
  <2> DEFINE Waits(u) == phase'[u] \in Questions /\ answer'[u] = "none"
  <2>4. \A u \in Tasks : /\ Asking(u)' <=> Asking(u)
                         /\ Waits(u) <=> Asking(u)
    BY <1>4, <2>3 DEF Asking
  <2> HIDE DEF Waits
  <2> DEFINE n == Len(pending[w])
  <2>5. /\ pending[w] \in Seq(Tasks) /\ n \in Nat
        /\ DOMAIN pending[w] = 1 .. n
        /\ DOMAIN pending'[w] = 1 .. n + 1
        /\ \A i \in 1 .. n : pending'[w][i] = pending[w][i]
        /\ pending'[w][n + 1] = t
        /\ pending'[w] # <<>>
        /\ \A v \in Windows \ {w} : pending'[v] = pending[v]
    <3>1. pending[w] \in Seq(Tasks) /\ DOMAIN pending[w] = 1 .. n /\ n \in Nat
      BY <2>1 DEF TypeOK
    <3>2. /\ pending'[w] = Append(pending[w], t)
          /\ \A v \in Windows \ {w} : pending'[v] = pending[v]
      BY <2>1, <2>2 DEF TypeOK
    <3>3. /\ DOMAIN Append(pending[w], t) = 1 .. n + 1
          /\ Append(pending[w], t) # <<>>
          /\ \A i \in 1 .. n : Append(pending[w], t)[i] = pending[w][i]
          /\ Append(pending[w], t)[n + 1] = t
      BY <3>1, AppendProperties
    <3> QED BY <3>1, <3>2, <3>3
  <2> HIDE DEF n
  <2>6. InLine'
    <3> SUFFICES ASSUME NEW v \in Windows, NEW i \in DOMAIN pending'[v]
                 PROVE  /\ Waits(pending'[v][i])
                        /\ \A j \in DOMAIN news' : news'[j] # Broken(pending'[v][i])
                        /\ \A j \in DOMAIN pending'[v] :
                              pending'[v][j] = pending'[v][i] => j = i
      BY DEF InLine, Asking, Broken, Waits
    <3>1. CASE v # w
      BY <1>3, <1>5, <2>4, <2>5, <3>1, ElementsAreTasks DEF InLine
    <3>2. CASE v = w /\ i = n + 1
      BY <1>2, <1>3, <1>5, <2>1, <2>4, <2>5, <3>2
    <3>3. CASE v = w /\ i \in 1 .. n
      BY <1>3, <1>5, <2>1, <2>4, <2>5, <3>3, ElementsAreTasks DEF InLine
    <3> QED BY <2>5, <3>1, <3>2, <3>3
  <2>7. OnItsWay'
    <3> SUFFICES ASSUME NEW i \in DOMAIN news', NEW u \in Tasks, news'[i] = Broken(u)
                 PROVE  /\ Asking(u)'
                        /\ \A j \in DOMAIN news' : news'[j] = Broken(u) => j = i
      BY DEF OnItsWay, Broken
    <3> QED BY <1>1, <1>5, <2>4 DEF OnItsWay
  <2>8. Elements(pending'[w]) = Elements(pending[w]) \cup {t}
    BY <2>5 DEF Elements
  <2>9. OneWindowAsks'
    <3>1. \A v \in Windows : t \notin Elements(pending[v])
      BY <1>3 DEF Elements
    <3>2. \A v \in Windows \ {w} : Elements(pending'[v]) = Elements(pending[v])
      BY <2>5
    <3>3. \A v, x \in Windows :
             v # x => Elements(pending'[v]) \cap Elements(pending'[x]) = {}
      BY <2>1, <2>8, <3>1, <3>2 DEF OneWindowAsks
    <3> QED BY <3>3 DEF OneWindowAsks, Elements
  <2>10. OnScreen'
    BY <1>4, <2>1, <2>2, <2>5 DEF OnScreen
  <2>11. NoAnswerComing'
    BY <1>4, <2>3 DEF NoAnswerComing
  <2>12. NobodyWaitsForNothing'
    <3> SUFFICES ASSUME NEW u \in Tasks, Asking(u)
                 PROVE  \/ \E i \in DOMAIN news' : news'[i] = Broken(u)
                        \/ \E v \in open' : asking'[v] /\ u \in Elements(pending'[v])
      BY <2>4 DEF NobodyWaitsForNothing, Asking, Broken
    <3>1. CASE u = t
      BY <1>4, <2>1, <2>2, <2>8, <3>1
    <3>2. CASE u # t
      <4>1. \/ \E i \in DOMAIN news : news[i] = Broken(u)
            \/ \E v \in open : asking[v] /\ u \in Elements(pending[v])
        BY DEF NobodyWaitsForNothing, Asking, Broken
      <4>2. \A v \in open : v \in Windows
        BY DEF TypeOK
      <4> QED BY <1>4, <1>6, <2>2, <2>5, <2>8, <3>2, <4>1, <4>2
    <3> QED BY <3>1, <3>2
  <2> QED BY <2>6, <2>7, <2>9, <2>10, <2>11, <2>12
<1> QED BY <1>7, <1>8

(* A window closes, and declines what it had in line. *)
LEMMA WindowCloses ==
    ASSUME Typed, Orderly, NEW w \in Windows, Close(w)
    PROVE  Orderly'
<1> USE DEF Typed, Orderly
<1> DEFINE lost == Elements(pending[w])
<1>1. /\ UNCHANGED <<news, phase>>
      /\ open' = open \ {w}
      /\ pending'[w] = <<>>
      /\ \A v \in Windows \ {w} : pending'[v] = pending[v] /\ asking'[v] = asking[v]
      /\ asking'[w] = FALSE
  BY DEF Close, TypeOK
<1>2. \A t \in Tasks : answer'[t] = IF t \in lost /\ answer[t] = "none" THEN "declined"
                                    ELSE answer[t]
  <2>1. lost \ UNION {Elements(pending[v]) : v \in open \ {w}} = lost
    BY DEF OneWindowAsks, TypeOK
  <2> HIDE DEF lost
  <2> QED BY <2>1 DEF Close, Answered, lost
<1>3. \A t \in Tasks : Asking(t)' <=> Asking(t) /\ t \notin lost
  BY <1>1, <1>2 DEF Asking
<1>4. \A v \in Windows \ {w} : Elements(pending[v]) \cap lost = {}
  BY DEF OneWindowAsks
<1>5. \A v \in Windows : \A i \in DOMAIN pending'[v] :
         v # w /\ i \in DOMAIN pending[v] /\ pending[v][i] \notin lost
  <2>1. DOMAIN pending'[w] = {}
    BY <1>1
  <2>2. \A v \in Windows \ {w} : \A i \in DOMAIN pending[v] : pending[v][i] \notin lost
    BY <1>4 DEF Elements
  <2> HIDE DEF lost
  <2> QED BY <1>1, <2>1, <2>2
<1>6. \A i \in DOMAIN news, t \in lost : news[i] # Broken(t)
  BY DEF InLine, Elements
<1> HIDE DEF lost
<1>7. InLine'
  <2> SUFFICES ASSUME NEW v \in Windows \ {w}, NEW i \in DOMAIN pending[v]
               PROVE  /\ Asking(pending[v][i])'
                      /\ \A j \in DOMAIN news : news[j] # Broken(pending[v][i])
                      /\ \A j \in DOMAIN pending[v] : pending[v][j] = pending[v][i] => j = i
    BY <1>1, <1>5 DEF InLine, Asking, Broken
  <2>1. pending[v][i] \in Tasks /\ Asking(pending[v][i]) /\ pending[v][i] \notin lost
    BY <1>4, ElementsAreTasks DEF InLine, Elements
  <2>2. pending'[v] = pending[v]
    BY <1>1
  <2>3. Asking(pending[v][i])'
    BY <1>1, <1>2, <2>1, <2>2 DEF Asking
  <2> QED BY <2>3 DEF InLine
<1>8. OnItsWay'
  <2> SUFFICES ASSUME NEW i \in DOMAIN news, NEW t \in Tasks, news[i] = Broken(t)
               PROVE  /\ Asking(t)'
                      /\ \A j \in DOMAIN news : news[j] = Broken(t) => j = i
    BY <1>1 DEF OnItsWay, Broken
  <2> QED BY <1>3, <1>6 DEF OnItsWay
<1>9. OneWindowAsks'
  <2>1. Elements(pending'[w]) = {}
    BY <1>1 DEF Elements
  <2>2. \A v \in Windows \ {w} : Elements(pending'[v]) = Elements(pending[v])
    BY <1>1
  <2>3. \A u, v \in Windows : u # v => Elements(pending'[u]) \cap Elements(pending'[v]) = {}
    BY <2>1, <2>2 DEF OneWindowAsks
  <2> QED BY <2>3 DEF OneWindowAsks, Elements
<1>10. OnScreen'
  BY <1>1 DEF OnScreen
<1>11. NoAnswerComing'
  <2>1. \A t \in Tasks : t \in lost => Asking(t)
    BY DEF InLine, Elements, lost
  <2> QED BY <1>1, <1>2, <2>1 DEF NoAnswerComing, Asking
<1>12. NobodyWaitsForNothing'
  <2> SUFFICES ASSUME NEW t \in Tasks, Asking(t), t \notin lost
               PROVE  \/ \E i \in DOMAIN news' : news'[i] = Broken(t)
                      \/ \E v \in open' : asking'[v] /\ t \in Elements(pending'[v])
    BY <1>3 DEF NobodyWaitsForNothing, Asking, Broken, Elements
  <2>1. \/ \E i \in DOMAIN news : news[i] = Broken(t)
        \/ \E v \in open : asking[v] /\ t \in Elements(pending[v])
    BY DEF NobodyWaitsForNothing, Asking, Broken
  <2>2. \A v \in open : v \in Windows
    BY DEF TypeOK
  <2> QED BY <1>1, <2>1, <2>2 DEF lost
<1> QED BY <1>7, <1>8, <1>9, <1>10, <1>11, <1>12

(* The question on screen is answered. *)
LEMMA QuestionIsAnswered ==
    ASSUME Typed, Orderly, NEW w \in Windows, NEW reply \in {"given", "declined"},
           Reply(w, reply)
    PROVE  Orderly'
<1> USE DEF Typed, Orderly
<1> DEFINE t == Head(pending[w])
           n == Len(pending[w])
<1>1. /\ UNCHANGED <<open, news, phase>>
      /\ pending[w] # <<>>
      /\ asking[w]
      /\ pending'[w] = Tail(pending[w])
      /\ asking'[w] <=> Tail(pending[w]) # <<>>
      /\ \A v \in Windows \ {w} : pending'[v] = pending[v] /\ asking'[v] = asking[v]
  BY DEF Reply, TypeOK
<1>2. /\ pending[w] \in Seq(Tasks)
      /\ n \in Nat \ {0}
      /\ DOMAIN pending[w] = 1 .. n
      /\ t = pending[w][1]
      /\ t \in Tasks
      /\ DOMAIN Tail(pending[w]) = 1 .. n - 1
      /\ \A i \in 1 .. n - 1 : Tail(pending[w])[i] = pending[w][i + 1]
  BY <1>1, HeadTailProperties, EmptySeq DEF TypeOK
<1>3. \A u \in Tasks : answer'[u] = IF u = t /\ answer[u] = "none" THEN reply
                                    ELSE answer[u]
  BY DEF Reply, Answered
<1> HIDE DEF t, n
<1>4. Asking(t) /\ \A i \in DOMAIN news : news[i] # Broken(t)
  BY <1>2 DEF InLine
<1>5. \A u \in Tasks : Asking(u)' <=> Asking(u) /\ u # t
  BY <1>1, <1>3 DEF Asking
<1>6. \A v \in Windows \ {w} : t \notin Elements(pending[v])
  <2>1. t \in Elements(pending[w])
    BY <1>2 DEF Elements
  <2> QED BY <2>1 DEF OneWindowAsks
<1>7. \A i \in 2 .. n : pending[w][i] # t
  BY <1>2 DEF InLine
<1>8. \A v \in Windows : \A i \in DOMAIN pending'[v] :
         \E k \in DOMAIN pending[v] :
             /\ pending'[v][i] = pending[v][k]
             /\ pending[v][k] # t
             /\ k = IF v = w THEN i + 1 ELSE i
  <2> SUFFICES ASSUME NEW v \in Windows, NEW i \in DOMAIN pending'[v]
               PROVE  \E k \in DOMAIN pending[v] :
                          /\ pending'[v][i] = pending[v][k]
                          /\ pending[v][k] # t
                          /\ k = IF v = w THEN i + 1 ELSE i
    OBVIOUS
  <2>1. CASE v = w
    <3>1. i \in 1 .. n - 1 /\ pending'[w][i] = pending[w][i + 1]
      BY <1>1, <1>2, <2>1
    <3>2. i + 1 \in DOMAIN pending[w] /\ i + 1 \in 2 .. n
      BY <1>2, <3>1
    <3> QED BY <1>7, <2>1, <3>1, <3>2
  <2>2. CASE v # w
    BY <1>1, <1>6, <2>2 DEF Elements
  <2> QED BY <2>1, <2>2
<1> DEFINE Waits(u) == phase'[u] \in Questions /\ answer'[u] = "none"
<1>9. \A u \in Tasks : Waits(u) <=> Asking(u) /\ u # t
  BY <1>1, <1>3 DEF Asking
<1> HIDE DEF Waits
<1>10. InLine'
  <2> SUFFICES ASSUME NEW v \in Windows, NEW i \in DOMAIN pending'[v]
               PROVE  /\ Waits(pending'[v][i])
                      /\ \A j \in DOMAIN news : news[j] # Broken(pending'[v][i])
                      /\ \A j \in DOMAIN pending'[v] :
                            pending'[v][j] = pending'[v][i] => j = i
    BY <1>1 DEF InLine, Asking, Broken, Waits
  <2>1. PICK k \in DOMAIN pending[v] :
           /\ pending'[v][i] = pending[v][k]
           /\ pending[v][k] # t
           /\ k = IF v = w THEN i + 1 ELSE i
    BY <1>8
  <2>2. pending[v][k] \in Tasks /\ Asking(pending[v][k])
    BY ElementsAreTasks DEF InLine
  <2>3. \A j \in DOMAIN news : news[j] # Broken(pending[v][k])
    BY DEF InLine
  <2>4. ASSUME NEW j \in DOMAIN pending'[v], pending'[v][j] = pending'[v][i]
        PROVE  j = i
    <3>1. PICK l \in DOMAIN pending[v] :
             pending'[v][j] = pending[v][l] /\ l = IF v = w THEN j + 1 ELSE j
      BY <1>8
    <3>2. l = k
      BY <2>1, <2>4, <3>1 DEF InLine
    <3>3. v = w => i \in Nat /\ j \in Nat
      <4>1. DOMAIN pending'[w] = 1 .. n - 1
        BY <1>1, <1>2
      <4> QED BY <1>2, <4>1
    <3> QED BY <2>1, <3>1, <3>2, <3>3
  <2> QED BY <1>9, <2>1, <2>2, <2>3, <2>4
<1>11. OnItsWay'
  <2> SUFFICES ASSUME NEW i \in DOMAIN news, NEW u \in Tasks, news[i] = Broken(u)
               PROVE  /\ Asking(u)'
                      /\ \A j \in DOMAIN news : news[j] = Broken(u) => j = i
    BY <1>1 DEF OnItsWay, Broken
  <2> QED BY <1>4, <1>5 DEF OnItsWay
<1>12. OneWindowAsks'
  <2>1. \A v \in Windows : Elements(pending'[v]) \subseteq Elements(pending[v])
    BY <1>8 DEF Elements
  <2>2. \A u, v \in Windows : u # v => Elements(pending'[u]) \cap Elements(pending'[v]) = {}
    BY <2>1 DEF OneWindowAsks
  <2> QED BY <2>2 DEF OneWindowAsks, Elements
<1>13. OnScreen'
  BY <1>1 DEF OnScreen
<1>14. NoAnswerComing'
  BY <1>1, <1>3, <1>4 DEF NoAnswerComing, Asking
<1>15. NobodyWaitsForNothing'
  <2> SUFFICES ASSUME NEW u \in Tasks, Asking(u), u # t
               PROVE  \/ \E i \in DOMAIN news' : news'[i] = Broken(u)
                      \/ \E v \in open' : asking'[v] /\ u \in Elements(pending'[v])
    BY <1>5 DEF NobodyWaitsForNothing, Asking, Broken, Elements
  <2>1. CASE \E i \in DOMAIN news : news[i] = Broken(u)
    BY <1>1, <2>1
  <2>2. ASSUME NEW v \in open, asking[v], u \in Elements(pending[v])
        PROVE  /\ v \in open'
                 /\ asking'[v] /\ u \in Elements(pending'[v])
    <3>1. CASE v # w
      BY <1>1, <2>2, <3>1 DEF TypeOK
    <3>2. CASE v = w
      <4>1. PICK i \in DOMAIN pending[w] : pending[w][i] = u
        BY <2>2, <3>2 DEF Elements
      <4>2. i - 1 \in DOMAIN Tail(pending[w]) /\ Tail(pending[w])[i - 1] = u
        BY <1>2, <4>1
      <4>3. Tail(pending[w]) # <<>>
        BY <4>2
      <4> QED BY <1>1, <3>2, <4>2, <4>3 DEF Elements
    <3> QED BY <3>1, <3>2
  <2> QED BY <1>1, <2>1, <2>2 DEF NobodyWaitsForNothing, Asking, Broken
<1> QED BY <1>10, <1>11, <1>12, <1>13, <1>14, <1>15

LEMMA OrderlyStep == Typed /\ Apart /\ Orderly /\ [Next]_vars => Orderly'
<1> SUFFICES ASSUME Typed, Apart, Orderly, [Next]_vars
             PROVE  Orderly'
  OBVIOUS
<1>1. ASSUME NEW w \in Windows, NEW t \in Tasks,
             ConnectTo(w, t) \/ ChangeCredentials(w, t) \/ Upload(w, t)
      PROVE  Orderly'
  <2>1. /\ phase[t] = "idle"
        /\ phase' = [phase EXCEPT ![t] = "sent"]
        /\ UNCHANGED <<open, pending, asking, news, answer>>
    BY <1>1 DEF ConnectTo, ChangeCredentials, Upload, Attempt, Step, window
  <2>2. \A u \in Tasks : /\ phase'[u] \in Questions <=> phase[u] \in Questions
                         /\ Asking(u)' <=> Asking(u)
    BY <2>1 DEF Typed, TypeOK, Questions, Asking
  <2>3. NoAnswerComing'
    BY <2>1, <2>2 DEF Orderly, NoAnswerComing
  <2> QED BY <2>1, <2>2, <2>3, NothingAsked
<1>2. ASSUME UNCHANGED <<open, pending, asking, answer, phase>>,
             \/ news' = news
             \/ \E event \in News : event.type # "ask" /\ news' = Append(news, event)
      PROVE  Orderly'
  <2>1. (\A u \in Tasks : Asking(u)' <=> Asking(u)) /\ NoAnswerComing'
    BY <1>2 DEF Asking, Orderly, NoAnswerComing
  <2> QED BY <1>2, <2>1, NothingAsked
<1>3. ASSUME NEW w \in Windows, Disconnect(w)
      PROVE  Orderly'
  BY <1>2, <1>3 DEF Disconnect, window, task
<1>4. ASSUME NEW s \in Tasks, RunDisconnect(s)
      PROVE  Orderly'
  BY <1>2, <1>4 DEF RunDisconnect, window, task
<1>5. ASSUME NEW s \in Tasks, Gone(s)
      PROVE  Orderly'
  <2>1. [type |-> "disconnected", of |-> s] \in News
    BY DEF News
  <2> QED BY <1>2, <1>5, <2>1 DEF Gone, Emit, window, task
<1>6. ASSUME NEW t \in Tasks, Work(t)
      PROVE  Orderly'
  <2> DEFINE to == phase'[t]
  <2>1. Works(t, to) /\ to \in Phases
    BY <1>6, WorkWorks DEF Typed
  <2> HIDE DEF to
  <2>2. CASE Asks(t, to)
    BY <2>1, <2>2, QuestionBreaks DEF Works, Asks, Broken
  <2>3. CASE GetsOn(t, to)
    <3>1. \A u \in Tasks : Asking(u)' <=> Asking(u)
      BY <2>1, <2>3 DEF Works, GetsOn, Asking, Typed, TypeOK
    <3>2. NoAnswerComing'
      BY <2>1, <2>3 DEF Works, GetsOn, Orderly, NoAnswerComing, Typed, TypeOK
    <3>3. \A type \in {"connecting", "connected", "failed"} :
             /\ [type |-> type, of |-> t] \in News
             /\ [type |-> type, of |-> t].type # "ask"
      BY DEF News
    <3>4. \/ news' = news
          \/ \E event \in News : event.type # "ask" /\ news' = Append(news, event)
      BY <2>3, <3>3 DEF GetsOn
    <3> QED BY <2>1, <3>1, <3>2, <3>4, NothingAsked DEF Works
  <2> QED BY <2>1, <2>2, <2>3 DEF Works
<1>7. ASSUME NEW t \in Tasks,
             HearConnecting(t) \/ HearConnected(t) \/ HearFailed(t) \/ HearDisconnected(t)
      PROVE  Orderly'
  <2>1. /\ news # <<>>
        /\ Head(news).type # "ask"
        /\ news' = Tail(news)
        /\ UNCHANGED <<open, pending, asking, phase, answer>>
    BY <1>7
       DEF HearConnecting, HearConnected, HearFailed, HearDisconnected, Hear,
           OnlyScreens, task
  <2> QED BY <2>1, OtherNewsHeard
<1>8. CASE UNCHANGED vars
  BY <1>2, <1>8 DEF vars, window, task
<1> QED
  BY <1>1, <1>3, <1>4, <1>5, <1>6, <1>7, <1>8, WindowCloses, QuestionIsAnswered,
     QuestionIsHeard
     DEF Next, Window, Choose, Leaving, Listen

LEMMA AlwaysOrderly == Spec => []Orderly
BY TypeInit, TypeStep, ApartInit, ApartStep, OrderlyInit, OrderlyStep, PTL DEF Spec

(* A question is asked by exactly one window, whatever attempts and        *)
(* windows there are.                                                      *)
THEOREM OneWindowAlwaysAsks == Spec => []OneWindowAsks
BY AlwaysOrderly, PTL DEF Orderly

(* A task that waits has its question on its way, or in line behind a      *)
(* dialog of an open window: no closing of windows and no replacing of     *)
(* attempts leaves one waiting for an answer that nobody is asked for.     *)
THEOREM NobodyEverWaitsForNothing == Spec => []NobodyWaitsForNothing
BY AlwaysOrderly, PTL DEF Orderly
-----------------------------------------------------------------------------
(* No connection is held without a window, but for the slipped.            *)

Broke(type, t) == [type |-> type, of |-> t] \in Elements(news)

(* Only an attempt to connect dials and signs in, is registered once it is *)
(* over, and is no longer registered when it is to be told that it went.   *)
OnlyConnectsDial ==
    \A t \in Tasks :
        /\ phase[t] \in {"dialing", "signing", "told", "HostKey", "KeyPassphrase"} =>
               kind[t] = "connect"
        /\ t \in registry => phase[t] = "over" /\ kind[t] = "connect"
        /\ t \in departing => phase[t] = "over" /\ t \notin registry

(* What the news may still say of an attempt. *)
NewsIsTrue ==
    \A t \in Tasks :
        /\ Broke("connected", t) => kind[t] = "connect" /\ phase[t] \in {"told", "over"}
        /\ Broke("failed", t) => phase[t] = "over" /\ t \notin registry
        /\ Broke("disconnected", t) => phase[t] = "over" /\ t \notin registry

(* A window that shows a connection waits for no other. *)
ShowsOne ==
    \A w \in Windows : \A s \in Tasks : session[w] = s =>
        /\ kind[s] = "connect" /\ phase[s] \in {"told", "over"}
        /\ \A t \in Tasks : attempt[w] = t /\ kind[t] = "connect" => t = s

WaitedFor(s) == \E w \in open : attempt[w] = s

Present(s) == phase[s] = "told" \/ s \in registry

(* A connection in the making has a window that waits for it, and one that *)
(* is made has a window that is about to hear of it or shows it, or has    *)
(* been asked to go.                                                       *)
Attended ==
    \A s \in Tasks \ slipped : kind[s] = "connect" =>
        /\ phase[s] \notin {"idle", "told", "over"} => WaitedFor(s)
        /\ Present(s) => \/ Broke("connected", s) /\ WaitedFor(s)
                         \/ \E w \in open : session[w] = s
                         \/ leaving[s] > 0

Kept == OnlyConnectsDial /\ NewsIsTrue /\ ShowsOne /\ Attended

LEMMA KeptInit == Init => Kept
BY TasksAssumption
   DEF Init, Kept, OnlyConnectsDial, NewsIsTrue, ShowsOne, Attended, Broke, Present,
       Elements

LEMMA ItBreaks ==
    ASSUME TypeOK, NEW event \in News, news' = Append(news, event)
    PROVE  Elements(news)' = Elements(news) \cup {event}
<1>1. Elements(news)' = Elements(news')
  BY DEF Elements
<1> QED BY <1>1, NewsThatBreaks DEF Elements

LEMMA ItIsHeard ==
    ASSUME TypeOK, news # <<>>, news' = Tail(news)
    PROVE  Elements(news) = Elements(news)' \cup {Head(news)}
<1>1. Elements(news)' = {news'[i] : i \in DOMAIN news'}
  BY DEF Elements
<1>2. \A i \in DOMAIN news : i = 1 \/ (i - 1 \in DOMAIN news' /\ news'[i - 1] = news[i])
  BY NewsThatIsHeard
<1>3. \A i \in DOMAIN news' : i + 1 \in DOMAIN news /\ news[i + 1] = news'[i]
  BY NewsThatIsHeard
<1>4. Elements(news) \subseteq Elements(news)' \cup {Head(news)}
  BY <1>1, <1>2, NewsThatIsHeard DEF Elements
<1>5. Elements(news)' \subseteq Elements(news)
  BY <1>1, <1>3 DEF Elements
<1>6. Head(news) \in Elements(news)
  BY NewsThatIsHeard DEF Elements
<1> QED BY <1>4, <1>5, <1>6

-----------------------------------------------------------------------------
(* What a step of a task comes to, as far as connections go. *)

Settles(t, to) ==
    \/ /\ to \notin {"idle", "told"}
       /\ to = "over" => kind[t] # "connect"
       /\ registry' = registry
       /\ \/ news' = news
          \/ \E type \in {"ask", "connecting"} :
                news' = Append(news, [type |-> type, of |-> t])
    \/ /\ to = "told"
       /\ registry' = registry
       /\ news' = Append(news, [type |-> "connected", of |-> t])
    \/ /\ to = "over"
       /\ registry' = registry
       /\ news' = news \/ news' = Append(news, [type |-> "failed", of |-> t])

Advances(t, to) ==
    /\ phase[t] \notin {"idle", "over"}
    /\ phase' = [phase EXCEPT ![t] = to]
    /\ to \in {"dialing", "signing", "told", "HostKey", "KeyPassphrase"} =>
           kind[t] = "connect"
    /\ \/ phase[t] # "told" /\ Settles(t, to)
       \/ /\ phase[t] = "told"
          /\ to = "over"
          /\ registry' = registry \cup {t}
          /\ news' = news
    /\ UNCHANGED <<open, attempt, session, kind, leaving, departing, slipped>>

LEMMA WorkAdvances ==
    ASSUME TypeOK, KeepsToItsKind, OnlyConnectsDial, NEW t \in Tasks, Work(t)
    PROVE  \E to \in Phases : Advances(t, to)
<1> USE DEF TypeOK, KeepsToItsKind, OnlyConnectsDial, Advances, Settles, Step, Emit,
            OnlyTasks, Quietly, Fail, Ask, Woken, Phases, Questions, Commands, window, vault
<1>1. CASE EmitConnecting(t)
  BY <1>1 DEF EmitConnecting
<1>2. CASE BeginChange(t)
  BY <1>2 DEF BeginChange
<1>3. CASE FindStore(t)
  BY <1>3 DEF FindStore
<1>4. CASE FindSecret(t)
  BY <1>4 DEF FindSecret
<1>5. CASE Dial(t)
  BY <1>5 DEF Dial
<1>6. CASE NotSignedIn(t)
  BY <1>6 DEF NotSignedIn
<1>7. CASE SignedIn(t)
  BY <1>7 DEF SignedIn
<1>8. CASE Register(t)
  BY <1>8 DEF Register
<1>9. CASE BeginUpload(t)
  BY <1>9 DEF BeginUpload
<1>10. CASE Declined(t)
  BY <1>10 DEF Declined
<1>11. CASE Passphrase(t)
  BY <1>11 DEF Passphrase
<1>12. CASE WrongPassphrase(t)
  BY <1>12 DEF WrongPassphrase
<1>13. CASE SecretGiven(t)
  BY <1>13 DEF SecretGiven
<1>14. CASE HostKeyAccepted(t)
  BY <1>14 DEF HostKeyAccepted
<1>15. CASE KeyPassphrase(t)
  BY <1>15 DEF KeyPassphrase
<1>16. CASE OverwriteAnswered(t)
  BY <1>16 DEF OverwriteAnswered
<1> QED
  BY <1>1, <1>2, <1>3, <1>4, <1>5, <1>6, <1>7, <1>8, <1>9, <1>10, <1>11, <1>12,
     <1>13, <1>14, <1>15, <1>16 DEF Work

LEMMA TaskAdvances ==
    ASSUME Typed, Kept, NEW t \in Tasks, NEW to \in Phases, Advances(t, to)
    PROVE  Kept'
<1> USE DEF Typed, TypeOK, Kept
<1>1. /\ phase[t] \notin {"idle", "over"}
      /\ phase' = [phase EXCEPT ![t] = to]
      /\ UNCHANGED <<open, attempt, session, kind, leaving, departing, slipped>>
      /\ t \notin registry /\ t \notin departing
      /\ to # "idle"
  BY DEF Advances, Settles, OnlyConnectsDial
<1>2. \/ /\ Elements(news)' = Elements(news)
      \/ \E type \in {"ask", "connecting", "connected", "failed"} :
            /\ Elements(news)' = Elements(news) \cup {[type |-> type, of |-> t]}
            /\ type = "connected" => to = "told" /\ registry' = registry
            /\ type = "failed" => to = "over" /\ registry' = registry
  <2>1. \A type \in {"ask", "connecting", "connected", "failed"} :
           [type |-> type, of |-> t] \in News
    BY DEF News
  <2>2. news' = news => Elements(news)' = Elements(news)
    BY DEF Elements
  <2>3. \A type \in {"ask", "connecting", "connected", "failed"} :
           news' = Append(news, [type |-> type, of |-> t]) =>
               Elements(news)' = Elements(news) \cup {[type |-> type, of |-> t]}
    BY <2>1, ItBreaks
  <2> QED BY <2>2, <2>3 DEF Advances, Settles
<1>3. \/ registry' = registry
      \/ registry' = registry \cup {t} /\ phase[t] = "told" /\ to = "over"
            /\ Elements(news)' = Elements(news)
  BY DEF Advances, Settles, Elements
<1>4. to = "told" => Broke("connected", t)'
  <2>1. [type |-> "connected", of |-> t] \in News
    BY DEF News
  <2> QED BY <2>1, ItBreaks DEF Advances, Settles, Broke
<1>5. to = "over" /\ kind[t] = "connect" =>
         \/ phase[t] = "told" /\ registry' = registry \cup {t}
         \/ phase[t] # "told" /\ registry' = registry
  BY DEF Advances, Settles
<1>6. to \in {"dialing", "signing", "told", "HostKey", "KeyPassphrase"} =>
           kind[t] = "connect"
  BY DEF Advances
<1>7. phase[t] = "told" => to = "over" /\ registry' = registry \cup {t}
  BY DEF Advances
<1>8. OnlyConnectsDial'
  BY <1>1, <1>3, <1>6 DEF OnlyConnectsDial
<1>9. \A u \in Tasks, type \in {"connected", "failed", "disconnected"} :
         Broke(type, u)' =>
            \/ Broke(type, u)
            \/ u = t /\ type = "connected" /\ to = "told" /\ registry' = registry
            \/ u = t /\ type = "failed" /\ to = "over" /\ registry' = registry
  BY <1>2 DEF Broke
<1>10. \A u \in Tasks, type \in {"connected", "failed", "disconnected"} :
         Broke(type, u) => Broke(type, u)'
  BY <1>2 DEF Broke
<1>11. NewsIsTrue'
  <2> SUFFICES ASSUME NEW u \in Tasks
               PROVE  /\ Broke("connected", u)' =>
                            kind'[u] = "connect" /\ phase'[u] \in {"told", "over"}
                      /\ Broke("failed", u)' => phase'[u] = "over" /\ u \notin registry'
                      /\ Broke("disconnected", u)' =>
                            phase'[u] = "over" /\ u \notin registry'
    BY DEF NewsIsTrue, Broke
  <2>1. CASE u = t
    BY <1>1, <1>3, <1>6, <1>7, <1>9, <2>1 DEF NewsIsTrue
  <2>2. CASE u # t
    BY <1>1, <1>3, <1>9, <2>2 DEF NewsIsTrue
  <2> QED BY <2>1, <2>2
<1>12. ShowsOne'
  BY <1>1, <1>7 DEF ShowsOne
<1>13. Attended'
  <2> SUFFICES ASSUME NEW s \in Tasks \ slipped, kind[s] = "connect"
               PROVE  /\ phase'[s] \notin {"idle", "told", "over"} => WaitedFor(s)'
                      /\ phase'[s] = "told" \/ s \in registry' =>
                            \/ Broke("connected", s)' /\ WaitedFor(s)'
                            \/ \E w \in open' : session'[w] = s
                            \/ leaving'[s] > 0
    BY <1>1 DEF Attended, Broke, WaitedFor, Present
  <2>1. WaitedFor(s) <=> WaitedFor(s)'
    BY <1>1 DEF WaitedFor
  <2>2. CASE s # t
    BY <1>1, <1>3, <1>10, <2>1, <2>2 DEF Attended, Present
  <2>3. CASE s = t /\ phase[t] # "told"
    BY <1>1, <1>3, <1>4, <2>1, <2>3 DEF Attended
  <2>4. CASE s = t /\ phase[t] = "told"
    BY <1>1, <1>7, <1>10, <2>1, <2>4 DEF Attended, Present
  <2> QED BY <2>2, <2>3, <2>4
<1> QED BY <1>8, <1>11, <1>12, <1>13

-----------------------------------------------------------------------------
(* What is done in a window, and what a window hears. *)

LEMMA WindowAttempts ==
    ASSUME Typed, Kept, NEW w \in Windows, NEW t \in Tasks,
           ConnectTo(w, t) \/ ChangeCredentials(w, t)
    PROVE  Kept'
<1> USE DEF Typed, TypeOK, Kept
<1>1. /\ w \in open
      /\ attempt' = [attempt EXCEPT ![w] = t]
      /\ phase[t] = "idle"
      /\ phase' = [phase EXCEPT ![t] = "sent"]
      /\ slipped' = slipped \cup Awaited(w)
      /\ UNCHANGED <<open, session, news, kind, registry, leaving, departing>>
      /\ kind[t] = "connect" => session[w] = None
  BY DEF ConnectTo, ChangeCredentials, Attempt, Step, sessions
<1>2. \A type \in {"connected", "failed", "disconnected"}, u \in Tasks :
         Broke(type, u)' <=> Broke(type, u)
  BY <1>1 DEF Broke, Elements
<1>3. OnlyConnectsDial'
  BY <1>1 DEF OnlyConnectsDial
<1>4. NewsIsTrue'
  <2>1. ~Broke("connected", t) /\ ~Broke("failed", t) /\ ~Broke("disconnected", t)
    BY <1>1 DEF NewsIsTrue
  <2>2. \A u \in Tasks \ {t} : phase'[u] = phase[u]
    BY <1>1
  <2>3. \A u \in Tasks :
           /\ Broke("connected", u)' => kind'[u] = "connect" /\ phase'[u] \in {"told", "over"}
           /\ Broke("failed", u)' => phase'[u] = "over" /\ u \notin registry'
           /\ Broke("disconnected", u)' => phase'[u] = "over" /\ u \notin registry'
    BY <1>1, <1>2, <2>1, <2>2 DEF NewsIsTrue
  <2> QED BY <2>3 DEF NewsIsTrue, Broke
<1>5. ShowsOne'
  BY <1>1, TasksAssumption DEF ShowsOne
<1>6. Attended'
  <2> SUFFICES ASSUME NEW s \in Tasks \ slipped', kind[s] = "connect"
               PROVE  /\ phase'[s] \notin {"idle", "told", "over"} => WaitedFor(s)'
                      /\ phase'[s] = "told" \/ s \in registry' =>
                            \/ Broke("connected", s)' /\ WaitedFor(s)'
                            \/ \E v \in open' : session'[v] = s
                            \/ leaving'[s] > 0
    BY <1>1 DEF Attended, Broke, WaitedFor, Present
  <2>1. CASE s = t
    BY <1>1, <2>1 DEF OnlyConnectsDial, WaitedFor
  <2>2. CASE s # t
    <3>1. phase'[s] = phase[s] /\ s \notin slipped /\ s \notin Awaited(w)
      BY <1>1, <2>2
    <3>2. attempt[w] = s => session[w] = s
      BY <3>1 DEF Awaited
    <3>3. WaitedFor(s) => WaitedFor(s)' \/ session[w] = s
      BY <1>1, <3>2 DEF WaitedFor
    <3>4. session[w] = s => phase[s] \in {"told", "over"}
      BY DEF ShowsOne
    <3> QED BY <1>1, <1>2, <3>1, <3>3, <3>4 DEF Attended, Present
  <2> QED BY <2>1, <2>2
<1> QED BY <1>3, <1>4, <1>5, <1>6

(* A window that closes asks what it shows to go, and what it was waiting  *)
(* for slips.                                                              *)
LEMMA ClosingKeeps ==
    ASSUME Typed, Kept, NEW w \in Windows, Close(w)
    PROVE  Kept'
<1> USE DEF Typed, TypeOK, Kept
<1>1. /\ open' = open \ {w}
      /\ attempt' = [attempt EXCEPT ![w] = None]
      /\ session' = [session EXCEPT ![w] = None]
      /\ slipped' = slipped \cup Awaited(w)
      /\ UNCHANGED <<news, kind, phase, registry, departing>>
  BY DEF Close
<1>2. /\ \A s \in Tasks : leaving[s] > 0 => leaving'[s] > 0
      /\ \A s \in Tasks : session[w] = s => leaving'[s] > 0
  <2>1. CASE session[w] = None
    BY <2>1, TasksAssumption DEF Close, Leave
  <2>2. CASE session[w] # None
    <3>1. leaving' = [leaving EXCEPT ![session[w]] = leaving[session[w]] + 1]
          /\ session[w] \in Tasks
      BY <2>2 DEF Close, Leave
    <3>2. \A s \in Tasks : leaving'[s] = IF s = session[w] THEN leaving[s] + 1 ELSE leaving[s]
      BY <3>1
    <3> QED BY <3>2
  <2> QED BY <2>1, <2>2
<1>3. \A type \in {"connected", "failed", "disconnected"}, u \in Tasks :
         Broke(type, u)' <=> Broke(type, u)
  BY <1>1 DEF Broke, Elements
<1>4. OnlyConnectsDial'
  BY <1>1 DEF OnlyConnectsDial
<1>5. NewsIsTrue'
  <2>1. \A u \in Tasks :
           /\ Broke("connected", u)' => kind'[u] = "connect" /\ phase'[u] \in {"told", "over"}
           /\ Broke("failed", u)' => phase'[u] = "over" /\ u \notin registry'
           /\ Broke("disconnected", u)' => phase'[u] = "over" /\ u \notin registry'
    BY <1>1, <1>3 DEF NewsIsTrue
  <2> QED BY <2>1 DEF NewsIsTrue, Broke
<1>6. ShowsOne'
  BY <1>1, TasksAssumption DEF ShowsOne
<1>7. Attended'
  <2> SUFFICES ASSUME NEW s \in Tasks \ slipped', kind[s] = "connect"
               PROVE  /\ phase[s] \notin {"idle", "told", "over"} => WaitedFor(s)'
                      /\ Present(s) =>
                            \/ Broke("connected", s)' /\ WaitedFor(s)'
                            \/ \E v \in open' : session'[v] = s
                            \/ leaving'[s] > 0
    BY <1>1 DEF Attended, Broke, WaitedFor, Present
  <2>1. attempt[w] = s => session[w] = s
    BY <1>1 DEF Awaited
  <2>2. WaitedFor(s) => WaitedFor(s)' \/ session[w] = s
    BY <1>1, <2>1 DEF WaitedFor
  <2>3. session[w] = s => phase[s] \in {"told", "over"}
    BY DEF ShowsOne
  <2>4. (\E v \in open : session[v] = s) => (\E v \in open' : session'[v] = s) \/ session[w] = s
    BY <1>1
  <2>5. s \notin slipped
    BY <1>1
  <2> QED BY <1>2, <1>3, <2>2, <2>3, <2>4, <2>5 DEF Attended
<1> QED BY <1>4, <1>5, <1>6, <1>7

(* A session is asked to go. *)
LEMMA DisconnectingKeeps ==
    ASSUME Typed, Kept, NEW s \in Tasks, RunDisconnect(s)
    PROVE  Kept'
<1> USE DEF Typed, TypeOK, Kept
<1>1. /\ leaving' = [leaving EXCEPT ![s] = @ - 1]
      /\ registry' = registry \ {s}
      /\ departing' = departing \cup ({s} \cap registry)
      /\ slipped' = IF phase[s] = "told" THEN slipped \cup {s} ELSE slipped
      /\ UNCHANGED <<open, attempt, session, news, kind, phase>>
  BY DEF RunDisconnect, window, task
<1>2. \A type \in {"connected", "failed", "disconnected"}, u \in Tasks :
         Broke(type, u)' <=> Broke(type, u)
  BY <1>1 DEF Broke, Elements
<1>3. OnlyConnectsDial'
  BY <1>1 DEF OnlyConnectsDial
<1>4. NewsIsTrue'
  <2>1. \A u \in Tasks :
           /\ Broke("connected", u)' => kind'[u] = "connect" /\ phase'[u] \in {"told", "over"}
           /\ Broke("failed", u)' => phase'[u] = "over" /\ u \notin registry'
           /\ Broke("disconnected", u)' => phase'[u] = "over" /\ u \notin registry'
    BY <1>1, <1>2 DEF NewsIsTrue
  <2> QED BY <2>1 DEF NewsIsTrue, Broke
<1>5. ShowsOne'
  BY <1>1 DEF ShowsOne
<1>6. Attended'
  <2> SUFFICES ASSUME NEW u \in Tasks \ slipped', kind[u] = "connect"
               PROVE  /\ phase[u] \notin {"idle", "told", "over"} => WaitedFor(u)'
                      /\ phase[u] = "told" \/ u \in registry' =>
                            \/ Broke("connected", u)' /\ WaitedFor(u)'
                            \/ \E v \in open' : session'[v] = u
                            \/ leaving'[u] > 0
    BY <1>1 DEF Attended, Broke, WaitedFor, Present
  <2>1. u \notin slipped /\ (u = s => phase[u] # "told" /\ u \notin registry')
    BY <1>1
  <2>2. WaitedFor(u) <=> WaitedFor(u)'
    BY <1>1 DEF WaitedFor
  <2>3. u # s => leaving'[u] = leaving[u]
    BY <1>1
  <2> QED BY <1>1, <1>2, <2>1, <2>2, <2>3 DEF Attended, Present
<1> QED BY <1>3, <1>4, <1>5, <1>6

LEMMA GoneKeeps ==
    ASSUME Typed, Kept, NEW s \in Tasks, Gone(s)
    PROVE  Kept'
<1> USE DEF Typed, TypeOK, Kept
<1>1. /\ s \in departing
      /\ departing' = departing \ {s}
      /\ UNCHANGED <<open, attempt, session, kind, phase, registry, leaving, slipped>>
  BY DEF Gone, window, task
<1>2. Elements(news)' = Elements(news) \cup {[type |-> "disconnected", of |-> s]}
  <2>1. [type |-> "disconnected", of |-> s] \in News
    BY DEF News
  <2> QED BY <2>1, ItBreaks DEF Gone, Emit
<1>3. \A u \in Tasks :
         /\ Broke("connected", u)' <=> Broke("connected", u)
         /\ Broke("failed", u)' <=> Broke("failed", u)
         /\ Broke("disconnected", u)' => Broke("disconnected", u) \/ u = s
  BY <1>2 DEF Broke
<1>4. OnlyConnectsDial'
  BY <1>1 DEF OnlyConnectsDial
<1>5. NewsIsTrue'
  <2>1. phase[s] = "over" /\ s \notin registry
    BY <1>1 DEF OnlyConnectsDial
  <2>2. \A u \in Tasks :
           /\ Broke("connected", u)' => kind'[u] = "connect" /\ phase'[u] \in {"told", "over"}
           /\ Broke("failed", u)' => phase'[u] = "over" /\ u \notin registry'
           /\ Broke("disconnected", u)' => phase'[u] = "over" /\ u \notin registry'
    BY <1>1, <1>3, <2>1 DEF NewsIsTrue
  <2> QED BY <2>2 DEF NewsIsTrue, Broke
<1>6. ShowsOne'
  BY <1>1 DEF ShowsOne
<1>7. Attended'
  <2>1. \A u \in Tasks : WaitedFor(u)' <=> WaitedFor(u)
    BY <1>1 DEF WaitedFor
  <2>2. \A u \in Tasks : Present(u)' <=> Present(u)
    BY <1>1 DEF Present
  <2>3. \A u \in Tasks \ slipped' : kind'[u] = "connect" =>
           /\ phase'[u] \notin {"idle", "told", "over"} => WaitedFor(u)'
           /\ Present(u)' => \/ Broke("connected", u)' /\ WaitedFor(u)'
                             \/ \E w \in open' : session'[w] = u
                             \/ leaving'[u] > 0
    BY <1>1, <1>3, <2>1, <2>2 DEF Attended
  <2> QED BY <2>3 DEF Attended, WaitedFor, Present, Broke
<1> QED BY <1>4, <1>5, <1>6, <1>7

(* What does not touch connections, or only asks one to go. *)
LEMMA NothingOfConnections ==
    ASSUME Typed, Kept,
           UNCHANGED <<open, attempt, session, kind, phase, registry, departing, slipped>>,
           \A s \in Tasks : leaving[s] > 0 => leaving'[s] > 0,
           \A type \in {"connected", "failed", "disconnected"}, t \in Tasks :
               Broke(type, t)' <=> Broke(type, t)
    PROVE  Kept'
<1> USE DEF Kept
<1>1. OnlyConnectsDial'
  BY DEF OnlyConnectsDial
<1>2. NewsIsTrue'
  <2>1. \A u \in Tasks :
           /\ Broke("connected", u)' => kind'[u] = "connect" /\ phase'[u] \in {"told", "over"}
           /\ Broke("failed", u)' => phase'[u] = "over" /\ u \notin registry'
           /\ Broke("disconnected", u)' => phase'[u] = "over" /\ u \notin registry'
    BY DEF NewsIsTrue
  <2> QED BY <2>1 DEF NewsIsTrue, Broke
<1>3. ShowsOne'
  BY DEF ShowsOne
<1>4. Attended'
  <2>1. \A u \in Tasks : WaitedFor(u)' <=> WaitedFor(u)
    BY DEF WaitedFor
  <2>2. \A u \in Tasks : Present(u)' <=> Present(u)
    BY DEF Present
  <2>3. \A u \in Tasks \ slipped' : kind'[u] = "connect" =>
           /\ phase'[u] \notin {"idle", "told", "over"} => WaitedFor(u)'
           /\ Present(u)' => \/ Broke("connected", u)' /\ WaitedFor(u)'
                             \/ \E w \in open' : session'[w] = u
                             \/ leaving'[u] > 0
    BY <2>1, <2>2 DEF Attended
  <2> QED BY <2>3 DEF Attended, WaitedFor, Present, Broke
<1> QED BY <1>1, <1>2, <1>3, <1>4

LEMMA UploadKeeps ==
    ASSUME Typed, Kept, NEW w \in Windows, NEW t \in Tasks, Upload(w, t)
    PROVE  Kept'
<1> USE DEF Typed, TypeOK, Kept
<1>1. /\ kind[t] = "upload"
      /\ phase[t] = "idle"
      /\ phase' = [phase EXCEPT ![t] = "sent"]
      /\ UNCHANGED <<open, attempt, session, news, kind, registry, leaving, departing, slipped>>
  BY DEF Upload, Step, window, sessions
<1>2. \A type \in {"connected", "failed", "disconnected"}, u \in Tasks :
         Broke(type, u)' <=> Broke(type, u)
  BY <1>1 DEF Broke, Elements
<1>3. OnlyConnectsDial'
  BY <1>1 DEF OnlyConnectsDial
<1>4. NewsIsTrue'
  <2>1. \A u \in Tasks :
           /\ Broke("connected", u)' => kind'[u] = "connect" /\ phase'[u] \in {"told", "over"}
           /\ Broke("failed", u)' => phase'[u] = "over" /\ u \notin registry'
           /\ Broke("disconnected", u)' => phase'[u] = "over" /\ u \notin registry'
    BY <1>1, <1>2 DEF NewsIsTrue
  <2> QED BY <2>1 DEF NewsIsTrue, Broke
<1>5. ShowsOne'
  BY <1>1 DEF ShowsOne
<1>6. Attended'
  <2>1. \A u \in Tasks : WaitedFor(u)' <=> WaitedFor(u)
    BY <1>1 DEF WaitedFor
  <2>2. \A u \in Tasks \ {t} : phase'[u] = phase[u]
    BY <1>1
  <2>3. \A u \in Tasks \ slipped' : kind'[u] = "connect" =>
           /\ phase'[u] \notin {"idle", "told", "over"} => WaitedFor(u)'
           /\ Present(u)' => \/ Broke("connected", u)' /\ WaitedFor(u)'
                             \/ \E v \in open' : session'[v] = u
                             \/ leaving'[u] > 0
    BY <1>1, <1>2, <2>1, <2>2, Zenon DEF Attended, Present
  <2> QED BY <2>3 DEF Attended, WaitedFor, Present, Broke
<1> QED BY <1>3, <1>4, <1>5, <1>6

(* A window hears that what it waits for is made, was refused, or that     *)
(* what it shows is gone.                                                  *)
LEMMA HearingKeeps ==
    ASSUME Typed, Kept, NEW t \in Tasks,
           HearConnected(t) \/ HearFailed(t) \/ HearDisconnected(t)
    PROVE  Kept'
<1> USE DEF Typed, TypeOK, Kept
<1>1. /\ news # <<>>
      /\ news' = Tail(news)
      /\ UNCHANGED <<open, kind, phase, registry, leaving, departing, slipped>>
  BY DEF HearConnected, HearFailed, HearDisconnected, Hear, OnlyScreens, task, sessions
<1>2. Elements(news) = Elements(news)' \cup {Head(news)}
  BY <1>1, ItIsHeard
<1>3. \A type \in {"connected", "failed", "disconnected"}, u \in Tasks :
         Broke(type, u)' => Broke(type, u)
  BY <1>2 DEF Broke
<1>4. OnlyConnectsDial'
  BY <1>1 DEF OnlyConnectsDial
<1>5. NewsIsTrue'
  <2>1. \A u \in Tasks :
           /\ Broke("connected", u)' => kind'[u] = "connect" /\ phase'[u] \in {"told", "over"}
           /\ Broke("failed", u)' => phase'[u] = "over" /\ u \notin registry'
           /\ Broke("disconnected", u)' => phase'[u] = "over" /\ u \notin registry'
    BY <1>1, <1>3 DEF NewsIsTrue
  <2> QED BY <2>1 DEF NewsIsTrue, Broke
<1>6. CASE HearConnected(t)
  <2>1. /\ Head(news) = [type |-> "connected", of |-> t]
        /\ attempt' = attempt
        /\ session' = [w \in Windows |-> IF w \in open /\ attempt[w] = t THEN t ELSE session[w]]
    BY <1>6 DEF HearConnected, Hear, Concerned
  <2>2. Broke("connected", t)
    BY <1>2, <2>1 DEF Broke
  <2>3. kind[t] = "connect" /\ phase[t] \in {"told", "over"}
    BY <2>2 DEF NewsIsTrue
  <2>4. \A w \in Windows : session'[w] = session[w] \/ (w \in open /\ attempt[w] = t /\ session'[w] = t)
    BY <2>1
  <2>5. ShowsOne'
    BY <1>1, <2>1, <2>3, <2>4 DEF ShowsOne
  <2>6. \A w \in Windows, s \in Tasks : session[w] = s => session'[w] = s
    BY <2>3, <2>4 DEF ShowsOne
  <2>7. WaitedFor(t) => \E w \in open : session'[w] = t
    BY <2>1 DEF WaitedFor
  <2>8. \A u \in Tasks \ {t} : Broke("connected", u) => Broke("connected", u)'
    BY <1>2, <2>1 DEF Broke
  <2>9. \A u \in Tasks : WaitedFor(u)' <=> WaitedFor(u)
    BY <1>1, <2>1 DEF WaitedFor
  <2>10. \A u \in Tasks : Present(u)' <=> Present(u)
    BY <1>1 DEF Present
  <2>11. \A u \in Tasks : (\E w \in open : session[w] = u) => (\E w \in open : session'[w] = u)
    BY <2>6
  <2>12. \A u \in Tasks \ slipped' : kind'[u] = "connect" =>
           /\ phase'[u] \notin {"idle", "told", "over"} => WaitedFor(u)'
           /\ Present(u)' => \/ Broke("connected", u)' /\ WaitedFor(u)'
                             \/ \E v \in open' : session'[v] = u
                             \/ leaving'[u] > 0
    BY <1>1, <2>7, <2>8, <2>9, <2>10, <2>11, Zenon DEF Attended
  <2>13. Attended'
    BY <2>12 DEF Attended, WaitedFor, Present, Broke
  <2> QED BY <1>4, <1>5, <2>5, <2>13
<1>7. CASE HearFailed(t) \/ HearDisconnected(t)
  <2>1. PICK type \in {"failed", "disconnected"} : Head(news) = [type |-> type, of |-> t]
    BY <1>7 DEF HearFailed, HearDisconnected, Hear
  <2>2. Broke(type, t)
    BY <1>2, <2>1 DEF Broke
  <2>3. phase[t] = "over" /\ t \notin registry
    BY <2>2 DEF NewsIsTrue
  <2>4. \A w \in Windows :
           /\ session'[w] = session[w] \/ (session[w] = t /\ session'[w] = None)
           /\ \/ attempt'[w] = attempt[w]
              \/ attempt[w] = t /\ attempt'[w] = None
              \/ session[w] = t /\ attempt'[w] = None
    BY <1>7 DEF HearFailed, HearDisconnected, Concerned
  <2>5. \A u \in Tasks : Broke("connected", u) => Broke("connected", u)'
    BY <1>2, <2>1 DEF Broke
  <2>6. ShowsOne'
    <3>1. \A w \in Windows, u \in Tasks :
             /\ session'[w] = u => session[w] = u
             /\ attempt'[w] = u => attempt[w] = u
      BY <2>4, TasksAssumption
    <3> QED BY <1>1, <3>1 DEF ShowsOne
  <2>7. Attended'
    <3> SUFFICES ASSUME NEW s \in Tasks \ slipped, kind[s] = "connect"
                 PROVE  /\ phase[s] \notin {"idle", "told", "over"} => WaitedFor(s)'
                        /\ Present(s) =>
                              \/ Broke("connected", s)' /\ WaitedFor(s)'
                              \/ \E v \in open' : session'[v] = s
                              \/ leaving'[s] > 0
      BY <1>1 DEF Attended, Broke, WaitedFor, Present
    <3>1. CASE s = t
      BY <2>3, <3>1 DEF Present
    <3>2. CASE s # t
      <4>1. \A w \in Windows : attempt[w] = s => attempt'[w] = s
        BY <2>4, <3>2 DEF ShowsOne
      <4>2. \A w \in Windows : session[w] = s => session'[w] = s
        BY <2>4, <3>2
      <4>3. WaitedFor(s) => WaitedFor(s)'
        BY <1>1, <4>1 DEF WaitedFor
      <4> QED BY <1>1, <2>5, <4>2, <4>3 DEF Attended
    <3> QED BY <3>1, <3>2
  <2> QED BY <1>4, <1>5, <2>6, <2>7
<1> QED BY <1>6, <1>7

LEMMA KeptStep == Typed /\ Kept /\ [Next]_vars => Kept'
<1> SUFFICES ASSUME Typed, Kept, [Next]_vars
             PROVE  Kept'
  OBVIOUS
<1>1. ASSUME UNCHANGED <<open, attempt, session, kind, phase, registry, departing, slipped>>,
             news' = news,
             \A s \in Tasks : leaving[s] > 0 => leaving'[s] > 0
      PROVE  Kept'
  <2>1. \A type \in {"connected", "failed", "disconnected"}, t \in Tasks :
           Broke(type, t)' <=> Broke(type, t)
    BY <1>1 DEF Broke, Elements
  <2> QED BY <1>1, <2>1, NothingOfConnections
<1>2. ASSUME NEW w \in Windows, Disconnect(w)
      PROVE  Kept'
  <2>1. /\ session[w] \in Tasks
        /\ leaving' = [leaving EXCEPT ![session[w]] = leaving[session[w]] + 1]
    BY <1>2 DEF Disconnect, Leave, Typed, TypeOK
  <2>2. \A s \in Tasks : leaving[s] > 0 => leaving'[s] > 0
    BY <2>1 DEF Typed, TypeOK
  <2> QED BY <1>1, <1>2, <2>2 DEF Disconnect, window, task
<1>3. ASSUME NEW w \in Windows, Choose(w)
      PROVE  Kept'
  <2>1. /\ UNCHANGED <<open, attempt, session, kind, phase, registry, departing, slipped>>
        /\ news' = news
        /\ leaving' = leaving
    BY <1>3 DEF Choose, Reply, sessions
  <2> QED BY <1>1, <2>1
<1>4. ASSUME NEW t \in Tasks, Work(t)
      PROVE  Kept'
  BY <1>4, WorkAdvances, TaskAdvances DEF Typed, Kept
<1>5. ASSUME NEW t \in Tasks, HearConnecting(t) \/ HearAsk(t)
      PROVE  Kept'
  <2>1. /\ UNCHANGED <<open, attempt, session, kind, phase, registry, departing, slipped, leaving>>
        /\ news # <<>>
        /\ news' = Tail(news)
        /\ \E type \in {"connecting", "ask"} : Head(news) = [type |-> type, of |-> t]
    BY <1>5 DEF HearConnecting, HearAsk, Hear, OnlyScreens, task, sessions
  <2>2. Elements(news) = Elements(news)' \cup {Head(news)}
    BY <2>1, ItIsHeard DEF Typed
  <2>3. \A type \in {"connected", "failed", "disconnected"}, u \in Tasks :
           Broke(type, u)' <=> Broke(type, u)
    BY <2>1, <2>2 DEF Broke
  <2> QED BY <2>1, <2>3, NothingOfConnections
<1>6. CASE UNCHANGED vars
  BY <1>1, <1>6 DEF vars, window, task, sessions
<1> QED
  BY <1>2, <1>3, <1>4, <1>5, <1>6, WindowAttempts, UploadKeeps, ClosingKeeps,
     DisconnectingKeeps, GoneKeeps, HearingKeeps
     DEF Next, Window, Leaving, Listen

(* When all is quiet, a connection the engine still holds is shown by an   *)
(* open window, unless it slipped: its window had closed or turned to      *)
(* something else before it heard, or had disconnected too early.          *)
THEOREM OnlyTheSlippedEverLinger == Spec => []OnlyTheSlippedLinger
<1>1. Typed /\ Kept => OnlyTheSlippedLinger
  <2> SUFFICES ASSUME Typed, Kept, Quiet, NEW s \in registry \ slipped
               PROVE  \E w \in open : session[w] = s
    BY DEF OnlyTheSlippedLinger
  <2>1. s \in Tasks /\ kind[s] = "connect"
    BY DEF Typed, TypeOK, Kept, OnlyConnectsDial
  <2>2. ~Broke("connected", s) /\ ~(leaving[s] > 0)
    BY <2>1 DEF Quiet, Broke, Elements
  <2> QED BY <2>1, <2>2 DEF Kept, Attended, Present
<1> QED
  BY <1>1, TypeInit, TypeStep, KeptInit, KeptStep, PTL DEF Spec
=============================================================================
