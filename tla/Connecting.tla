----------------------------- MODULE Connecting -----------------------------
(***************************************************************************)
(* How a window comes to show a connection, and how it lets go of it: the  *)
(* windows (window.rs, screen.rs), the engine's tasks that open, refuse    *)
(* and close connections (engine.rs, trust.rs, secrets.rs), and the        *)
(* questions those tasks ask on the way (event.rs).                        *)
(*                                                                         *)
(* A window names each thing it asks for by an attempt, and news of that   *)
(* attempt is for the window that holds it.  News crosses to the interface *)
(* thread in the order it broke and every open window hears each piece at  *)
(* once (relay.rs).  A task that asks a question sleeps until its prompt   *)
(* is answered or dropped.                                                 *)
(*                                                                         *)
(* An attempt and the session it becomes carry one name here.  A listing   *)
(* of the new connection is Navigation's Open; transfers are Transfers'.   *)
(***************************************************************************)
EXTENDS Naturals, Sequences, FiniteSets

CONSTANTS
    Windows,   \* the windows opened
    Tasks,     \* the attempts, and the uploads that ask about a name
    Kinds,     \* what each of them may be
    Places,    \* the windows each of them may be asked for in
    MaxWrong,  \* how often a wrong passphrase is typed
    None

Commands ==
    {"connect",  \* Command::Connect
     "change",   \* Command::ChangeCredentials
     "upload"}   \* Command::Upload of a name that is taken

ASSUME TasksAssumption ==
    /\ Kinds \in [Tasks -> SUBSET Commands]
    /\ Places \in [Tasks -> SUBSET Windows]
    /\ None \notin Tasks \cup Windows
    /\ MaxWrong \in Nat

VARIABLES
    \* The interface thread:
    open,        \* WINDOWS: the windows that are open
    attempt,     \* Screen::attempt
    session,     \* Screen::session
    connecting,  \* Screen::connecting
    pending,     \* Window::pending, the questions to ask
    asking,      \* Window::asking
    news,        \* what has been published and not heard yet
    \* The engine:
    kind,        \* what each task is
    phase,       \* how far it has got, or what it is waiting to be told
    answer,      \* the prompt's reply channel
    on,          \* the connection an upload is for
    keyed,       \* has it been given the passphrase of its key file?
    registry,    \* Running::sessions
    unlocked,    \* is the Vault open?
    wrong,       \* wrong passphrases typed so far
    leaving,     \* Disconnect commands not run yet
    departing,   \* sessions removed whose end is not told yet
    slipped      \* connections being made whose window stopped waiting

screens == <<attempt, session, connecting>>
questions == <<pending, asking>>
window == <<open, screens, questions>>
task == <<kind, phase, answer, on, keyed>>
vault == <<unlocked, wrong>>
sessions == <<registry, leaving, departing>>

vars == <<window, news, task, vault, sessions, slipped>>

Questions == {"Passphrase", "Secret", "HostKey", "KeyPassphrase", "Overwrite"}

Phases == Questions \cup
    {"idle", "sent", "vault", "secret", "dialing", "signing", "told", "over"}

News == [type : {"connecting", "connected", "failed", "disconnected", "ask"},
         of : Tasks]

Emit(type, t) == news' = Append(news, [type |-> type, of |-> t])

Step(t, to) == phase' = [phase EXCEPT ![t] = to]

Elements(s) == {s[i] : i \in DOMAIN s}

Init ==
    /\ open = Windows
    /\ attempt = [w \in Windows |-> None]
    /\ session = [w \in Windows |-> None]
    /\ connecting = [w \in Windows |-> FALSE]
    /\ pending = [w \in Windows |-> <<>>]
    /\ asking = [w \in Windows |-> FALSE]
    /\ news = <<>>
    /\ kind \in [Tasks -> Commands]
    /\ \A t \in Tasks : kind[t] \in Kinds[t]
    /\ phase = [t \in Tasks |-> "idle"]
    /\ answer = [t \in Tasks |-> "none"]
    /\ on = [t \in Tasks |-> None]
    /\ keyed = [t \in Tasks |-> FALSE]
    /\ registry = {}
    /\ unlocked \in BOOLEAN
    /\ wrong = 0
    /\ leaving = [t \in Tasks |-> 0]
    /\ departing = {}
    /\ slipped = {}

-----------------------------------------------------------------------------
(* What is done in a window. *)

(* The connection the window is still waiting for. *)
Awaited(w) ==
    {t \in Tasks : attempt[w] = t /\ session[w] # t /\ kind[t] = "connect"}

(* A new attempt takes the place of whatever the window had. *)
Attempt(w, t) ==
    /\ w \in open \cap Places[t]
    /\ phase[t] = "idle"
    /\ Step(t, "sent")
    /\ attempt' = [attempt EXCEPT ![w] = t]
    /\ slipped' = slipped \cup Awaited(w)
    /\ UNCHANGED <<open, session, questions, news, kind, answer, on, keyed, vault,
                   sessions>>

(* A saved connection is opened from the picker, which is on screen until  *)
(* the window is connected.                                                *)
ConnectTo(w, t) ==
    /\ kind[t] = "connect"
    /\ session[w] = None
    /\ Attempt(w, t)
    /\ connecting' = [connecting EXCEPT ![w] = TRUE]

ChangeCredentials(w, t) ==
    /\ kind[t] = "change"
    /\ Attempt(w, t)
    /\ UNCHANGED connecting

Upload(w, t) ==
    /\ w \in open \cap Places[t]
    /\ kind[t] = "upload"
    /\ phase[t] = "idle"
    /\ session[w] # None
    /\ Step(t, "sent")
    /\ on' = [on EXCEPT ![t] = session[w]]
    /\ UNCHANGED <<window, news, kind, answer, keyed, vault, sessions, slipped>>

(* Slip: nothing is disconnected. *)
LeaveNothing(w) == leaving' = leaving

(* Only what the window shows can be disconnected. *)
Leave(w) ==
    leaving' = IF session[w] = None THEN leaving
               ELSE [leaving EXCEPT ![session[w]] = @ + 1]

(* One press of the button at a time is modelled. *)
Disconnect(w) ==
    /\ w \in open
    /\ session[w] # None
    /\ leaving[session[w]] = 0
    /\ Leave(w)
    /\ UNCHANGED <<window, news, task, vault, registry, departing, slipped>>

(* Prompt::answer, and Prompt's Drop: only the first answer counts. *)
Answered(ts, reply) ==
    answer' = [t \in Tasks |-> IF t \in ts /\ answer[t] = "none" THEN reply
                               ELSE answer[t]]

(* Slip: questions waiting in a window that closes are forgotten. *)
CloseForgetting(w) ==
    /\ w \in open
    /\ open' = open \ {w}
    /\ Leave(w)
    /\ attempt' = [attempt EXCEPT ![w] = None]
    /\ session' = [session EXCEPT ![w] = None]
    /\ connecting' = [connecting EXCEPT ![w] = FALSE]
    /\ pending' = [pending EXCEPT ![w] = <<>>]
    /\ asking' = [asking EXCEPT ![w] = FALSE]
    /\ slipped' = slipped \cup Awaited(w)
    /\ UNCHANGED <<news, kind, phase, answer, on, keyed, vault, registry,
                   departing>>

(* A window closes: it disconnects what it shows, and is dropped with the  *)
(* questions it had not asked.                                             *)
Close(w) ==
    /\ w \in open
    /\ open' = open \ {w}
    /\ Leave(w)
    /\ attempt' = [attempt EXCEPT ![w] = None]
    /\ session' = [session EXCEPT ![w] = None]
    /\ connecting' = [connecting EXCEPT ![w] = FALSE]
    /\ pending' = [pending EXCEPT ![w] = <<>>]
    /\ asking' = [asking EXCEPT ![w] = FALSE]
    /\ Answered(Elements(pending[w])
                    \ UNION {Elements(pending[v]) : v \in open \ {w}}, "declined")
    /\ slipped' = slipped \cup Awaited(w)
    /\ UNCHANGED <<news, kind, phase, on, keyed, vault, registry, departing>>

(* Slip: the next question is not put up. *)
ReplyAndStop(w, reply) ==
    /\ w \in open
    /\ asking[w]
    /\ pending[w] # <<>>
    /\ Answered({Head(pending[w])}, reply)
    /\ pending' = [pending EXCEPT ![w] = Tail(@)]
    /\ asking' = [asking EXCEPT ![w] = FALSE]
    /\ UNCHANGED <<open, screens, news, kind, phase, on, keyed, vault, sessions,
                   slipped>>

(* The question on screen is answered, and the next one is put up. *)
Reply(w, reply) ==
    /\ w \in open
    /\ asking[w]
    /\ pending[w] # <<>>
    /\ Answered({Head(pending[w])}, reply)
    /\ pending' = [pending EXCEPT ![w] = Tail(@)]
    /\ asking' = [asking EXCEPT ![w] = Tail(pending[w]) # <<>>]
    /\ UNCHANGED <<open, screens, news, kind, phase, on, keyed, vault, sessions,
                   slipped>>

-----------------------------------------------------------------------------
(* The engine's tasks.  One that asks sleeps until it is answered. *)

Ask(t, q) ==
    /\ Step(t, q)
    /\ Emit("ask", t)
    /\ UNCHANGED keyed

Quietly(t, to) ==
    /\ Step(t, to)
    /\ UNCHANGED <<news, keyed>>

OnlyTasks == UNCHANGED <<window, kind, on, registry, leaving, departing, slipped>>

(* A connection that cannot be had is reported to the window; anything     *)
(* else that goes wrong is a message, and messages are not modelled.       *)
Fail(t) ==
    /\ Step(t, "over")
    /\ IF kind[t] = "connect" THEN Emit("failed", t) ELSE UNCHANGED news
    /\ keyed' = [keyed EXCEPT ![t] = FALSE]

EmitConnecting(t) ==
    /\ phase[t] = "sent"
    /\ kind[t] = "connect"
    /\ Step(t, "vault")
    /\ Emit("connecting", t)
    /\ UNCHANGED <<answer, keyed, vault>>
    /\ OnlyTasks

BeginChange(t) ==
    /\ phase[t] = "sent"
    /\ kind[t] = "change"
    /\ Quietly(t, "vault")
    /\ UNCHANGED <<answer, vault>>
    /\ OnlyTasks

(* The store is wanted.  While it is locked its passphrase is asked for. *)
FindStore(t) ==
    /\ phase[t] = "vault"
    /\ IF unlocked THEN Quietly(t, "secret") ELSE Ask(t, "Passphrase")
    /\ UNCHANGED <<answer, vault>>
    /\ OnlyTasks

(* What the connection signs in with is asked for when the store has none  *)
(* or it is to be replaced.  The store may refuse to be read.              *)
FindSecret(t) ==
    /\ phase[t] = "secret"
    /\ \/ Ask(t, "Secret")
       \/ kind[t] = "connect" /\ Quietly(t, "dialing")
       \/ kind[t] = "connect" /\ Fail(t)
    /\ UNCHANGED <<answer, vault>>
    /\ OnlyTasks

(* The server shows its key, which is on file, or is asked about, or was   *)
(* never reached.                                                          *)
Dial(t) ==
    /\ phase[t] = "dialing"
    /\ Quietly(t, "signing") \/ Ask(t, "HostKey") \/ Fail(t)
    /\ UNCHANGED <<answer, vault>>
    /\ OnlyTasks

(* The server refuses, or the key file turns out to be encrypted, which is *)
(* asked about the first time.                                             *)
NotSignedIn(t) ==
    /\ phase[t] = "signing"
    /\ Fail(t) \/ (~keyed[t] /\ Ask(t, "KeyPassphrase"))
    /\ UNCHANGED <<answer, vault>>
    /\ OnlyTasks

(* The window is told of the connection, *)
SignedIn(t) ==
    /\ phase[t] = "signing"
    /\ Step(t, "told")
    /\ Emit("connected", t)
    /\ keyed' = [keyed EXCEPT ![t] = FALSE]
    /\ UNCHANGED <<answer, vault>>
    /\ OnlyTasks

(* and then the connection is put where commands for it are looked up. *)
Register(t) ==
    /\ phase[t] = "told"
    /\ Step(t, "over")
    /\ registry' = registry \cup {t}
    /\ UNCHANGED <<window, news, kind, answer, on, keyed, vault, leaving, departing,
                   slipped>>

(* A connection that is gone takes no upload, and an upload asks only      *)
(* about a name that is taken.                                             *)
BeginUpload(t) ==
    /\ phase[t] = "sent"
    /\ kind[t] = "upload"
    /\ IF on[t] \in registry THEN Ask(t, "Overwrite") ELSE Quietly(t, "over")
    /\ UNCHANGED <<answer, vault>>
    /\ OnlyTasks

(* The task that asked wakes up. *)

Woken(t, q, reply) ==
    /\ phase[t] = q
    /\ answer[t] = reply
    /\ answer' = [answer EXCEPT ![t] = "none"]

(* Nothing is saved, and what was under way is cancelled. *)
Declined(t) ==
    /\ \E q \in Questions \ {"Overwrite"} : Woken(t, q, "declined")
    /\ Fail(t)
    /\ UNCHANGED vault
    /\ OnlyTasks

(* Vault::unlock: whoever comes second finds it open, whatever was typed.  *)
(* The file itself may be beyond reading.                                  *)
Passphrase(t) ==
    /\ Woken(t, "Passphrase", "given")
    /\ \/ Quietly(t, "secret") /\ unlocked' = TRUE
       \/ ~unlocked /\ Fail(t) /\ UNCHANGED unlocked
    /\ UNCHANGED wrong
    /\ OnlyTasks

WrongPassphrase(t) ==
    /\ Woken(t, "Passphrase", "given")
    /\ ~unlocked
    /\ wrong < MaxWrong
    /\ Quietly(t, "vault")
    /\ wrong' = wrong + 1
    /\ UNCHANGED unlocked
    /\ OnlyTasks

(* The secret is saved, and a connection goes on with it. *)
SecretGiven(t) ==
    /\ Woken(t, "Secret", "given")
    /\ Fail(t) \/ Quietly(t, IF kind[t] = "connect" THEN "dialing" ELSE "over")
    /\ UNCHANGED vault
    /\ OnlyTasks

HostKeyAccepted(t) ==
    /\ Woken(t, "HostKey", "given")
    /\ Quietly(t, "signing")
    /\ UNCHANGED vault
    /\ OnlyTasks

(* The same connection is tried again with the key file's passphrase. *)
KeyPassphrase(t) ==
    /\ Woken(t, "KeyPassphrase", "given")
    /\ \/ Fail(t)
       \/ /\ Step(t, "dialing")
          /\ keyed' = [keyed EXCEPT ![t] = TRUE]
          /\ UNCHANGED news
    /\ UNCHANGED vault
    /\ OnlyTasks

(* Whatever is chosen, the upload goes on to its transfers. *)
OverwriteAnswered(t) ==
    /\ \E reply \in {"given", "declined"} : Woken(t, "Overwrite", reply)
    /\ Quietly(t, "over")
    /\ UNCHANGED vault
    /\ OnlyTasks

(* A session is asked to go.  One that is not registered is ignored. *)
RunDisconnect(s) ==
    /\ leaving[s] > 0
    /\ leaving' = [leaving EXCEPT ![s] = @ - 1]
    /\ registry' = registry \ {s}
    /\ departing' = departing \cup ({s} \cap registry)
    /\ slipped' = IF phase[s] = "told" THEN slipped \cup {s} ELSE slipped
    /\ UNCHANGED <<window, news, task, vault>>

Gone(s) ==
    /\ s \in departing
    /\ departing' = departing \ {s}
    /\ Emit("disconnected", s)
    /\ UNCHANGED <<window, task, vault, registry, leaving, slipped>>

-----------------------------------------------------------------------------
(* The interface thread hears the oldest news, in every open window.       *)

Hear(type, t) ==
    /\ news # <<>>
    /\ Head(news) = [type |-> type, of |-> t]
    /\ news' = Tail(news)

OnlyScreens ==
    UNCHANGED <<open, questions, task, vault, sessions, slipped>>

(* Slip: whoever is listening takes the news. *)
Anyone(t) == open

(* Screen::concerns_us, for news of an attempt. *)
Concerned(t) == {w \in open : attempt[w] = t}

HearConnecting(t) ==
    /\ Hear("connecting", t)
    /\ connecting' = [w \in Windows |-> w \in Concerned(t) \/ connecting[w]]
    /\ UNCHANGED <<attempt, session>>
    /\ OnlyScreens

HearConnected(t) ==
    /\ Hear("connected", t)
    /\ session' = [w \in Windows |-> IF w \in Concerned(t) THEN t ELSE session[w]]
    /\ connecting' = [w \in Windows |-> w \notin Concerned(t) /\ connecting[w]]
    /\ UNCHANGED attempt
    /\ OnlyScreens

HearFailed(t) ==
    /\ Hear("failed", t)
    /\ attempt' = [w \in Windows |-> IF w \in Concerned(t) THEN None ELSE attempt[w]]
    /\ connecting' = [w \in Windows |-> w \notin Concerned(t) /\ connecting[w]]
    /\ UNCHANGED session
    /\ OnlyScreens

HearDisconnected(s) ==
    /\ Hear("disconnected", s)
    /\ LET theirs == {w \in open : session[w] = s}
       IN /\ session' = [w \in Windows |-> IF w \in theirs THEN None ELSE session[w]]
          /\ attempt' = [w \in Windows |-> IF w \in theirs THEN None ELSE attempt[w]]
    /\ UNCHANGED connecting
    /\ OnlyScreens

(* Slip: a question is put up wherever there is no connection yet. *)
AnyoneWaiting(t) == {w \in open : attempt[w] = t \/ session[w] = None}

(* Window::ours: an attempt's question is for the window that holds it, an *)
(* upload's for the one that shows its connection.                         *)
Ours(t) ==
    {w \in open : IF kind[t] = "upload" THEN session[w] = on[t] ELSE attempt[w] = t}

(* A question nobody claims is dropped, which declines it. *)
HearAsk(t) ==
    /\ Hear("ask", t)
    /\ pending' = [w \in Windows |-> IF w \in Ours(t) THEN Append(pending[w], t)
                                     ELSE pending[w]]
    /\ asking' = [w \in Windows |-> w \in Ours(t) \/ asking[w]]
    /\ Answered(IF Ours(t) = {} THEN {t} ELSE {}, "declined")
    /\ UNCHANGED <<open, screens, kind, phase, on, keyed, vault, sessions, slipped>>

-----------------------------------------------------------------------------

Window(w) ==
    \/ \E t \in Tasks : ConnectTo(w, t) \/ ChangeCredentials(w, t) \/ Upload(w, t)
    \/ Disconnect(w)
    \/ Close(w)

Choose(w) == \E reply \in {"given", "declined"} : Reply(w, reply)

Work(t) ==
    \/ EmitConnecting(t)
    \/ BeginChange(t)
    \/ FindStore(t)
    \/ FindSecret(t)
    \/ Dial(t)
    \/ NotSignedIn(t)
    \/ SignedIn(t)
    \/ Register(t)
    \/ BeginUpload(t)
    \/ Declined(t)
    \/ Passphrase(t)
    \/ WrongPassphrase(t)
    \/ SecretGiven(t)
    \/ HostKeyAccepted(t)
    \/ KeyPassphrase(t)
    \/ OverwriteAnswered(t)

Leaving(s) == RunDisconnect(s) \/ Gone(s)

Listen ==
    \E t \in Tasks :
        \/ HearConnecting(t)
        \/ HearConnected(t)
        \/ HearFailed(t)
        \/ HearDisconnected(t)
        \/ HearAsk(t)

Next ==
    \/ \E w \in Windows : Window(w) \/ Choose(w)
    \/ \E t \in Tasks : Work(t) \/ Leaving(t)
    \/ Listen

Spec == Init /\ [][Next]_vars

(* The engine's runtime runs every task that can run, GTK's main loop every *)
(* idle callback, and a server answers or is given up on.  That the person *)
(* answers the question on screen, one way or another, is assumed; that    *)
(* they ever ask for anything, or close a window, is not.                  *)
Fairness ==
    /\ \A t \in Tasks : WF_vars(Work(t)) /\ WF_vars(Leaving(t))
    /\ \A w \in Windows : WF_vars(Choose(w))
    /\ WF_vars(Listen)

FairSpec == Spec /\ Fairness

-----------------------------------------------------------------------------
(* Properties. *)

(* The type of every variable. *)
TypeOK ==
    /\ open \subseteq Windows
    /\ attempt \in [Windows -> Tasks \cup {None}]
    /\ session \in [Windows -> Tasks \cup {None}]
    /\ connecting \in [Windows -> BOOLEAN]
    /\ pending \in [Windows -> Seq(Tasks)]
    /\ asking \in [Windows -> BOOLEAN]
    /\ news \in Seq(News)
    /\ kind \in [Tasks -> Commands]
    /\ phase \in [Tasks -> Phases]
    /\ answer \in [Tasks -> {"none", "given", "declined"}]
    /\ on \in [Tasks -> Tasks \cup {None}]
    /\ keyed \in [Tasks -> BOOLEAN]
    /\ registry \subseteq Tasks
    /\ unlocked \in BOOLEAN
    /\ wrong \in Nat
    /\ leaving \in [Tasks -> Nat]
    /\ departing \subseteq Tasks
    /\ slipped \subseteq Tasks

(* Nothing is under way and nothing is left to be heard. *)
Quiet ==
    /\ news = <<>>
    /\ departing = {}
    /\ \A t \in Tasks : phase[t] \in {"idle", "over"} /\ leaving[t] = 0

(* Exactly one window asks a question (event.rs, Prompt::concern): it is   *)
(* never waiting to be asked in two, however attempts replace each other   *)
(* and windows close around it.                                            *)
OneWindowAsks ==
    \A v, w \in Windows :
        v # w => Elements(pending[v]) \cap Elements(pending[w]) = {}

(* "A closed dialog can never leave a task waiting forever" (event.rs):    *)
(* while a task waits, its question is on its way to the windows, or is in *)
(* line behind a dialog that an open window has on screen.                 *)
NobodyWaitsForNothing ==
    \A t \in Tasks : phase[t] \in Questions /\ answer[t] = "none" =>
        \/ \E i \in DOMAIN news : news[i] = [type |-> "ask", of |-> t]
        \/ \E w \in open : asking[w] /\ t \in Elements(pending[w])

(* Two windows never show one connection, so that neither can close what   *)
(* the other is using.                                                     *)
SessionsAreNotShared ==
    \A v, w \in open : v # w /\ session[v] # None => session[v] # session[w]

(* When all is quiet the engine holds no connection without a window, but  *)
(* for those whose window had closed or asked for something else before it *)
(* heard of them, or had disconnected before they were registered.         *)
OnlyTheSlippedLinger ==
    Quiet => \A s \in registry \ slipped : \E w \in open : session[w] = s

(* Everything asked of the engine comes to an end, whatever is asked on    *)
(* the way, wherever it is asked, and whichever windows close.             *)
EverythingEnds == \A t \in Tasks : phase[t] = "sent" ~> phase[t] = "over"
=============================================================================
