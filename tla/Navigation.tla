----------------------------- MODULE Navigation -----------------------------
(***************************************************************************)
(* Which folder a connection is in: Session (session.rs), the commands of  *)
(* engine.rs that read or move it, and the window that shows it            *)
(* (screen.rs, file_list.rs).                                              *)
(*                                                                         *)
(* The window sends commands and the engine runs each on a task of its     *)
(* own, so their steps interleave in every order.  A navigation takes a    *)
(* token, asks the server, and lets its answer count only while its token  *)
(* is the newest.  One open connection is modelled: sessions share nothing *)
(* that is modelled here.                                                  *)
(***************************************************************************)
EXTENDS Integers, Sequences, FiniteSets

CONSTANTS
    Calls,     \* the commands that may be sent
    Kinds,     \* what each of them may be
    Folders,   \* the folders of the server
    Root

Commands ==
    {"open",     \* Command::Open
     "refresh",  \* Command::Refresh
     "change",   \* Command::Rename, Command::Delete: the folder is kept
     "create"}   \* Command::CreateFolder, SetPermissions: it is read again

ASSUME CallsAssumption ==
    /\ IsFiniteSet(Calls)
    /\ Kinds \in [Calls -> SUBSET Commands]
    /\ Root \in Folders

VARIABLES
    kind,        \* what each command is
    path,        \* Session::path
    navigation,  \* Session::navigation
    phase,       \* how far each command's task has got
    target,      \* the folder each command is to list
    token,       \* the navigation each command started
    news,        \* what has been told to the window and not heard yet
    shown,       \* the folder the window shows
    busy,        \* FileList::working
    \* What happened, for the properties to speak of:
    asks,        \* the commands in the order they were sent
    wanted,      \* the folder asked for last
    refused,     \* the commands the server refused
    late,        \* the commands overtaken before the server answered them
    orderly      \* have the commands kept out of one another's way?

engine == <<kind, path, navigation, phase, target, token>>
window == <<news, shown, busy>>
history == <<asks, wanted, refused, late, orderly>>

vars == <<engine, window, history>>

Phases == {"idle", "sent", "acting", "going", "listing", "answered", "current",
           "moved", "over"}

News == [type : {"working"}, on : BOOLEAN] \cup [type : {"listing"}, folder : Folders]

Live(c) == phase[c] \notin {"idle", "over"}

(* A command gets on, and stays what it is. *)
Step(c, to) ==
    /\ phase' = [phase EXCEPT ![c] = to]
    /\ UNCHANGED kind

Emit(event) == news' = Append(news, event)

AskedBefore(c, d) ==
    \E i, j \in DOMAIN asks : asks[i] = c /\ asks[j] = d /\ i < j

Init ==
    /\ kind \in [Calls -> Commands]
    /\ \A c \in Calls : kind[c] \in Kinds[c]
    /\ path = Root
    /\ navigation = 0
    /\ phase = [c \in Calls |-> "idle"]
    /\ target = [c \in Calls |-> Root]
    /\ token = [c \in Calls |-> 0]
    /\ news = <<>>
    /\ shown = Root
    /\ busy = FALSE
    /\ asks = <<>>
    /\ wanted = Root
    /\ refused = {}
    /\ late = {}
    /\ orderly = TRUE

-----------------------------------------------------------------------------
(* The window sends a command.  Only Open names a folder. *)

Ask(c) ==
    /\ phase[c] = "idle"
    /\ Step(c, "sent")
    /\ asks' = Append(asks, c)
    /\ UNCHANGED <<path, navigation, token, window, refused, late, orderly>>

AskOpen(c) ==
    /\ kind[c] = "open"
    /\ Ask(c)
    /\ \E folder \in Folders :
          /\ target' = [target EXCEPT ![c] = folder]
          /\ wanted' = folder

AskAbout(c) ==
    /\ kind[c] # "open"
    /\ Ask(c)
    /\ UNCHANGED <<target, wanted>>

-----------------------------------------------------------------------------
(* The engine's task for it. *)

(* The folder the connection is in becomes the folder to list.  What that  *)
(* is depends on who else is on their way somewhere.                       *)
ReadPath(c) ==
    /\ target' = [target EXCEPT ![c] = path]
    /\ orderly' = (orderly /\ \A d \in Calls \ {c} : ~Live(d))

BeginOpen(c) ==
    /\ phase[c] = "sent"
    /\ kind[c] = "open"
    /\ Step(c, "going")
    /\ UNCHANGED <<path, navigation, target, token, window, history>>

BeginRefresh(c) ==
    /\ phase[c] = "sent"
    /\ kind[c] = "refresh"
    /\ Step(c, "going")
    /\ ReadPath(c)
    /\ UNCHANGED <<path, navigation, token, window, asks, wanted, refused, late>>

BeginChange(c) ==
    /\ phase[c] = "sent"
    /\ kind[c] \in {"change", "create"}
    /\ Step(c, "acting")
    /\ ReadPath(c)
    /\ UNCHANGED <<path, navigation, token, window, asks, wanted, refused, late>>

(* The server has done what it was asked: a renaming or a deletion goes    *)
(* back to the folder it began in, a creation refreshes.                   *)
Changed(c) ==
    /\ phase[c] = "acting"
    /\ Step(c, "going")
    /\ IF kind[c] = "create" THEN ReadPath(c) ELSE UNCHANGED <<target, orderly>>
    /\ UNCHANGED <<path, navigation, token, window, asks, wanted, refused, late>>

Refused(c) ==
    /\ phase[c] = "acting"
    /\ Step(c, "over")
    /\ refused' = refused \cup {c}
    /\ UNCHANGED <<path, navigation, target, token, window, asks, wanted, late,
                   orderly>>

(* Session::navigating, and the window is told that it is waiting. *)
Navigate(c) ==
    /\ phase[c] = "going"
    /\ Step(c, "listing")
    /\ navigation' = navigation + 1
    /\ token' = [token EXCEPT ![c] = navigation + 1]
    /\ Emit([type |-> "working", on |-> TRUE])
    /\ orderly' = (orderly /\ \A d \in Calls \ {c} :
                     /\ phase[d] \notin {"current", "moved"}
                     /\ token[d] > 0 => AskedBefore(d, c))
    /\ UNCHANGED <<path, target, shown, busy, asks, wanted, refused, late>>

(* Slip: a refusal returns before the window is told that it is over. *)
AnswerIfWell(c, well) ==
    /\ phase[c] = "listing"
    /\ Step(c, "answered")
    /\ IF well THEN Emit([type |-> "working", on |-> FALSE]) ELSE UNCHANGED news
    /\ refused' = IF well THEN refused ELSE refused \cup {c}
    /\ late' = IF token[c] = navigation THEN late ELSE late \cup {c}
    /\ UNCHANGED <<path, navigation, target, token, shown, busy, asks, wanted,
                   orderly>>

(* The server has answered, with the folder or with a refusal. *)
Answer(c, well) ==
    /\ phase[c] = "listing"
    /\ Step(c, "answered")
    /\ Emit([type |-> "working", on |-> FALSE])
    /\ refused' = IF well THEN refused ELSE refused \cup {c}
    /\ late' = IF token[c] = navigation THEN late ELSE late \cup {c}
    /\ UNCHANGED <<path, navigation, target, token, shown, busy, asks, wanted,
                   orderly>>

(* Slip: a navigation that has been overtaken counts as well. *)
WasCurrent(c) == navigation >= token[c]

(* Session::is_current. *)
IsCurrent(c) == navigation = token[c]

Overtaken(c) ==
    /\ phase[c] = "answered"
    /\ ~IsCurrent(c)
    /\ Step(c, "over")
    /\ UNCHANGED <<path, navigation, target, token, window, history>>

StillCurrent(c) ==
    /\ phase[c] = "answered"
    /\ IsCurrent(c)
    /\ Step(c, IF c \in refused THEN "over" ELSE "current")
    /\ UNCHANGED <<path, navigation, target, token, window, history>>

(* Slip: the window is told and the session is not moved. *)
MoveNowhere(c) ==
    /\ phase[c] = "current"
    /\ Step(c, "moved")
    /\ UNCHANGED <<path, navigation, target, token, window, history>>

MoveTo(c) ==
    /\ phase[c] = "current"
    /\ Step(c, "moved")
    /\ path' = target[c]
    /\ UNCHANGED <<navigation, target, token, window, history>>

EmitListing(c) ==
    /\ phase[c] = "moved"
    /\ Step(c, "over")
    /\ Emit([type |-> "listing", folder |-> target[c]])
    /\ UNCHANGED <<path, navigation, target, token, shown, busy, history>>

-----------------------------------------------------------------------------
(* The interface thread hears the news in the order it broke. *)

HearListing ==
    /\ news # <<>>
    /\ Head(news).type = "listing"
    /\ shown' = Head(news).folder
    /\ news' = Tail(news)
    /\ UNCHANGED <<engine, busy, history>>

HearWorking ==
    /\ news # <<>>
    /\ Head(news).type = "working"
    /\ busy' = Head(news).on
    /\ news' = Tail(news)
    /\ UNCHANGED <<engine, shown, history>>

-----------------------------------------------------------------------------

Task(c) ==
    \/ BeginOpen(c)
    \/ BeginRefresh(c)
    \/ BeginChange(c)
    \/ Changed(c)
    \/ Refused(c)
    \/ Navigate(c)
    \/ \E well \in BOOLEAN : Answer(c, well)
    \/ Overtaken(c)
    \/ StillCurrent(c)
    \/ MoveTo(c)
    \/ EmitListing(c)

Hear == HearListing \/ HearWorking

Next ==
    \/ \E c \in Calls : AskOpen(c) \/ AskAbout(c) \/ Task(c)
    \/ Hear

Spec == Init /\ [][Next]_vars

-----------------------------------------------------------------------------
(* Properties. *)

(* The type of every variable. *)
TypeOK ==
    /\ kind \in [Calls -> Commands]
    /\ path \in Folders
    /\ navigation \in Nat
    /\ phase \in [Calls -> Phases]
    /\ target \in [Calls -> Folders]
    /\ token \in [Calls -> 0 .. navigation]
    /\ news \in Seq(News)
    /\ shown \in Folders
    /\ busy \in BOOLEAN
    /\ asks \in Seq(Calls)
    /\ wanted \in Folders
    /\ refused \subseteq Calls
    /\ late \subseteq Calls
    /\ orderly \in BOOLEAN

(* Nothing is under way and nothing is left to be heard. *)
Quiet == news = <<>> /\ \A c \in Calls : ~Live(c)

(* "A slow listing arriving late drops the window into a folder nobody     *)
(* chose" (session.rs:37) is what the token is for: a command that another *)
(* navigation overtook before its answer came never moves the connection.  *)
LateAnswersAreDropped ==
    \A c \in late : phase[c] \notin {"current", "moved"}

(* What the token does give: while the navigations take their tokens in    *)
(* the order they were asked for, none starts between another's check and  *)
(* its listing, and nothing reads the folder while another is on its way,  *)
(* then, in whatever order the server answers, the window and the engine   *)
(* both end in the folder asked for last.                                  *)
OrderlyEndsWhereAsked ==
    Quiet /\ orderly /\ refused = {} => shown = wanted /\ path = wanted

(* However many listings overlap and whichever are overtaken or refused,   *)
(* the window does not go on saying that it waits when all have answered.  *)
WaitingEnds == Quiet => ~busy

(* Two commands never hold the same token, so at most one answer is the    *)
(* current one's.                                                          *)
TokensDiffer ==
    \A c, d \in Calls : c # d /\ token[c] > 0 => token[c] # token[d]
=============================================================================
