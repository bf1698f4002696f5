------------------------------- MODULE Screen -------------------------------
(***************************************************************************)
(* What a window shows of the folder its connection is in: the rows of the *)
(* file list (file_list.rs), the rows on their way in and out, and the     *)
(* gestures that begin them (window.rs, browser.rs).  It composes with     *)
(* module Navigation, whose commands here have names to work on, a server  *)
(* that holds files, and news of their failures.                           *)
(*                                                                         *)
(* In Navigation's terms a deletion is a "change" (it ends where it began) *)
(* and a move on one connection a "create" (it ends with a refresh).       *)
(***************************************************************************)
EXTENDS Navigation

CONSTANTS
    Names,
    HeldAtFirst,  \* the files each folder holds to begin with
    Uploads,
    Into, Called, \* the folder and the name each of them lands under
    Afterwards,   \* the refresh that each of them ends with, among Calls
    AtOnce,       \* how many commands and uploads may be under way, a bound
    InAll,        \* how many of both may be begun, a bound
    Backlog       \* how much news may wait to be heard, a bound

ASSUME ScreenAssumption ==
    /\ HeldAtFirst \in [Folders -> SUBSET Names]
    /\ Into \in [Uploads -> Folders]
    /\ Called \in [Uploads -> Names]
    /\ Afterwards \in [Uploads -> Calls]
    /\ AtOnce \in Nat /\ InAll \in Nat /\ Backlog \in Nat

VARIABLES
    server,    \* the files in each folder
    what,      \* the names each command is about
    from,      \* the folder on screen when they were picked
    since,     \* the commands sent by then, or -1 if any was under way
    into,      \* the folder a move puts them in
    got,       \* what each listing found
    upload,    \* how far each upload is
    overlooked,\* the uploads nobody has listed the folder for
    entries,   \* FileList::entries
    leaving,   \* FileList::leaving
    arriving   \* FileList::arriving

queue == <<upload, overlooked>>
work == <<server, what, from, since, into, got, queue>>
list == <<entries, leaving, arriving>>

svars == <<vars, work, list>>

SInit ==
    /\ Init
    /\ server = HeldAtFirst
    /\ what = [c \in Calls |-> {}]
    /\ from = [c \in Calls |-> Root]
    /\ since = [c \in Calls |-> -1]
    /\ into = [c \in Calls |-> Root]
    /\ got = [c \in Calls |-> {}]
    /\ upload = [t \in Uploads |-> "none"]
    /\ overlooked = {}
    /\ entries = HeldAtFirst[Root]
    /\ leaving = {}
    /\ arriving = [t \in Uploads |-> "no"]

(* merge: a file on its way to a name that is listed has that row. *)
StandsIn(t) == arriving[t] # "no" /\ Into[t] = shown
Rows == entries \cup {Called[t] : t \in {u \in Uploads : StandsIn(u)}}
Bars == {Called[t] : t \in {u \in Uploads : StandsIn(u) /\ arriving[u] = "moving"}}

-----------------------------------------------------------------------------
(* Gestures. *)

Begun == {t \in Uploads : upload[t] # "none"}
Asked == {c \in Calls : phase[c] # "idle" /\ \A t \in Begun : Afterwards[t] # c}

Room ==
    /\ Cardinality({c \in Calls : Live(c)})
         + Cardinality({t \in Begun : upload[t] # "over"}) < AtOnce
    /\ Cardinality(Asked) + Cardinality(Begun) < InAll

(* Whatever is sent has a folder listed when it is done. *)
Send ==
    /\ Room
    /\ overlooked' = {}
    /\ UNCHANGED <<server, what, from, since, got, upload>>

Browse(c) ==
    /\ AskOpen(c) /\ Send
    /\ UNCHANGED <<into, list>>

Reload(c) ==
    /\ kind[c] = "refresh" /\ \A t \in Begun : Afterwards[t] # c
    /\ AskAbout(c) /\ Send
    /\ UNCHANGED <<into, list>>

(* confirm_delete and begin_move write down what is picked; the dialog is  *)
(* answered, or the drag ends, some time later.                            *)
Pick(c) ==
    /\ phase[c] = "idle" /\ kind[c] \in {"change", "create"} /\ what[c] = {}
    /\ \E names \in (SUBSET Rows) \ {{}} : what' = [what EXCEPT ![c] = names]
    /\ from' = [from EXCEPT ![c] = shown]
    /\ since' = [since EXCEPT ![c] = IF Quiet THEN Len(asks) ELSE -1]
    /\ UNCHANGED <<vars, server, into, got, queue, list>>

ExpectDeparture(names) == leaving' = leaving \cup names

RemoveFiles(c) ==
    /\ kind[c] = "change" /\ what[c] # {}
    /\ AskAbout(c) /\ Send
    /\ ExpectDeparture(what[c])
    /\ UNCHANGED <<into, entries, arriving>>

(* Dropping files where they are does nothing. *)
MoveInto(c) ==
    /\ kind[c] = "create" /\ what[c] # {}
    /\ AskAbout(c) /\ Send
    /\ \E folder \in Folders \ {from[c]} : into' = [into EXCEPT ![c] = folder]
    /\ IF from[c] = shown THEN ExpectDeparture(what[c]) ELSE UNCHANGED leaving
    /\ UNCHANGED <<entries, arriving>>

-----------------------------------------------------------------------------
(* The engine's tasks. *)

MayTell == Len(news) < Backlog

(* What a deletion or a move has made of the folders by the time it has    *)
(* seen to some of its names.                                              *)
Without(c, names) ==
    IF kind[c] = "change"
    THEN [server EXCEPT ![target[c]] = @ \ names]
    ELSE [server EXCEPT ![from[c]] = @ \ names,
                        ![into[c]] = @ \cup (names \cap server[from[c]])]

Begin(c) ==
    /\ BeginOpen(c) \/ BeginRefresh(c) \/ BeginChange(c)
    /\ UNCHANGED <<work, list>>

Made(c) ==
    /\ Changed(c)
    /\ server' = Without(c, what[c])
    /\ UNCHANGED <<what, from, since, into, got, queue, list>>

(* Refused, with some of the names seen to; the error is told. *)
Failed(c) ==
    /\ phase[c] = "acting"
    /\ Step(c, "over")
    /\ refused' = refused \cup {c}
    /\ \E names \in SUBSET what[c] : server' = Without(c, names)
    /\ MayTell /\ Emit([type |-> "failed"])
    /\ UNCHANGED <<path, navigation, target, token, shown, busy, asks, wanted, late,
                   orderly, what, from, since, into, got, queue, list>>

SetOut(c) ==
    /\ MayTell
    /\ Navigate(c)
    /\ UNCHANGED <<work, list>>

Listed(c) ==
    /\ MayTell
    /\ \E well \in BOOLEAN : Answer(c, well)
    /\ got' = [got EXCEPT ![c] = server[target[c]]]
    /\ UNCHANGED <<server, what, from, since, into, queue, list>>

(* Slip: the connection is moved without asking whether that still counts. *)
GetOnUnasked(c) ==
    /\ \/ phase[c] = "answered" /\ c \notin refused /\ Step(c, "moved")
          /\ path' = target[c] /\ UNCHANGED <<navigation, target, token, window, history>>
       \/ MoveTo(c)
    /\ UNCHANGED <<work, list>>

GetOn(c) ==
    /\ Overtaken(c) \/ (c \notin refused /\ StillCurrent(c)) \/ MoveTo(c)
    /\ UNCHANGED <<work, list>>

(* Slip: an error is kept to oneself. *)
ComplainToNobody(c) ==
    /\ c \in refused
    /\ StillCurrent(c)
    /\ UNCHANGED <<work, list>>

(* The answer of the navigation that counts is an error. *)
Complain(c) ==
    /\ phase[c] = "answered" /\ IsCurrent(c) /\ c \in refused
    /\ Step(c, "over")
    /\ MayTell /\ Emit([type |-> "failed"])
    /\ UNCHANGED <<path, navigation, target, token, shown, busy, history, work, list>>

ShowListing(c) ==
    /\ phase[c] = "moved"
    /\ Step(c, "over")
    /\ MayTell /\ Emit([type |-> "listing", folder |-> target[c], entries |-> got[c]])
    /\ UNCHANGED <<path, navigation, target, token, shown, busy, history, work, list>>

UploadTo(t, stage) == upload' = [upload EXCEPT ![t] = stage]

Announce(t, event) ==
    /\ MayTell /\ Emit([type |-> event, of |-> t])
    /\ UNCHANGED <<engine, shown, busy, history, server, what, from, since, into, got, list>>

(* The file may be where it was sent; nothing else has changed. *)
MayBeThere(t) ==
    /\ \/ server' = [server EXCEPT ![Into[t]] = @ \cup {Called[t]}]
       \/ UNCHANGED server
    /\ UNCHANGED <<vars, what, from, since, into, got, list>>

(* Slip: an upload leaves the registry last of all, after it has asked     *)
(* whether it is the last.                                                 *)
StaysInFlight(t) == upload[t] \in {"moving", "landed", "told"}

(* Is it in Running::running? *)
InFlight(t) == upload[t] = "moving"

(* Running::still_working, which counts the downloads as well.  They change *)
(* nothing else here: any moment may be one at which there is one.         *)
StillWorking(downloads) == downloads \/ \E t \in Uploads : InFlight(t)

StartUpload(t) ==
    /\ upload[t] = "none" /\ UploadTo(t, "moving")
    /\ phase[Afterwards[t]] = "idle"
    /\ Room
    /\ Announce(t, "added") /\ UNCHANGED overlooked

(* Done with its work, it leaves the registry at once. *)
Land(t) ==
    upload[t] = "moving" /\ UploadTo(t, "landed") /\ MayBeThere(t) /\ UNCHANGED overlooked

ReportUpload(t) ==
    /\ upload[t] = "landed" /\ UploadTo(t, "told")
    /\ Announce(t, "finished") /\ UNCHANGED overlooked

(* The last of a batch has the folder listed, *)
Relist(t) ==
    /\ upload[t] = "told" /\ ~StillWorking(FALSE)
    /\ UploadTo(t, "over") /\ overlooked' = {}
    /\ AskAbout(Afterwards[t])
    /\ UNCHANGED <<server, what, from, since, into, got, list>>

(* and the others leave it to whatever is in the registry still, though a  *)
(* download will not.                                                      *)
LeaveToOthers(t) ==
    /\ upload[t] = "told" /\ \E downloads \in BOOLEAN : StillWorking(downloads)
    /\ UploadTo(t, "over")
    /\ overlooked' =
          IF \E u \in Uploads : InFlight(u) THEN overlooked ELSE overlooked \cup Begun
    /\ UNCHANGED <<vars, server, what, from, since, into, got, list>>

(* Running::cancel, of an upload that is at its work: nobody lists the     *)
(* folder for it, nor for those that left it to this one.  (One that is    *)
(* done with its work goes on until it lists: module Transfers.)           *)
CallOff(t) ==
    /\ upload[t] = "moving" /\ UploadTo(t, "off")
    /\ Announce(t, "finished") /\ overlooked' = overlooked \cup Begun

(* What the server makes of what it had been sent by then. *)
Remain(t) ==
    /\ upload[t] = "off" /\ UploadTo(t, "over")
    /\ MayBeThere(t) /\ overlooked' = overlooked \cup {t}

-----------------------------------------------------------------------------
(* The interface thread hears of it. *)

NewsIs(type) == news # <<>> /\ Head(news).type = type
Dequeue == news' = Tail(news)
Otherwise == UNCHANGED <<engine, shown, busy, history, work>>

(* What stood in for a file of the folder that is listed has done its job. *)
Settle(folder) ==
    arriving' = [t \in Uploads |->
                   IF arriving[t] = "landed" /\ Into[t] = folder THEN "no" ELSE arriving[t]]

Replace ==
    /\ HearListing
    /\ entries' = Head(news).entries
    /\ leaving' = {}
    /\ Settle(Head(news).folder)
    /\ UNCHANGED work

SetBusy ==
    /\ HearWorking
    /\ UNCHANGED <<work, list>>

(* What did not go stops looking as if it did. *)
HearFailed ==
    /\ NewsIs("failed") /\ Dequeue /\ Otherwise
    /\ leaving' = {}
    /\ UNCHANGED <<entries, arriving>>

Expect ==
    /\ NewsIs("added") /\ Dequeue /\ Otherwise
    /\ arriving' = [arriving EXCEPT ![Head(news).of] = "moving"]
    /\ UNCHANGED <<entries, leaving>>

Arrived ==
    /\ NewsIs("finished") /\ Dequeue /\ Otherwise
    /\ arriving' = [arriving EXCEPT ![Head(news).of] = "landed"]
    /\ UNCHANGED <<entries, leaving>>

-----------------------------------------------------------------------------
Gesture(c) == Browse(c) \/ Reload(c) \/ Pick(c) \/ RemoveFiles(c) \/ MoveInto(c)

Command(c) ==
    \/ Begin(c) \/ Made(c) \/ Failed(c) \/ SetOut(c) \/ Listed(c) \/ GetOn(c)
    \/ Complain(c) \/ ShowListing(c)

Uploading(t) ==
    \/ StartUpload(t) \/ Land(t) \/ ReportUpload(t) \/ Relist(t) \/ LeaveToOthers(t)
    \/ CallOff(t) \/ Remain(t)

Receive == Replace \/ SetBusy \/ HearFailed \/ Expect \/ Arrived

SNext ==
    \/ \E c \in Calls : Gesture(c) \/ Command(c)
    \/ \E t \in Uploads : Uploading(t)
    \/ Receive

SSpec == SInit /\ [][SNext]_svars

-----------------------------------------------------------------------------
(* Properties. *)

Still == Quiet /\ \A t \in Uploads : upload[t] \in {"none", "over"}

(* The names of this folder that the list may be wrong about: those of the *)
(* uploads overlooked.                                                     *)
Doubtful == {Called[t] : t \in {u \in overlooked : Into[u] = shown}}

(* When everything has settled the list is true: as long as the commands   *)
(* kept out of one another's way and none was refused, its rows are the    *)
(* files the server has in that folder, those that stood in for an upload  *)
(* and those on their way out included, and none has a bar any more        *)
(* (file_list.rs replace and merge).  Uploads that end beside one another  *)
(* in any order are all listed for by whichever is the last (engine.rs     *)
(* start).  Where one was called off, or ended while a download was under  *)
(* way, and no command was sent since, nobody lists the folder, and the    *)
(* list may be wrong about the uploads begun by then, and about them only. *)
ListEndsTrue ==
    Still /\ orderly /\ refused = {} =>
        Rows \ Doubtful = server[shown] \ Doubtful /\ Bars = {}

(* Whatever is overtaken or refused, no row goes on looking as though it   *)
(* were going once everything has settled (file_list.rs expect_departure). *)
DeparturesEnd == Still => leaving \cap Rows = {}

(* The names to delete are joined to the folder the connection is in when  *)
(* the command is handled (engine.rs delete).  That is the folder they     *)
(* were picked in as long as nothing was under way then and nothing else   *)
(* was sent before the command began; the window checks neither.           *)
DeletedWherePicked ==
    \A c \in Calls :
        /\ kind[c] = "change" /\ phase[c] = "acting" /\ orderly
        /\ since[c] >= 0 /\ asks[Len(asks)] = c /\ Len(asks) = since[c] + 1
        => target[c] = from[c]

(* Seen without names and files, this is module Navigation. *)
InNavigation(e) ==
    IF e.type = "working" THEN <<e>>
    ELSE IF e.type = "listing" THEN <<[type |-> "listing", folder |-> e.folder]>> ELSE <<>>

Sifted(told) ==
    LET sifted[i \in 0 .. Len(told)] ==
            IF i = 0 THEN <<>> ELSE sifted[i - 1] \o InNavigation(told[i])
    IN  sifted[Len(told)]

Listings == Sifted(news)

Folder == INSTANCE Navigation WITH news <- Listings

(* The window keeps to what module Navigation says of it. *)
KeepsToNavigation == Folder!Spec
=============================================================================
