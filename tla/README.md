# Okuri, specified

TLA+ specifications of Okuri, a file transfer application: an engine in Rust on
a Tokio runtime (`crates/okuri-engine`), providers for SFTP, FTP, S3, Azure and
WebDAV (`crates/okuri-providers`), and a GTK interface (`crates/okuri`). Every
module is translated from the source named in its header and in `PROJECT.json`
(`map`), whose paths begin with `src/`, the root of the repository.

TLC model-checks small instances (the `MC*.tla` modules and `*.cfg`). TLAPS
proves the main invariants for every value of the constants (`*Proofs.tla`).

    tlc -config TransfersCrossing.cfg MCTransfers
    tlapm TransfersProofs.tla

## The system

| component | state it keeps | operations | who it talks to |
|---|---|---|---|
| engine (`engine.rs`) | the registry of sessions, the registry of running transfers | one task per command: connect, disconnect, open, refresh, create, rename, move, delete, upload, download, describe, share, cancel | hears commands on a channel; emits events; calls a provider |
| session (`session.rs`) | the folder it is in, the newest navigation token, the semaphore of transfer slots | `navigating`, `is_current`, `move_to`, `transfer_slots` | shared by all commands of one connection |
| prompt (`event.rs`) | a reply that is given once | `answer`, drop declines | the task that asks, the window that shows it |
| relay and bus (`relay.rs`, `bus.rs`) | the list of subscribers | every event crosses to the interface thread, in order | engine to windows and queue |
| queue (`transfers.rs`) | a row for each transfer | add, advance, finish, clear, cancel | events in, `CancelTransfer` out |
| window (`window.rs`, `screen.rs`, `file_list.rs`) | attempt, session, folder, rows, questions that wait | commands from actions; `receive` for events | events in, commands out |
| providers | the protocol's connection; parts on their way | list, read, write, rename, delete, details | the server |
| parts (`parts.rs`) | a budget of memory, the parts on their way | read in pieces, send each part, retry | S3 and Azure uploads and downloads |
| secrets, host keys, connections | files on disk | read, ask, save | connecting |

Commands run on tasks of their own and in any order; a task can be preempted
between any two steps that another thread can see, because the runtime has four
workers (`engine.rs:125-133`). The interface is one thread and hears events in
the order they were emitted. This is where the behaviour is hard: what is read
from a registry and used later, what is announced before it is done, what is
cancelled while it runs, answers that come late.

What each component has to get right:

- transfers: slots are neither lost nor made, nobody waits in a circle, an end
  is told once and truly, a batch ends with the folder listed again;
- navigation: the folder asked for last is the one shown, an answer that was
  overtaken changes nothing, the window does not go on waiting;
- queue: a row ends as its transfer did, what is cleared has ended;
- connecting: a connection belongs to the window that asked, or to nobody and is
  closed; a question is asked by one window and answered in the end;
- uploading and moving: no file is handed over before its folder is there, a
  drop that says it is done brought everything, names that are taken are never
  written over unasked; a deletion that says it is done took everything away;
- the list of a window: it ends as the server is, nothing looks as though it
  were going for good, what is deleted is what was picked;
- destinations: each does what the provider in memory does, a renaming loses
  nothing, a long listing overlooks nothing;
- parts: every part is sent once or the whole is given up, the memory stays
  within its budget;
- FTP and SFTP: every answer is read by the command it answers, blocks that
  arrive in any order make the file;
- files on disk: a change is not lost to another change or to a crash; nobody
  signs in to a host whose key nobody accepted; every key on offer is tried.

## Modules

### Transfers and TransferLife

`Transfers` is `Running::start`, `still_working` and `cancel`. A transfer is one
task; an action is one stretch of its code between two points at which another
thread can be seen to act: an `await`, or a lock taken or released.

| code (`engine.rs`) | actions |
|---|---|
| 1087-1089, the event and the spawn | `Start` |
| 1120, the entry in the registry | `Book` |
| 1090-1094, a slot of each connection | `Acquire`, `Queue`, `Granted` |
| 1096-1104, the work | `Work`, `Progress`, `Land` |
| 1106, out of the registry | `Deregister` |
| 1107, the event | `Report` |
| 1109-1115, list the folder again? | `LeaveFolder`, `WantFolder` |
| 583-611, as far as it concerns a transfer | `BeginListing`, `NoSuchSession`, `EndListing` |
| 1134-1139 | `Cancel`, and `Drop` when the abort takes hold |
| 565-579 | `Disconnect` |

`held`, `permits` and `line` are Tokio's fair semaphore; `running` is the
registry; `told` is what the interface was told. `dirty` and `early` are history:
the files that landed on a connection since it last began to list, and the
transfers that left the registry before their spawner had put them there.
Cancelling aborts the task, which takes effect at an await, so every step of a
task stays enabled after the abort and `Drop` competes with them.

`TransferLife` is the promise in four states: absent, waiting, moving, over. A
transfer moves only while every connection it occupies has room. `Transfers`
implements it (`KeepsItsPromise`) with `Stage` as the refinement mapping.

### TransferQueue

The queue window on top of `Transfers`: `add`, `advance`, `finish`,
`clear_finished` and the Cancel button of `transfers.rs`. A row depends on its
own transfer's events alone, so the one channel is `told[t]` read up to
`read[t]`. A click is a command that is handled some time later.

### Navigation

`Session` and the commands that list: `open`, `refresh`, `create_folder` and
`set_permissions` (which refresh), `rename` and `delete` (which open the folder
they began in), with the window's `shown` and `busy`. The check that a navigation
is current, the move and the event are three actions, as they are three locks.
`asks`, `wanted`, `refused`, `late` and `orderly` are history, for the properties
to speak of.

### Connecting

Opening a connection, changing its credentials and closing it, the registry of
sessions, the questions all that asks and the windows that answer. The engine
keeps one name for an attempt and the session that comes of it
(`Attempt::session`), and so does the module.

| code | actions |
|---|---|
| `window.rs:380-420`, what a person asks for | `ConnectTo`, `ChangeCredentials`, `Upload`, `Disconnect` |
| `window.rs:266-281`, `event.rs:265-272` | `Close`: the questions in line are declined as they are dropped |
| `window.rs:796-857` | `Ours`, `HearAsk`, `Reply` |
| `engine.rs:250-298`, `connect` | `EmitConnecting`, `SignedIn`, `Register`, `Fail` |
| `engine.rs:451-563`, secrets | `BeginChange`, `FindStore`, `FindSecret`, `Passphrase`, `WrongPassphrase`, `Declined`, `SecretGiven`, `KeyPassphrase` |
| `trust.rs:26-76`, a host's key | `Dial`, `HostKeyAccepted` |
| `engine.rs:858-942`, a name already taken | `BeginUpload`, `OverwriteAnswered` |
| `engine.rs:565-579` | `RunDisconnect`, `Gone` |
| `screen.rs:163-236` | `HearConnecting`, `HearConnected`, `HearFailed`, `HearDisconnected` |

A task that has asked a question is in a phase named after it; an answer is
there until the task wakes up and takes it. What a server says (that the key is
unknown, that the secret is wrong, that it is well) and whether a secret is on
file are choices. Events go to every window in the order they were emitted.

### Parts

Large files over S3 and Azure, which go up as parts and come down as pieces,
several at once, and copies, which are an upload that reads a download. Each is
a *flow*. A flow runs only when it is polled: an upload by its task, a download
by whoever reads it, which for a copy is the upload and only while it is reading
its next part. That is what makes the order in which `in_pieces` waits matter.

| code | actions |
|---|---|
| `parts.rs:58-90`, `Budget` | `Hold` (takes the room, or a place in line), `Grant` |
| `s3.rs:340-378`, `azure/mod.rs:251-285` | `Open`, `OpenFails`, `HandOnFirst` |
| `parts.rs:323-370`, `in_pieces` | `Ask`, `Fetch`, `HandOn` |
| `engine.rs:1296-1330`, `bring_down` | `BreakOff`, `Written` |
| `s3.rs:226-244` | `Begin`, `BeginFails` |
| `parts.rs:16-31, 107-118`, the next part | `Send`, `NothingLeft`, `ReadFails` |
| `stream.rs:101-134`, `parts.rs:152-180` | `Count` |
| `parts.rs:286-311`, `sent_part` | `Lands`, `Fails`, `Again` |
| `parts.rs:264-278` | `ComesBack`, `Settled` |
| `s3.rs:248-283`, `azure/mod.rs:459-483` | `Finish`, `Abort` |
| `engine.rs:1134` | `CancelUpload`, `CancelDownload`: the task and all it holds are dropped |

`PartSize` is `part_size` with its constants as parameters, and `RoomFor` the
clamp of `Budget::hold`. `length` is how long a file is, `listed` how long the
listing said, and `size` how long it is taken to be: a download learns it from the
first answer, where the store states it (`said`), and goes by the listing where it
does not. A store that does not state it and listed the file too long gives too
few bytes, which fails; one that listed it too short cuts it off, and the code
calls that done. `ArrivesWhole` names that case. A part is counted onto the
wire as one slice, and a local file is as long as it was when it was dropped.

### Trees

Dropping files and folders (`upload`, `carry_across`, `download`) and deleting
them. A drop decides what travels and under which name; what it hands over are
the transfers of `Transfers`. Drops and deletions run side by side over one
tree, and every request may be refused.

| code | actions |
|---|---|
| `engine.rs:864-877, 724-733`, the names already there | `ReadFolder`, `CannotRead` |
| `engine.rs:879-912`, each of what is dragged | `LookAtNext`, `HasNoName`, `Arrive` |
| `engine.rs:917-943`, `arriving_as`, `beside` | `Replace`, `KeepBoth`, `Skip`, `SkipAskingAgain` |
| `engine.rs:744-749, 973-981`, is it a folder? | `Stat`, `CannotStat`, `LookedAtAll` |
| `engine.rs:769-842`, `spread` and `mirror` | `Take`, `Make`, `List`, `Break`, `WalkEnds` |
| `engine.rs:957-1026`, `plan` and `children_of` | the same, with `Make` on this machine |
| `engine.rs:844-856`, `provider.rs:135-146` | `BeginNext`, `LookInside`, `Descend`, `TakeAway`, `CannotDelete`, `DeletedAll` |

A name is a sequence, the name proper and the numbers Keep Both put after it. The
folders in the air (`walking`) are at most `FoldersAtOnce`, each making its
folder and then listing. `found`, `brought`, `handed` and `gone` record what the
properties speak of.

### Tree, Memory, Answers and Stores

`Tree` is what a destination keeps, a function from keys to contents, with what
`memory.rs` makes of each operation and when it takes it. `Memory` is that
provider as a specification: every operation one step, and one that is refused
changes nothing. It is what `conformance.rs` holds every provider to.

`Stores` is S3, Azure, WebDAV and SFTP (`make` says which) as two tasks see them,
one request at a time.

| code | actions |
|---|---|
| `s3.rs:784-819`, `azure/mod.rs:610-786`, what is it? | `HeadFile`, `HeadNothing`, `Probe`; SFTP's `StatOne` |
| `s3.rs:156-185`, `azure/mod.rs:323-396`, every key under a prefix | `Page` |
| `s3.rs:592-637`, `azure/mod.rs:583-608`, a listing | `LeafPage` |
| `s3.rs:821-862`, `azure/mod.rs:288-321, 788-830`, renaming | `Copy`, `CopyFails`, `AllCopied` |
| `s3.rs:187-215`, `azure/mod.rs:732-764` | `DeleteSome`, `DeleteFails`, `AllDeleted` |
| `sftp.rs:272-289` | `Truncate`, `Fill` |
| `webdav.rs:203-340` and every other single request | `Send` |
| `engine.rs:633-665`, a folder into itself | `RefuseInside` |

`Answers` is how the two XML documents are read, WebDAV's multistatus and
Azure's listing: `parse_multistatus` and `parse_listing` as recursive functions
over the events of the document, with the elements the code does not ask for among them. What
`Stores` lists over WebDAV and Azure has been through them. A name is a text, or, if it
has an entity such as `&amp;` in it (`AfterReference` says which have, and how they
go on behind the last), a text, a reference and another text: the reader parts the
text there, and both functions keep the last piece. What they make of such a name is
stated by `AsRead` and `AsFound` in the theorems, and by `ReferencesAreLost` in
`MCStores`; the keys of `Stores` are plain (`NamesArePlain`).

`seen` is what a person sees who does one thing after another, `apart` says
whether they still do; `M!Spec` with `tree <- seen` is the refinement. `stood`
(what has not changed since an operation began), `meant` (what a renaming listed
to move), `spared`, `excused` and `astray` (what a renaming took away from where
it had copied nothing) are history.

### Ftp and Carry

`Ftp` is the one control connection. An operation is a script (`Script`) of
commands to say and answers to read; it waits for the lock, and its task may be
dropped at any of its waits. Answers bear no name, so an answer left unread is
read by the next.

| code (`ftp.rs`) | actions |
|---|---|
| the lock in every operation | `Begin`, `Got`, `Release` |
| 139-255 | `Say`, `Hear`, `Close`, `Transferred`, `Again` |
| 205-225, an upload that fails | `LeaveUnread`, `End` |
| 356-388, a download let go of | `BreakOff`, `StartAborting`, `Aborted` |
| `engine.rs:1134-1139` | `DropInLine`, `DropWaiting`, `DropMoving` |

`Carry` extends it with a file that travels between an SFTP server and this one
(`engine.rs:1255-1294`): `read_ahead` with its handles (`AskAhead`,
`SftpAnswers`, `HandOn`, `ReadFails`) feeding an FTP upload, or an FTP download
(`Chunk`, `DownloadEnds`, `DownloadBreaks`) feeding `in_whole_packets`
(`FirstPacket`, `WholePacket`, `Leftover`, `WriteFails`).

### Ssh and Disk

`Ssh` is what `~/.ssh/config` and `known_hosts` say: `matches` (the globbing,
with its going back to the last star), `host_matches`, `parse`, `Reached`,
`identities`, `agent`, `matches_host` over plain and hashed names, `verdict` and
`remember`. They are operators, folds or recursive functions.
`EveryKeyIsTried` compares them with its own reading of the file (`AppliesInSsh`,
which is that of ssh, less `PassedOver`, what the code passes over).

`Disk` extends it with the files on this machine: the list of connections, the
file of secrets and `known_hosts`, shared by launches of the application that
may end at any moment.

| code | actions |
|---|---|
| `store.rs`, `config.rs:30-93`, `connections.rs:51-198` | `Launch`, `Exit`, `Add`, `Change`, `Forget`, `Saved` |
| `secrets.rs:120-176`, `engine.rs:474-497` | `Unlock`, `AlreadyOpen`, `GiveUp` |
| `secrets.rs:178-291` | `Serialise`, `Empty`, `Write`, `WriteFails`, `Store` |
| `engine.rs:499-545` | `LookUp`, `GetSecret`, `Answer` |
| `trust.rs:16-101` | `Dial`, `Accept` |
| `sftp.rs:328-393, 566-733` | `SignIn`, `Offer` |

A file is emptied and then written, so a process that ends in between leaves it
torn. `wanted`, `given`, `chosen` (the passphrases that new files of secrets were made
with), `agreed`, `accepted` and `tried` are what people and servers said; `troubled` names the files one process wrote knowing less than
another, or left torn.

### Screen

The rows of a window on top of `Navigation`, with a server that holds files,
uploads of which the last of a batch has the folder listed, and the gestures.

| code | actions |
|---|---|
| `window.rs:472-498` | `Browse`, `Reload` |
| `window.rs:695-720, 512-517` | `Pick`, `RemoveFiles` |
| `window.rs:535-601` | `MoveInto` |
| `engine.rs:581-631, 667-706, 844-856` | `Begin`, `Made`, `Failed`, `SetOut`, `Listed`, `GetOn`, `Complain`, `ShowListing` |
| `engine.rs:1083-1107, 1120` | `StartUpload`, `Land` (with leaving the registry), `ReportUpload` |
| `engine.rs:1109-1118, 1126-1132` | `Relist`, `LeaveToOthers`, `StillWorking` |
| `engine.rs:1134-1139` | `CallOff`, and `Remain`, what the server kept of it |
| `file_list.rs:397-504`, `screen.rs:177-270` | `Replace`, `SetBusy`, `Expect`, `Arrived`, `HearFailed` |

An upload is in the registry (`InFlight`) while it is at its work. Downloads are in it
too, and change nothing else here, so `LeaveToOthers` may find one at any
moment. `overlooked` is history: the uploads begun by the time one was called off, or
ended beside a download, until a command is sent or an upload relists. That an
upload enters the registry after its task is spawned, and that it may be called off
between its work and leaving the registry, is in `Transfers`.
With the names taken out it is `Navigation` again, and `KeepsToNavigation` says so.

### Details

The panel about one file: what it asks (`Share`, `OpenRow`, `Reshare`, `Permit`,
`CopySigned`), what the destination knows (`visibility`, `served`, `stored`,
`ownership`, `link_target` and the rest), the engine's answers in any order
(`Describe`, `ReadBack`, `Change`, `SignLink`, `SetPermissions`, `Refuse`) and
what the screen keeps of them (`Keep`, `Redraw`).

## What the runs check

| run | expects | shows |
|---|---|---|
| `transfers_crossing` | pass | slots conserved, no circular wait, the last of a batch redraws, ends are told once, `TransferLife` refined, every transfer ends, with two files crossing between two connections of one slot and an upload in between |
| `queue` | pass | rows tell the outcome and settle |
| `connecting` | pass | one window asks, nobody waits for nothing, no session is shown twice, only what slipped through lingers, everything asked for ends |
| `parts` | pass | files arrive whole (but one that the store listed too short and never said the length of), the bar is true, nothing is put together too early, everything ends |
| `trees` | pass | no file before its folder, a drop that is done is complete, nothing is replaced unasked, what is deleted is gone, every drop ends |
| `stores` | pass | a renaming loses nothing, listings and deletions overlook nothing, every destination is the provider in memory to who does one thing after another |
| `carry` | pass | the conversation stays in step as long as nobody leaves an answer unread, what is carried is whole, packets are whole, everybody ends |
| `disk` | pass | the list and the secrets survive, unless cut off or written by two at once; no passphrase but one that was chosen ever seals them; no key is trusted unasked; every key file named in a block for the host is tried |
| `screen` | pass | late answers are dropped, waiting ends, orderly commands end where asked; the list ends true but for uploads nobody listed for, departures end, what is deleted was picked there, and `Navigation` is refined |
| `parts_hang` | violation | a download of large pieces waits for room it holds itself |
| `details_shared` | violation | what was asked about one file is shown on the panel of another |
| `stores_up` | violation | a folder moved up onto the outer one of its name is copied, and deleted with what was copied |

**Bounds.** Two connections are what a transfer can occupy, and three transfers
are a pair that cross and a third to stand in line. One slot each makes every
slot contended. `MaxNews` caps the progress a transfer reports: one report is
enough to come too early, in time or too late, of one of the three where two
others are in its way, of each in the queue. 
In `Connecting` two windows and two attempts let one attempt replace another in
a window, or be the other window's; the upload is a third that asks. One wrong
passphrase (`MaxWrong`) is one more question. The first attempt is made in the
first window, which loses nothing, for the windows are alike.

In `Parts` a megabyte is two bytes, the budget four megabytes, two parts may be
in the air and a store takes two or three. So a part can be smaller than, half
of, or larger than the budget; a file has a short last part or none; it is cut by
the preference or by the store's limit; what was listed is shorter or longer than
what is there, and the store states the length or does not. `Together` names which flows go side by side: a download and an
upload, a download and a copy out of the same store, and the upload that is
larger than the budget. More at once would wait for each other as `parts_hang`
does, which the run `parts` is not about. `parts_hang` has four in the air, as
the code has, and pieces of half the budget, the largest `part_size` prefers.

In `Trees` the dragged folder holds a file, a folder with a file in it and an
empty folder, two deep and so with two listings in the air (`FoldersAtOnce`),
while the inner folder is being deleted; the upload brings two files of one name,
one of them taken. In `Stores` pages, batches and copies hold two, so that the
folder of marker and two files needs a second of each; its pairs of operations
are those that meet in one folder or move one into the other; `stores_up` is one
renaming by itself, of three folders of one name inside one another. In `Carry` the file
is a unit shorter than, as long as and a unit longer than listed; a read is one
unit and a chunk of a download two, a packet three at most, of which the server
takes none or two at first. In `Disk` three commands are given (`MaxCommands`),
edits of the list and attempts at connecting in any mixture, so that two launches
may edit what they have read at different times, and one process ends
(`MaxEnds`); two attempts are made by one process, side by side or before and
after it was ended and launched again. The host's name
has three letters, which is what a pattern with a star and a letter after it
needs to have to go back; `MatchesIsGlobbing` compares `matches` with its
definition for all patterns of up to four characters. In `Screen`, which is
also where `Navigation` is checked, there are two folders, two commands of a person and
two uploads into one folder, which end with a third command. Of commands and
uploads three may be begun (`InAll`), two at once (`AtOnce`), and two events
unheard (`Backlog`): one to be late, one to overtake it; the third then reads, or lists,
what they have come to. So the two uploads may end in either order, one of them
called off or beside a download, with a command before, between or after them. In `Details` three questions (`MaxAsked`) are those of a panel
and one of the next.

Larger instances were run once, with the same outcome, and are too slow to keep:
`Backlog` of three; `Navigation` by itself with all three of its
commands in hand; reads of three units, three of them ahead;
`MaxWrong` of two; six parts; three folders at once; pages and batches of one; and
in `Disk` attempts in two processes of which both end.

**Fairness.** The runtime polls a task that is ready, a provider answers in the
end (its own time-outs see to that), an aborted task is dropped, and the main
loop delivers what is idle: weak fairness of each step of a task and of the
interface. Nobody has to start, cancel, clear or disconnect. In `Connecting` a
person who is asked answers in the end, or closes the window. In `Parts` the
only assumption is that something is done while anything can be
(`WF_vars(Work)`): every retry, part and byte is bounded by the code itself, so
this is enough for everything to end, unless it waits for good. In `Trees` the
engine's tasks go on, but nobody has to answer a question, and in `Carry` nobody
has to begin or to drop anything.

**Deadlock** is not checked: every one of these systems may stop when all its
transfers or commands are done.

## What is proved

For all sets of transfers, connections and commands, any slots and any folders:

- `Typing` in `Transfers`, `Navigation` and `Connecting`, `STyping` in `Screen`.
- `SlotsAreConserved`: what `TakeSlot` takes `LetGo` gives back, by cardinality
  of the holders.
- `NoWaitIsCircular`: by `HeldInOrder` (what a transfer holds comes before what
  it still needs). Of a set that waits in a circle take the one that waits for
  the greatest session: who holds that waits for a greater one still.
- `RegistryHoldsWhatIsInFlight` and `TheLastOneRedraws`: by `BookedBefore`. A
  transfer that leaves the folder alone saw another in the registry, which is
  still in flight and will come to the same question.
- `TheEndIsToldOnce`: by `NothingFinalYet`.
- `StartKeepsItsPromise`: `Transfers` implements `TransferLife`; a slot in hand
  is room on the connection.
- `QueueKeepsTheEngine`: what the queue window does is a command to the engine or
  nothing to it, so all of the above holds with the queue beside.
- `RowsAlwaysTellTheOutcome`: the last that is told of a transfer is how it
  ended, and a row that has heard everything has heard that; only one that was
  called off may have heard something after.
- `TokensAlwaysDiffer`, `LateAnswersAreAlwaysDropped`: a token is never above
  the counter, and one below it stays below.
- `WaitingAlwaysEnds`: the last that was said of waiting, heard or on its way,
  says that the window waits only while a listing is out.
- `OrderlyAlwaysEndsWhereAsked`: by `AsksInv` and `OrderlyInv`. What is wanted is
  what the last open asked for; as long as the commands keep out of one another's
  way and none is refused, tokens are taken in the order of asking, every command
  lists the folder that was wanted when it was given, the connection is where the
  newest token went, and the last listing on its way to the window says so.
- `DeparturesAlwaysEnd`: by `Departing`. While a row looks as though it were going
  there is a command that has not set out, or the newest, or news that brings
  the row back.
- `AlwaysDeletedWherePicked`: by `Picked`. From picking to acting nobody else has
  moved the connection; it rests on `Follows`, what path and window
  agree on while nothing is under way.
- `ListAlwaysEndsTrue`: by four invariants. `Seen`: what the newest command read is
  what the server has, but for those that nobody has listed for yet (`Behind`: the
  overlooked and, while one of them is at its work or has yet to look whether it is the
  last, all that were begun), or somebody will read it again. `Shows`: what the list shows,
  or will when it has heard everything, is what the newest read. `Stands`: a row that
  stands in for an upload goes when the end of it is heard. `Settles`: the listing that
  a batch owes comes behind the ends of all its uploads, but for those in `Behind`.
- `WindowsKeepToNavigation`: `Screen` implements the `Navigation` of a `Folder`. The
  mapping sifts the news, and what is sifted of a queue that grows or is heard
  from (`SiftedAppend`, `SiftedHead`) is an induction over its length.

- `SessionsAreNeverShared`: by `Apart`. An attempt is one window's, and news of
  it concerns no other.
- `OneWindowAlwaysAsks`, `NobodyEverWaitsForNothing`: by `Orderly`. A question
  is either on its way to the windows, or in line in one window, or has its
  answer, and while a task waits one of the three holds. `Works` says once what
  the steps of tasks have in common.
- `OnlyTheSlippedEverLinger`: by `Kept`. Of a connection that is in the registry
  the news is still on its way to a window that waits for it, or a window shows
  it, or a command to close it is on its way, or it has slipped: its window
  turned away before it heard. The property leaves the last out, and the code
  does not close it (see below).
- `PartSizeIsTaken`: no object a store can hold is cut into too many parts or
  too large ones, for any budget; from `CeilEnough` and `CeilLeast`, what
  rounding up does.
- `FilesAlwaysArriveWhole`: by `Chains`. What has come out of a flow followed by
  what is in the air is the file up to where the next part begins, in order; a
  copy has read as far as its source has handed on. An end with nothing refused
  and nothing in the air is then as much as the size it was taken for, which is the
  length unless the store never stated it (`Real`); and what landed beyond the end of
  a file listed too long has failed.
- `PartsAreAlwaysSettledFirst`: `Settled` alone ends the sending of parts.
- `BarIsAlwaysTrue`: by `Bars`. A sum over the parts in the air would need
  induction; instead a ledger says which bytes of the file are not counted yet,
  and every step takes from it what it counts. No part is counted twice, by
  whatever way it is tried again.
- `FoldersComeFirst`: by `MadeBefore`. It is not enough to speak of what was
  handed over: what waits in a walk's queue must come out of a folder that is
  there, and a listing of a folder must not begin before it is.
- `WhatIsDeletedIsGone`: by `GoneInv`. What is below a folder on the stack of a
  deletion is gone, or among what is left to look at in it or in a folder further
  up the stack; so nothing is left when the folder itself goes.
- `DoneIsAlwaysComplete`: by `OnceInv` and `AllAccounted`. Nothing a walk has in
  hand lies below another thing it has in hand, so none is looked at twice and a
  failure is one's own; and of everything that comes of what was dragged it is
  delivered, or on its way, or being asked about.
- `NamesAreAskedAbout`: by `NamesKept`. Every name that was found or brought is
  among those the drop takes to be in use, and only a name outside them arrives
  without a question. `BesideIsFree` is why Keep Both ends: of more numbers than
  names in use one makes a free name (a pigeonhole), and one of those is least.
- `TheListIsOnDisk`: by `WriterKnows`. Until somebody has written unknowingly,
  whoever is in the middle of writing is alone in it and has in memory what
  people want.
- `SecretsAlwaysSurvive`: by `OpenedOnce` and `AllIsKept`. One attempt opens the
  file in a process and the others wait for it; until somebody has written beside
  another or was cut off, one attempt writes at most, what it is about to write
  is what was given, and so is what the one process that has the file open has
  in memory. A file that nobody is writing then holds it too. That it is sealed as
  somebody chose, however it was written or torn, is `PassphraseInv`: a key only comes
  from a file there was not yet, or out of the file it opens.
- `AlwaysInStep`: by `FtpInv`. Whoever has the control connection reads what was
  said by whoever had it before to the end: while nobody has left an answer
  unread, what is on the wire is the one answer to the one command in hand, and
  nobody is owed another. Once one is left unread nothing is claimed.
- `AlwaysCarriedWhole` (of transfers that read their own answers, and over SFTP as
  far as the listing said), `PacketsAreAlwaysWhole`: by `CarryInv`. Reads are asked for
  one after another up to the length that is known; what has come, with what is in
  the air and what the packer holds back, is the file up to there in order; all
  packets are full until the last is cut.
- `NothingIsEverLost`: by `Kept`. What a file held stands under some key of which
  no renaming says that it has copied it, or is on its way to be written, or it is
  excused; a renaming takes away only what it says it has copied, and that has a
  copy (`Pending`, `Safe`). For object stores that is per key; of the others a
  renaming is one step, which `WellFormed` trees survive.
- `NothingIsEverOverlooked`: by `Seen`. Of what has stood since an operation began,
  everything that comes before the cursor has been named: a page takes all that
  comes before where it ends (`PageNames`), and the last page takes the rest.
- `AzureIsUnderstood`: `parse_listing` makes of the document of any finite answer
  what the answer was, each name as it is if it has no entity, and otherwise what is
  behind its last (`AsRead`). An element is read in a state that remembers nothing of
  the element before it (`Flat` runs of them come in any order), so the walk
  over the document is an induction over the number of elements read.
- `DavIsUnderstood`: so it is for `parse_multistatus`, and for both of the ways a
  server may write a response, in full or short (`AsFound`). The two readers share what is
  said of reading elements one after another (`Reads`).
- `EveryDestinationIsTheMemory`: `Stores` implements `Memory`, for any destination.
  While nobody has come between, what is kept is the tree as it is seen but for what
  the one operation under way has done of its work, copied so far and deleted so
  far (`Stage`, `OneByOne`); its last step makes of that what the provider in memory
  makes of it at once (`Outcome`). It needs that renaming keeps files and folders
  apart (`OneOfEachMoved`), that nothing is copied below what is moved
  (`WhereItGoes`), and that pages and multistatus list what `Listed` names
  (`EntriesAreListed`, `DavListsIt`). It is proved for a tree that is well-formed
  at first: with files in folders that have no marker an object store says
  something else than the memory from the start.
- `EveryKeyIsAlwaysTried`: by `OfferInv`. Whoever is offering keys has tried, or has
  still to offer, every key file that is due there. What is due are the files that
  `~/.ssh/config` names in a block for the host (`ParsedWell`, an induction over its
  lines: which block a line is in, and what was named so far) as far as they are
  there and want no passphrase (`OnlyThose`, an induction over a sequence). Lines
  before the first `Host` are not due, which ssh would say they are.
- `NoKeyIsTakenUnasked`: `Remembering` only ever adds a line at the end, so what
  an attempt was let in by stays on file.

The assumptions are those of the modules (`TransfersAssumption` and the like):
connections have at least one slot, flows belong to connections, a copy reads one
download and a download is read by one copy. `TreesAssumption` has finitely many
things to drag and names in a folder, and a name that a number can be put after;
`ForestAssumption` says that what lies below something lies in a folder, that a
thing is dragged once, and on a server not together with what is in it, for it
is picked from one list (an upload is not looked into, so there it may be);
`CarryAssumption` has lengths that are numbers and reads, chunks and packets of
some length; `ScreenAssumption` gives every upload the folder, the name and the
listing that it has;
`StoresAssumption` has the keys in an order that names each once, the folder of every
key among the keys, and where a folder may be renamed to, room for what is in it;
an object store may start with anything, the others with a well-formed tree;
`DiskAssumption` tells `None` from a passphrase and from a file that is not there,
which is how a torn file differs from a missing one, and has the lines of
`~/.ssh/config` and the usual key files in finite sequences; `AgentAssumption` says of
every agent that may be asked what it holds.

Only model-checked:

- liveness (`RowsSettle` and the others), which the prover does not do;
- the budget of `Parts`: the room that is held is a sum over whoever holds it, and
  no run states a property of it but that everything ends;
- `matches`, which `MCDisk` compares with a definition of globbing on short names;
- everything of `Details`.

No safety property of a passing run is left without a theorem.

## What the code does not do

The three violations are in `PROJECT.json` (`findings`), each with the line that
says otherwise. Met on the way and modelled, without a run of their own; the
properties leave exactly these cases out, and say so where they are stated.

Transfers, windows and the list:

- An upload that lands while a download of the same connection runs is not
  listed for, nor are those before it that left the listing to it: the registry it
  looks into holds downloads too (`engine.rs:1109-1115`). The file is there and not in
  the list, or its row stays, until something else is asked for.
- A task that ends before it is entered in the registry stays there
  (`engine.rs:1120`).
- Late progress makes the row of a cancelled transfer run again
  (`transfers.rs:115`).
- A refresh reads the folder before it takes its token, so it may overtake an
  open and leave the window where it was (`engine.rs:584`).
- A window that is closed while it connects leaves a session that nobody will
  close (`window.rs:266`); so does one that turns to changing credentials
  (`window.rs:408`).
- A task is aborted at its next await. One whose work has just returned goes on
  to tell that it is done, after `cancel` has told that it was called off, with
  the file on the server (`engine.rs:1134`).
- A store that was opened in the meantime is asked for its passphrase again:
  two attempts at once may both ask, although `secrets.rs:122` says "once per
  session".
- Not only one download of large pieces waits for itself: so do six or more at
  once with pieces of eight megabytes, and two copies in opposite directions
  between two connections, for each holds room that only its own next poll would
  give back (`parts.rs:353`).
- An upload that S3 does not put together, or that is called off, leaves its
  parts with the store, although a failed upload "cleans up after itself"
  (`s3.rs:254`): only a part that failed has the rest thrown away.
- A transfer that is called off redraws nothing (`engine.rs:1134`): when the last
  of a batch is called off the files before it are not listed for, and its own row
  stays as landed (`file_list.rs:457`) whatever the server kept of it.
- Leaving the registry and looking whether it is empty are two steps, so two
  uploads may both list the folder (`engine.rs:1106-1111`).
- A cancellation handled between `TransferAdded` and the entry in the registry
  finds nothing and is forgotten (`engine.rs:1087-1120`).
- Of two folders opened in quick succession the first may win, for tokens are
  taken on the commands' own tasks (`engine.rs:591`); and a renaming or deletion
  opens the folder it began in, from wherever the person has gone since
  (`engine.rs:630`).
- A deletion confirmed while a listing is on its way deletes those names in the
  folder the connection is in by then (`engine.rs:847`).
- `empty` does not clear what is on its way out, and a late listing may bring a
  row back for a moment (`file_list.rs:404`).
- A link is copied for whichever file is signed last, and what a panel said of
  why it could not share is not cleared when the next opens
  (`details.rs:397-406`). Two ticks of a mode, or two throws of the switch, are
  two tasks, and the older may be applied last.
- `Progress::add` reports after letting its lock go, so of two parts counted at
  once the smaller sum may be reported last (`stream.rs:101`).

Drops and deletions:

- A folder of this machine that is dragged in is handed over as one file, whose
  reading fails.
- `mirror` takes a folder that is already there for well made only if the
  provider says so; SFTP's answer is a general failure.
- Downloads write over what is on this machine without asking, and two drops
  into one folder do not see each other's names (`engine.rs:887`).

Destinations:

- S3 and Azure let a renaming write over what is there. What S3 refuses to
  delete among a batch is not looked at (`s3.rs:207`). Azure's renaming deletes
  by listing once more, so what was written meanwhile goes too
  (`azure/mod.rs:788-830`), and with it what the renaming itself has put under the
  old name: moving `x/x` up to `x` loses `x/x/x/f` (the run `stores_up`). S3 takes any failing `HEAD` for there being no object.
- An object store lists a folder that is not there as empty, and WebDAV a file.
- Where S3 or Azure answers a range without saying how long the object is, a download
  goes by the listing (`s3.rs:356`, `azure/mod.rs:264`, `parts.rs:371-380`). If that was too
  short, the file is cut off there and the transfer is done, though "what the store says
  about the length beats what the caller was told" (`s3.rs:345-347`) and Azure's
  comment says that a stale size cannot cut it off (`azure/mod.rs:248-250`).
- The XML reader parts a text at an entity, and of the pieces of a name only the
  last is kept: a blob or a file called `a&b` is listed as `b`
  (`azure/mod.rs:886-898, 931`, `webdav.rs:443-456, 483`).
- `finish` dropped at its await leaves the closing answer unread
  (`ftp.rs:296-302`), and so does every upload and listing that is dropped or breaks
  off. The connection goes on being used, and the next command reads that answer for
  its own; an FTP download told done by a stray answer is not held to a length. A download
  over SFTP stops at the length that was listed.

On disk:

- Files are emptied and then written, by processes that do not look at one
  another: the list, and the secrets, of whoever writes last remain. A launch
  while another saves reads an empty list (`config.rs:73`), and its next save
  writes what it then has. Opening the
  file of secrets writes it. Two `set`s may write in the other order
  (`secrets.rs:213`).
- Forgetting a connection leaves its secret, and a new one of that name has its
  id and finds it (`config.rs:95`).
- "Reads the file the way `ssh` reads it" (`ssh_config.rs:31`) is not so of the lines
  of `~/.ssh/config` before the first `Host`: ssh applies them to every host, and
  `parse` begins with `applies = false` (`ssh_config.rs:38`), so a key named there is not
  tried.
- The passphrase of a key file is kept as it was typed, never asked for again,
  and cannot be changed.
- A host key that changed is asked about each time and never remembered; two
  attempts that ask side by side both remember, which may be two keys.

## Not modelled, and why

- **Widgets, formatting, icons, palettes, themes, key bindings, menus, dragging**
  (`browser.rs`, `view.rs`, `dialogs.rs`, `palette.rs` and others): they draw what
  the modules keep, and keep nothing themselves.
- **Following another connection, hidden files, sorting and selection** in
  `file_list.rs`: they change what is drawn of the rows, not what the rows are.
- **The system's keyring**: a service. `Disk` has the encrypted file.
- **Signing of requests and of links** (`azure/signing.rs`), **hashing**,
  **sealing**: a library's digests. `Ssh` and `Disk` have what they stand for.
- **Headers, dates, sizes and permissions in listings; parsing of FTP listings**:
  data that no property here tells apart.
- **PASV, TYPE and signing in over FTP**: folded into the command they precede.
- **What lands below the top of a drop**: nothing reads it again in `Trees`.
- **`remember` of a known_hosts whose last line does not end**: lines are whole
  in `Ssh`.
- **The watcher of theme files**: a library's events, debounced.
- **Subscribing to the bus**: every listener here listens for as long as the
  process runs.

## Order of work

Done: all of the above. What is left is liveness, which stays with the runs, and
the room of the budget.
