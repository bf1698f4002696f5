-------------------------------- MODULE Parts --------------------------------
(***************************************************************************)
(* Large files in parts (parts.rs): uploads to S3 and Azure that send      *)
(* several parts at once (each_part), downloads from them that ask for     *)
(* several pieces at once (in_pieces), and copies, which are an upload     *)
(* whose bytes are a download's.  All that goes over one connection draws  *)
(* the memory it holds from one Budget, a fair semaphore of megabytes.     *)
(*                                                                         *)
(* An upload and a download are a flow each, polled by the task of their   *)
(* transfer alone: a download that is copied moves only while the upload   *)
(* is reading.                                                             *)
(***************************************************************************)
EXTENDS Integers, Sequences, FiniteSets, Folds

CONSTANTS
    Connections,
    Uploads, Downloads,  \* the flows
    At,           \* the connection of each
    Source,       \* what an upload reads: a download, or a file
    File,
    Sizes,        \* how long each may be, and what the listing may have said
    Together,     \* which of them may be asked for together
    Total,        \* Budget::total, in megabytes
    InFlight,     \* IN_FLIGHT
    Megabyte,     \* PER_MEGABYTE
    PartsWanted,  \* PARTS_WANTED
    Limits,       \* what each store takes: smallest, largest, most
    TidiesUp      \* the connections whose uploads are begun, and aborted: S3

Flows == Uploads \cup Downloads

ASSUME PartsAssumption ==
    /\ Uploads \cap Downloads = {}
    /\ At \in [Flows -> Connections]
    /\ File \notin Downloads
    /\ Source \in [Uploads -> Downloads \cup {File}]
    /\ \A u, v \in Uploads : Source[u] = Source[v] => u = v \/ Source[u] = File
    /\ {Total, InFlight, Megabyte, PartsWanted} \subseteq Nat \ {0}
    /\ Limits \in [Connections -> [smallest : Nat \ {0}, largest : Nat \ {0},
                                   most : Nat \ {0}]]
    /\ Sizes \in [Flows -> SUBSET ((Nat \ {0}) \X (Nat \ {0}))]
    /\ TidiesUp \subseteq Connections
    /\ Together \subseteq SUBSET Flows

VARIABLES
    length,    \* how long the file is
    listed,    \* how long it was said to be
    said,      \* did the store say how long it is?
    size,      \* how long it is taken to be
    room,      \* Budget::room, the megabytes to be had
    line,      \* flows waiting for room
    phase,     \* how far the flow has got
    turn,      \* is it waiting for the next part's room, or holding it?
    offset,    \* where the next part begins
    gathered,  \* bytes of the next part read so far
    moving,    \* the parts or pieces in the air, FuturesOrdered
    done,      \* what has come out of it, in order
    reading,   \* each_part's reading
    refused,   \* each_part's refused
    counted,   \* Counted::transferred, in parts
    shown,     \* what the bar was last told
    stored     \* what the store has of the upload

files == <<length, listed, said, size>>
budget == <<room, line>>
flow == <<phase, turn, offset, moving, done>>
body == <<gathered, reading, refused>>
progress == <<counted, shown>>

vars == <<files, budget, flow, body, progress, stored>>

-----------------------------------------------------------------------------
(* How big a part is. *)

Least(m, n) == IF m < n THEN m ELSE n
Most(m, n) == IF m > n THEN m ELSE n

(* div_ceil *)
Ceil(m, n) == (m + n - 1) \div n

Clamp(n, low, high) == Most(low, Least(n, high))

LargestHeld == (Total * Megabyte) \div 2

InWholeMegabytes(bytes) == Ceil(bytes, Megabyte) * Megabyte

Comfortable(bytes, limits) ==
    Clamp(InWholeMegabytes(Ceil(bytes, PartsWanted)),
          Least(limits.smallest, LargestHeld), Least(limits.largest, LargestHeld))

(* part_size *)
PartSize(bytes, limits) ==
    Least(Most(Comfortable(bytes, limits), InWholeMegabytes(Ceil(bytes, limits.most))),
          limits.largest)

(* What a flow cuts its file into: a download goes by the listing. *)
Part(x) == PartSize(IF x \in Uploads THEN size[x] ELSE listed[x], Limits[At[x]])

(* Slip: room is asked for that there cannot be. *)
RoomUnbounded(bytes) == Ceil(bytes, Megabyte)

(* Budget::hold *)
RoomFor(bytes) == Clamp(Ceil(bytes, Megabyte), 1, Total)

PieceBytes(d) == Least(Part(d), size[d] - offset[d])

(* The room the next part takes. *)
Wanted(x) == RoomFor(IF x \in Uploads THEN Part(x) ELSE PieceBytes(x))

(* A part that is sent holds its room until it has been answered, and a    *)
(* piece until it has been handed on.                                      *)
RoomOf(x, part) ==
    IF x \in Downloads THEN RoomFor(part.bytes)
    ELSE IF part.result = "going" THEN RoomFor(Part(x)) ELSE 0

Sum(Value(_), S) == MapThenFoldSet(LAMBDA m, n : m + n, 0, Value,
                                   LAMBDA T : CHOOSE e \in T : TRUE, S)

Held(x) ==
    LET InTheAir(i) == RoomOf(x, moving[x][i])
    IN Sum(InTheAir, DOMAIN moving[x]) + (IF turn[x] = "held" THEN Wanted(x) ELSE 0)

-----------------------------------------------------------------------------

NewPart(from, bytes) ==
    [at |-> from, bytes |-> bytes, attempt |-> 1, wire |-> FALSE, result |-> "going"]

PartType ==
    [at : Nat, bytes : Nat, attempt : {1, 2}, wire : BOOLEAN,
     result : {"going", "landed", "failed"}]

Pieces == [at : Nat, bytes : Nat]

(* The uploads of local files, whose length is asked for when they are dropped. *)
FromFiles == {u \in Uploads : Source[u] = File}

Phases ==
    {"idle", "open", "sending", "finishing", "aborting", "done", "failed", "cancelled",
     "over"}

Init ==
    /\ \E sizes \in [Flows -> UNION {Sizes[x] : x \in Flows}] :
        /\ \A x \in Flows : sizes[x] \in Sizes[x]
        /\ \A u \in Uploads : Source[u] # File => sizes[u] = sizes[Source[u]]
        /\ length = [x \in Flows |-> sizes[x][1]]
        /\ listed = [x \in Flows |-> sizes[x][2]]
    /\ said = [d \in Downloads |-> FALSE]
    /\ size = [x \in Flows |-> IF x \in FromFiles THEN length[x] ELSE listed[x]]
    /\ room = [b \in Connections |-> Total]
    /\ line = [b \in Connections |-> <<>>]
    /\ \E flows \in Together :
        phase = [x \in Flows |-> IF x \in flows THEN "idle" ELSE "cancelled"]
    /\ turn = [x \in Flows |-> "idle"]
    /\ offset = [x \in Flows |-> 0]
    /\ gathered = [u \in Uploads |-> 0]
    /\ moving = [x \in Flows |-> <<>>]
    /\ done = [x \in Flows |-> <<>>]
    /\ reading = [u \in Uploads |-> TRUE]
    /\ refused = [u \in Uploads |-> FALSE]
    /\ counted = [u \in Uploads |-> 0]
    /\ shown = [u \in Uploads |-> 0]
    /\ stored = [u \in Uploads |-> "nothing"]

(* The upload that reads what the download hands on, if one does. *)
Reader(d) == {u \in Uploads : Source[u] = d}

Reads(u) == phase[u] = "sending" /\ reading[u] /\ turn[u] = "held"

(* Does anybody ask the download for more?  A file always does. *)
Polled(d) ==
    /\ phase[d] = "open"
    /\ \A u \in Reader(d) : Reads(u) /\ gathered[u] < Part(u)

(* The room, and the place in line, that flows give up as they are dropped. *)
Drop(flows) ==
    /\ room' = [b \in Connections |->
                    room[b] + Sum(Held, {x \in flows : At[x] = b})]
    /\ line' = [b \in Connections |-> SelectSeq(line[b], LAMBDA x : x \notin flows)]
    /\ turn' = [x \in Flows |-> IF x \in flows THEN "idle" ELSE turn[x]]
    /\ moving' = [x \in Flows |-> IF x \in flows THEN <<>> ELSE moving[x]]

-----------------------------------------------------------------------------
(* Room for the next part. *)

(* An upload looks for more as long as there is somewhere to put it. *)
UploadWantsRoom(u) ==
    /\ phase[u] = "sending"
    /\ reading[u]
    /\ Len(moving[u]) < InFlight

(* A download asks for all that may be in the air before it looks at what  *)
(* has come.  The first piece has been handed on by then.                  *)
DownloadWantsRoom(d) ==
    /\ Polled(d)
    /\ done[d] # <<>>
    /\ offset[d] < size[d]
    /\ Len(moving[d]) < InFlight

Hold(x) ==
    /\ turn[x] = "idle"
    /\ IF x \in Uploads THEN UploadWantsRoom(x) ELSE DownloadWantsRoom(x)
    /\ IF line[At[x]] = <<>> /\ room[At[x]] >= Wanted(x)
       THEN /\ room' = [room EXCEPT ![At[x]] = @ - Wanted(x)]
            /\ turn' = [turn EXCEPT ![x] = "held"]
            /\ UNCHANGED line
       ELSE /\ line' = [line EXCEPT ![At[x]] = Append(@, x)]
            /\ turn' = [turn EXCEPT ![x] = "line"]
            /\ UNCHANGED room
    /\ UNCHANGED <<files, phase, offset, moving, done, body, progress, stored>>

(* The semaphore serves whoever came first, polled or not. *)
Grant(b) ==
    /\ line[b] # <<>>
    /\ LET x == Head(line[b])
       IN /\ room[b] >= Wanted(x)
          /\ room' = [room EXCEPT ![b] = @ - Wanted(x)]
          /\ turn' = [turn EXCEPT ![x] = "held"]
    /\ line' = [line EXCEPT ![b] = Tail(@)]
    /\ UNCHANGED <<files, phase, offset, moving, done, body, progress, stored>>

-----------------------------------------------------------------------------
(* A download, in pieces. *)

(* The first piece is asked for alone.  The answer says how long the file  *)
(* is, or says `*`, and the listing is gone by (`first.total.unwrap_or`).  *)
(* Bytes that are missing are a hole, unless the answer says that the file *)
(* ends there.  A body that is copied is as long as it was taken to be.    *)
Open(d) ==
    /\ phase[d] = "idle"
    /\ phase' = [phase EXCEPT ![d] = "open"]
    /\ \E says \in BOOLEAN :
        LET due == Least(Part(d), listed[d])
            total == IF says THEN length[d] ELSE listed[d]
        IN /\ says \/ due <= length[d]
           /\ said' = [said EXCEPT ![d] = says]
           /\ size' = [x \in Flows |-> IF x \in {d} \cup Reader(d) THEN total ELSE size[x]]
           /\ offset' = [offset EXCEPT ![d] = Least(due, total)]
    /\ UNCHANGED <<length, listed, budget, turn, moving, done, body, progress, stored>>

(* The download fails, and the transfer with it. *)
OpenFails(d) ==
    /\ phase[d] = "idle"
    /\ phase' = [x \in Flows |-> IF x \in {d} \cup Reader(d) THEN "failed" ELSE phase[x]]
    /\ UNCHANGED <<files, budget, turn, offset, moving, done, body, progress, stored>>

Ask(d) ==
    /\ Polled(d)
    /\ done[d] # <<>>
    /\ turn[d] = "held"
    /\ moving' = [moving EXCEPT ![d] = Append(@, NewPart(offset[d], PieceBytes(d)))]
    /\ offset' = [offset EXCEPT ![d] = @ + PieceBytes(d)]
    /\ turn' = [turn EXCEPT ![d] = "idle"]
    /\ UNCHANGED <<files, budget, phase, done, body, progress, stored>>

(* All that may be asked for has been. *)
Asked(d) ==
    /\ Polled(d)
    /\ done[d] # <<>>
    /\ turn[d] = "idle"
    /\ offset[d] = size[d] \/ Len(moving[d]) = InFlight

(* A piece that lands has all the bytes that were asked for: a store that  *)
(* does not say how long the file is gives an error where it ends.         *)
Fetch(d, i) ==
    /\ Asked(d)
    /\ moving[d][i].result = "going"
    /\ \/ /\ moving[d][i].at + moving[d][i].bytes <= length[d]
          /\ moving' = [moving EXCEPT ![d][i].result = "landed"]
       \/ moving' = [moving EXCEPT ![d][i].result = "failed"]
    /\ UNCHANGED <<files, budget, phase, turn, offset, done, body, progress, stored>>

Came(part) == [at |-> part.at, bytes |-> part.bytes]

Give(d, part) ==
    /\ done' = [done EXCEPT ![d] = Append(@, Came(part))]
    /\ gathered' = [u \in Uploads |-> IF u \in Reader(d) THEN gathered[u] + part.bytes
                                      ELSE gathered[u]]

HandOnFirst(d) ==
    /\ Polled(d)
    /\ done[d] = <<>>
    /\ Give(d, [at |-> 0, bytes |-> offset[d]])
    /\ UNCHANGED <<files, budget, phase, turn, offset, moving, reading, refused, progress,
                   stored>>

Without(s, i) == SubSeq(s, 1, i - 1) \o SubSeq(s, i + 1, Len(s))

(* Slip: pieces are handed on as they land. *)
HandOnAny(d) ==
    /\ Asked(d)
    /\ \E i \in DOMAIN moving[d] :
        /\ moving[d][i].result = "landed"
        /\ moving' = [moving EXCEPT ![d] = Without(@, i)]
        /\ room' = [room EXCEPT ![At[d]] = @ + RoomOf(d, moving[d][i])]
        /\ Give(d, moving[d][i])
    /\ UNCHANGED <<files, line, phase, turn, offset, reading, refused, progress, stored>>

HandOn(d) ==
    /\ Asked(d)
    /\ moving[d] # <<>>
    /\ Head(moving[d]).result = "landed"
    /\ moving' = [moving EXCEPT ![d] = Tail(@)]
    /\ room' = [room EXCEPT ![At[d]] = @ + RoomOf(d, Head(moving[d]))]
    /\ Give(d, Head(moving[d]))
    /\ UNCHANGED <<files, line, phase, turn, offset, reading, refused, progress, stored>>

(* A piece that did not come breaks the file. *)
BreaksOff(d) ==
    /\ Asked(d)
    /\ moving[d] # <<>>
    /\ Head(moving[d]).result = "failed"

Ended(d) ==
    /\ Asked(d)
    /\ offset[d] = size[d]
    /\ moving[d] = <<>>

(* bring_down writes what comes to a file.  A piece did not come, or what  *)
(* came cannot be written.                                                 *)
BreakOff(d) ==
    /\ Reader(d) = {}
    /\ Asked(d)
    /\ moving[d] # <<>>
    /\ Head(moving[d]).result # "going"
    /\ Drop({d})
    /\ phase' = [phase EXCEPT ![d] = "failed"]
    /\ UNCHANGED <<files, offset, done, body, progress, stored>>

Written(d) ==
    /\ Reader(d) = {}
    /\ Ended(d)
    /\ phase' = [phase EXCEPT ![d] = "done"]
    /\ UNCHANGED <<files, budget, turn, offset, moving, done, body, progress, stored>>

-----------------------------------------------------------------------------
(* An upload, in parts. *)

(* A copy begins once its download has. *)
Begin(u) ==
    /\ phase[u] = "idle"
    /\ Source[u] # File => phase[Source[u]] = "open"
    /\ phase' = [phase EXCEPT ![u] = "sending"]
    /\ stored' = [stored EXCEPT ![u] = "parts"]
    /\ UNCHANGED <<files, budget, turn, offset, moving, done, body, progress>>

Belongs(u) == {u} \cup (Downloads \cap {Source[u]})

BeginFails(u) ==
    /\ phase[u] = "idle"
    /\ At[u] \in TidiesUp
    /\ Source[u] # File => phase[Source[u]] = "open"
    /\ phase' = [x \in Flows |-> IF x \in Belongs(u) THEN "failed" ELSE phase[x]]
    /\ Drop(Belongs(u))
    /\ UNCHANGED <<files, offset, done, body, progress, stored>>

(* A file is read as far as the part wants it. *)
Read(u) ==
    IF Source[u] = File THEN Least(Part(u), size[u] - offset[u]) ELSE gathered[u]

BodyEnds(u) ==
    IF Source[u] = File THEN offset[u] + Read(u) = size[u] ELSE Ended(Source[u])

(* next_part has a part, which is sent from now on, *)
Send(u) ==
    /\ Reads(u)
    /\ Read(u) > 0
    /\ Read(u) >= Part(u) \/ BodyEnds(u)
    /\ moving' = [moving EXCEPT ![u] = Append(@, NewPart(offset[u], Read(u)))]
    /\ offset' = [offset EXCEPT ![u] = @ + Read(u)]
    /\ gathered' = [gathered EXCEPT ![u] = 0]
    /\ turn' = [turn EXCEPT ![u] = "idle"]
    /\ UNCHANGED <<files, budget, phase, done, reading, refused, progress, stored>>

StopReading(u) ==
    /\ room' = [room EXCEPT ![At[u]] = @ + Wanted(u)]
    /\ turn' = [turn EXCEPT ![u] = "idle"]
    /\ reading' = [reading EXCEPT ![u] = FALSE]

(* or there is nothing left to send, *)
NothingLeft(u) ==
    /\ Reads(u)
    /\ Read(u) = 0
    /\ BodyEnds(u)
    /\ StopReading(u)
    /\ UNCHANGED <<files, line, phase, offset, moving, done, gathered, refused, progress,
                   stored>>

(* or the body cannot be read. *)
ReadFails(u) ==
    /\ Reads(u)
    /\ gathered[u] < Part(u)
    /\ Source[u] # File => BreaksOff(Source[u])
    /\ StopReading(u)
    /\ refused' = [refused EXCEPT ![u] = TRUE]
    /\ gathered' = [gathered EXCEPT ![u] = 0]
    /\ UNCHANGED <<files, line, phase, offset, moving, done, progress, stored>>

Going(u, i) == phase[u] = "sending" /\ moving[u][i].result = "going"

(* The part goes onto the wire and is counted.  What is counted is         *)
(* mentioned now and then, and certainly once it is the whole file.        *)
Count(u, i) ==
    /\ Going(u, i)
    /\ ~moving[u][i].wire
    /\ moving' = [moving EXCEPT ![u][i].wire = TRUE]
    /\ counted' = [counted EXCEPT ![u] = @ + moving[u][i].bytes]
    /\ \/ shown' = [shown EXCEPT ![u] = counted'[u]]
       \/ counted'[u] < size[u] /\ UNCHANGED shown
    /\ UNCHANGED <<files, budget, phase, turn, offset, done, body, stored>>

Settle(u, i, result) ==
    /\ moving' = [moving EXCEPT ![u][i].result = result]
    /\ room' = [room EXCEPT ![At[u]] = @ + RoomFor(Part(u))]
    /\ UNCHANGED <<files, line, phase, turn, offset, done, body, progress, stored>>

Lands(u, i) ==
    /\ Going(u, i)
    /\ moving[u][i].wire
    /\ Settle(u, i, "landed")

(* It fails for good, or for the second time. *)
Fails(u, i) ==
    /\ Going(u, i)
    /\ Settle(u, i, "failed")

(* Slip: what was counted is not taken back. *)
AgainUncounted(u, i) ==
    /\ Going(u, i)
    /\ moving[u][i].attempt = 1
    /\ moving' = [moving EXCEPT ![u][i].attempt = 2, ![u][i].wire = FALSE]
    /\ UNCHANGED <<files, budget, phase, turn, offset, done, body, progress, stored>>

(* It fails in a way that may not happen again, and is sent once more.     *)
(* What it had counted is taken back, and nobody is told.                  *)
Again(u, i) ==
    /\ Going(u, i)
    /\ moving[u][i].attempt = 1
    /\ moving' = [moving EXCEPT ![u][i].attempt = 2, ![u][i].wire = FALSE]
    /\ counted' = [counted EXCEPT ![u] =
                    @ - (IF moving[u][i].wire THEN moving[u][i].bytes ELSE 0)]
    /\ UNCHANGED <<files, budget, phase, turn, offset, done, body, shown, stored>>

(* Parts come back in the order they were read.  The first that failed     *)
(* stops the reading.                                                      *)
ComesBack(u) ==
    /\ phase[u] = "sending"
    /\ moving[u] # <<>>
    /\ LET part == Head(moving[u])
       IN \/ /\ part.result = "landed"
             /\ done' = [done EXCEPT ![u] = Append(@, Came(part))]
             /\ UNCHANGED <<reading, refused>>
          \/ /\ part.result = "failed"
             /\ reading' = [reading EXCEPT ![u] = FALSE]
             /\ refused' = [refused EXCEPT ![u] = TRUE]
             /\ UNCHANGED done
    /\ moving' = [moving EXCEPT ![u] = Tail(@)]
    /\ UNCHANGED <<files, budget, phase, turn, offset, gathered, progress, stored>>

(* Slip: the parts in the air are not waited for. *)
SettledAtOnce(u) ==
    /\ phase[u] = "sending"
    /\ ~reading[u]
    /\ Drop(Belongs(u))
    /\ phase' = [x \in Flows |->
                    IF x = u THEN IF refused[u] THEN "aborting" ELSE "finishing"
                    ELSE IF x \in Belongs(u) THEN "over" ELSE phase[x]]
    /\ UNCHANGED <<files, offset, done, body, progress, stored>>

(* each_part returns, and the body is dropped. *)
Settled(u) ==
    /\ phase[u] = "sending"
    /\ ~reading[u]
    /\ moving[u] = <<>>
    /\ Drop(Belongs(u))
    /\ phase' = [x \in Flows |->
                    IF x = u THEN IF refused[u] THEN "aborting" ELSE "finishing"
                    ELSE IF x \in Belongs(u) THEN "over" ELSE phase[x]]
    /\ UNCHANGED <<files, offset, done, body, progress, stored>>

OnlyStored ==
    UNCHANGED <<files, budget, turn, offset, moving, done, body, progress>>

(* The store puts the file together from the list of parts, or does not. *)
Finish(u) ==
    /\ phase[u] = "finishing"
    /\ \/ /\ phase' = [phase EXCEPT ![u] = "done"]
          /\ stored' = [stored EXCEPT ![u] = "file"]
       \/ phase' = [phase EXCEPT ![u] = "failed"] /\ UNCHANGED stored
    /\ OnlyStored

(* S3 is asked to throw the parts away; what it says is ignored. *)
Abort(u) ==
    /\ phase[u] = "aborting"
    /\ phase' = [phase EXCEPT ![u] = "failed"]
    /\ \/ At[u] \in TidiesUp /\ stored' = [stored EXCEPT ![u] = "nothing"]
       \/ UNCHANGED stored
    /\ OnlyStored

-----------------------------------------------------------------------------

Over(x) == phase[x] \in {"done", "failed", "cancelled", "over"}

(* The transfer is cancelled, and its task is dropped. *)
Cancel(flows) ==
    /\ \E x \in flows : ~Over(x)
    /\ Drop(flows)
    /\ phase' = [x \in Flows |-> IF x \in flows THEN "cancelled" ELSE phase[x]]
    /\ UNCHANGED <<files, offset, done, body, progress, stored>>

CancelUpload(u) == Cancel(Belongs(u))

CancelDownload(d) == Reader(d) = {} /\ Cancel({d})

Download(d) ==
    \/ Open(d)
    \/ OpenFails(d)
    \/ Hold(d)
    \/ Ask(d)
    \/ \E i \in DOMAIN moving[d] : Fetch(d, i)
    \/ HandOnFirst(d)
    \/ HandOn(d)
    \/ BreakOff(d)
    \/ Written(d)

Upload(u) ==
    \/ Begin(u)
    \/ BeginFails(u)
    \/ Hold(u)
    \/ Send(u)
    \/ NothingLeft(u)
    \/ ReadFails(u)
    \/ \E i \in DOMAIN moving[u] :
        Count(u, i) \/ Lands(u, i) \/ Fails(u, i) \/ Again(u, i)
    \/ ComesBack(u)
    \/ Settled(u)
    \/ Finish(u)
    \/ Abort(u)

Work ==
    \/ \E d \in Downloads : Download(d)
    \/ \E u \in Uploads : Upload(u)
    \/ \E b \in Connections : Grant(b)

Next ==
    \/ Work
    \/ \E u \in Uploads : CancelUpload(u)
    \/ \E d \in Downloads : CancelDownload(d)

Spec == Init /\ [][Next]_vars

(* The runtime polls what can go on, files can be read, stores answer, and *)
(* the semaphore serves its line: while anything can be done something is. *)
(* Nobody has to cancel anything.                                          *)
Fairness == WF_vars(Work)

FairSpec == Spec /\ Fairness

-----------------------------------------------------------------------------
(* Properties. *)

(* A file that arrived is the file: its parts are in order, with none      *)
(* missing, none twice and none of another length ("out of order they are  *)
(* not a slow download but a corrupted file", parts.rs).  One case is      *)
(* left, and what arrived is then cut off: the store did not say how long  *)
(* the file is (`*`), and the listing said less than it is.                *)
Whole(parts, bytes) ==
    /\ \A i \in DOMAIN parts :
        parts[i].at = IF i = 1 THEN 0 ELSE parts[i - 1].at + parts[i - 1].bytes
    /\ parts # <<>>
    /\ parts[Len(parts)].at + parts[Len(parts)].bytes = bytes

ArrivesWhole ==
    \A x \in Flows : phase[x] = "done" =>
        \/ Whole(done[x], length[x])
        \/ /\ Whole(done[x], listed[x])
           /\ \E d \in Downloads : x \in {d} \cup Reader(d) /\ ~said[d]
           /\ listed[x] < length[x]

(* An upload is put together or thrown away once every part of it that was *)
(* in the air has been answered, so that nothing is still being written    *)
(* ("once the parts already in the air have settled", parts.rs).           *)
SettledFirst ==
    [][\A u \in Uploads : phase[u] = "sending" /\ phase'[u] \in {"finishing", "aborting"} =>
        \A i \in DOMAIN moving[u] : moving[u][i].result # "going"]_vars

(* The bar never shows more than the body said it would be, and is full    *)
(* when the upload is done: "a bar never stops at 94% on a transfer that   *)
(* has finished" (stream.rs).                                              *)
BarIsTrue ==
    \A u \in Uploads :
        /\ shown[u] <= size[u]
        /\ phase[u] = "done" => shown[u] = size[u]

(* Every transfer that begins comes to an end. *)
EverythingEnds ==
    \A x \in Flows : phase[x] \in {"open", "sending"} ~> Over(x)

(* A download in pieces comes to an end however large its pieces are:      *)
(* asking "for room that cannot exist would hang such a transfer for ever; *)
(* taking everything runs it one part at a time" (parts.rs:80).            *)
DownloadsEnd == \A d \in Downloads : phase[d] = "open" ~> Over(d)
=============================================================================
