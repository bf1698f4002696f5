------------------------------- MODULE Carry -------------------------------
(***************************************************************************)
(* A file carried between an SFTP server and an FTP server (carry of       *)
(* engine.rs): SFTP's pipelined read (read_ahead of sftp.rs) feeding an    *)
(* upload on the FTP connection, or an FTP download feeding SFTP's whole   *)
(* packets (in_whole_packets), while other commands queue for the FTP      *)
(* connection and any task may be dropped.                                 *)
(*                                                                         *)
(* A file is the sequence 1 .. n of its units; the sizes of the code are   *)
(* in units too.                                                           *)
(***************************************************************************)
EXTENDS Ftp

CONSTANTS
    Carried,     \* the operation on the FTP connection that carries the file
    Listed,      \* how long a listing may have said the file is
    Lengths,     \* how long it may be
    READ_BLOCK, READS_AHEAD,    \* SFTP's reads
    READ_CHUNK,                 \* FTP's
    MAX_PACKET,                 \* the most an SFTP write may be
    Takes,                      \* what the server may take of it
    Unknown

ASSUME CarryAssumption ==
    /\ Carried \in Ops /\ Kinds[Carried] \subseteq {"read", "write"}
    /\ Listed \subseteq Nat /\ Lengths \subseteq Nat /\ MAX_PACKET \in Nat
    /\ READ_BLOCK \in Nat \ {0} /\ READS_AHEAD \in Nat \ {0} /\ READ_CHUNK \in Nat \ {0}
    /\ Takes \subseteq 0..MAX_PACKET
    /\ Unknown \notin Nat

VARIABLES
    listed,    \* how long the file is said to be
    length,    \* how long it is
    offset,    \* how far the reads have been asked for
    idle,      \* file handles nothing is asked through
    air,       \* the reads asked for and not handed on, in order
    arrived,   \* what has come out of the source
    pending,   \* what has not been written yet
    takes,     \* how much the server takes of one write
    packet,    \* how much that is known to be
    writes,    \* what each write carried
    landing    \* how the writing stands

sizes == <<listed, length, takes>>
reading == <<offset, idle, air>>
writing == <<pending, packet, writes, landing>>
vars == <<ftp, sizes, reading, arrived, writing>>

Smaller(a, b) == IF a < b THEN a ELSE b
Units(from, n) == [i \in 1..n |-> from + i]
CeilDiv(a, b) == (a + b - 1) \div b

FromSftp == kind[Carried] = "write"

Init ==
    /\ FtpInit
    /\ listed \in Listed /\ length \in Lengths /\ takes \in Takes
    /\ offset = 0
    /\ idle = Smaller(CeilDiv(listed, READ_BLOCK), READS_AHEAD)
    /\ air = <<>>
    /\ arrived = <<>>
    /\ pending = <<>>
    /\ packet = Unknown
    /\ writes = <<>>
    /\ landing = "open"

Moving == phase[Carried] = "ready" /\ Doing(Carried, "transfer")

-----------------------------------------------------------------------------
(* Blocks are asked for through every handle that is free, and handed on   *)
(* in the order they were asked for.                                       *)

Block(at, n) == [at |-> at, n |-> n, state |-> "asked"]

AskAhead ==
    /\ Moving /\ FromSftp
    /\ offset < listed /\ idle > 0
    /\ LET n == Smaller(READ_BLOCK, listed - offset)
       IN  air' = Append(air, Block(offset, n)) /\ offset' = offset + n
    /\ idle' = idle - 1
    /\ UNCHANGED <<ftp, sizes, arrived, writing>>

(* The server answers in what order it likes; what is not there is short. *)
SftpAnswers(i) ==
    /\ Moving /\ i \in DOMAIN air /\ air[i].state = "asked"
    /\ \E state \in {"good", "broken"} :
          /\ state = "good" => air[i].at + air[i].n <= length
          /\ air' = [air EXCEPT ![i].state = state]
    /\ UNCHANGED <<ftp, sizes, offset, idle, arrived, writing>>

AnyAnswered == CHOOSE i \in DOMAIN air : air[i].state # "asked"    \* a mutant of Foremost
Foremost == 1

(* The upload takes a block from the body and sends it on. *)
HandOn ==
    /\ Moving /\ FromSftp
    /\ (offset = listed \/ idle = 0) /\ air # <<>> /\ (\E i \in DOMAIN air : air[i].state # "asked")
    /\ air[Foremost].state = "good"
    /\ arrived' = arrived \o Units(air[Foremost].at, air[Foremost].n)
    /\ air' = RemoveAt(air, Foremost)
    /\ idle' = idle + 1
    /\ UNCHANGED <<ftp, sizes, offset, writing>>

(* A block that cannot be read fails the upload. *)
ReadFails ==
    /\ Moving /\ FromSftp
    /\ air # <<>> /\ air[1].state = "broken"
    /\ BreakOff(Carried)
    /\ UNCHANGED <<sizes, reading, arrived, writing>>

BodyEnds ==
    /\ Moving /\ FromSftp
    /\ offset = listed /\ air = <<>>
    /\ Transferred(Carried)
    /\ UNCHANGED <<sizes, reading, arrived, writing>>

-----------------------------------------------------------------------------
(* A download: chunk after chunk, as they come, and each put into whole    *)
(* packets before the next is asked for.                                   *)

Chunk ==
    /\ Moving /\ ~FromSftp /\ landing = "open"
    /\ \E n \in 1..Smaller(READ_CHUNK, length - Len(arrived)) :
          /\ arrived' = arrived \o Units(Len(arrived), n)
          /\ pending' = pending \o Units(Len(arrived), n)
    /\ landing' = "packing"
    /\ UNCHANGED <<ftp, sizes, reading, packet, writes>>

Write(n) ==
    /\ writes' = Append(writes, SubSeq(pending, 1, n))
    /\ pending' = SubSeq(pending, n + 1, Len(pending))

AnyAtAll == Len(pending) > 0    \* a mutant of LargerThanAny
LargerThanAny == Len(pending) >= MAX_PACKET

(* The first write is larger than any packet, so that what is taken of it  *)
(* says how large a packet is.                                             *)
FirstPacket ==
    /\ landing = "packing"
    /\ packet = Unknown /\ LargerThanAny /\ takes > 0
    /\ packet' = Smaller(takes, Len(pending))
    /\ Write(packet')
    /\ UNCHANGED <<ftp, sizes, reading, arrived, landing>>

WholePacket ==
    /\ landing = "packing"
    /\ packet # Unknown /\ Len(pending) >= packet
    /\ Write(packet)
    /\ UNCHANGED <<ftp, sizes, reading, arrived, packet, landing>>

EnoughToWait == IF packet = Unknown THEN ~LargerThanAny ELSE Len(pending) < packet

Packed ==
    /\ landing = "packing"
    /\ EnoughToWait
    /\ landing' = "open"
    /\ UNCHANGED <<ftp, sizes, reading, arrived, pending, packet, writes>>

(* A server that takes nothing, or refuses: the body is let go of.         *)
WriteFails ==
    /\ landing \in {"packing", "ending"}
    /\ landing' = "failed"
    /\ IF landing = "packing" THEN BreakOff(Carried) ELSE UNCHANGED ftp
    /\ UNCHANGED <<sizes, reading, arrived, pending, packet, writes>>

(* The end of the file, or of the connection it comes on. *)
DownloadEnds ==
    /\ Moving /\ ~FromSftp /\ landing = "open"
    /\ Transferred(Carried)
    /\ UNCHANGED <<sizes, reading, arrived, writing>>

DownloadBreaks ==
    /\ Moving /\ ~FromSftp /\ landing = "open"
    /\ BreakOff(Carried)
    /\ landing' = "failed"
    /\ UNCHANGED <<sizes, reading, arrived, pending, packet, writes>>

(* The closing answer was good: the body has ended. *)
SourceEnded ==
    /\ ~FromSftp /\ landing = "open" /\ phase[Carried] \in {"done", "failed", "over"}
    /\ landing' = IF phase[Carried] = "done" THEN "ending" ELSE "failed"
    /\ UNCHANGED <<ftp, sizes, reading, arrived, pending, packet, writes>>

(* What is left over goes as one write, or as many as it takes. *)
Leftover ==
    /\ landing = "ending" /\ (pending = <<>> \/ takes > 0)
    /\ writes' = IF pending = <<>> THEN writes ELSE Append(writes, pending)
    /\ pending' = <<>>
    /\ landing' = "done"
    /\ UNCHANGED <<ftp, sizes, reading, arrived, packet>>

-----------------------------------------------------------------------------
(* The server's answer to a download says whether all of it was sent. *)
AllSent == FromSftp \/ Len(arrived) = length

Talk(o) ==
    \/ Got(o) \/ Say(o) \/ Hear(o) \/ Again(o) \/ Aborted(o)
    \/ Close(o, o = Carried => AllSent)
    \/ o # Carried /\ (Transferred(o) \/ BreakOff(o))

(* The task that carries is dropped as a whole, whichever end it waits at. *)
LetGo(o) ==
    /\ IF o = Carried /\ landing \in {"ending", "open"} /\ phase[o] = "done"
       THEN UNCHANGED ftp ELSE Drop(o)
    /\ landing' = IF o = Carried THEN "failed" ELSE landing
    /\ UNCHANGED <<sizes, reading, arrived, pending, packet, writes>>

Carrying ==
    \/ AskAhead \/ HandOn \/ ReadFails \/ BodyEnds
    \/ Chunk \/ FirstPacket \/ WholePacket \/ Packed \/ WriteFails
    \/ DownloadEnds \/ DownloadBreaks \/ SourceEnded \/ Leftover
    \/ \E i \in DOMAIN air : SftpAnswers(i)

Untouched == UNCHANGED <<sizes, reading, arrived, writing>>

Next ==
    \/ \E o \in Ops : (Begin(o) \/ Talk(o)) /\ Untouched
    \/ \E o \in Ops : LetGo(o)
    \/ Carrying

Spec == Init /\ [][Next]_vars

(* Tasks go on and servers answer; nobody has to begin or be dropped. *)
FairSpec ==
    /\ Spec
    /\ \A o \in Ops : WF_vars(Talk(o) /\ Untouched)
    /\ WF_vars(Carrying)

-----------------------------------------------------------------------------
(* Properties. *)

Written == FlattenSeq(writes)

(* What is said to have been carried is the file: every unit of it, once,  *)
(* in order, however the reads through several handles were answered and   *)
(* however the chunks fell into packets.  An upload carries as much as the *)
(* listing said, and is never done if the file turned out shorter; a       *)
(* download whose task read its own answers carries all there was.         *)
CarriedWhole ==
    /\ FromSftp /\ phase[Carried] = "done" /\ Carried \notin misled =>
          listed <= length /\ arrived = Units(0, listed)
    /\ landing = "done" /\ Carried \notin misled => Written = Units(0, length)

(* No scraps: every write but the last is as large as the server takes.    *)
PacketsAreWhole == \A i \in 1..(Len(writes) - 1) : Len(writes[i]) = takes

(* Whoever has begun comes to an end, in step or out of it. *)
EveryoneEnds ==
    \A o \in Ops : phase[o] = "queued" ~> phase[o] \in {"done", "failed", "over"}
=============================================================================
