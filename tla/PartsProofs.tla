----------------------------- MODULE PartsProofs -----------------------------
(***************************************************************************)
(* What Parts keeps for any number of uploads, downloads and copies, of    *)
(* any length, over any stores: files arrive whole, parts are settled      *)
(* before an upload is put together or thrown away, and bars are true.     *)
(* The budget is a sum over all the flows, and is left to TLC.             *)
(***************************************************************************)
EXTENDS Parts, SequenceTheorems, TLAPS

USE DEF files, budget, flow, body, progress

-----------------------------------------------------------------------------
(* How big a part is. *)

LEMMA CeilEnough ==
    ASSUME NEW m \in Nat, NEW n \in Nat \ {0}
    PROVE  /\ Ceil(m, n) \in Nat
           /\ m <= Ceil(m, n) * n
           /\ m > 0 => Ceil(m, n) > 0
<1>1. m + n - 1 \in Nat /\ n \in Nat /\ n > 0
  OBVIOUS
<1>2. \A a \in Nat : a \div n \in Nat /\ n * (a \div n) <= a /\ a < n * (a \div n) + n
  OBVIOUS
<1> QED BY <1>1, <1>2, SMTT(30) DEF Ceil

(* A quotient rounded up is the least that is large enough. *)
LEMMA CeilLeast ==
    ASSUME NEW m \in Nat, NEW n \in Nat \ {0}, NEW k \in Nat, m <= k * n
    PROVE  Ceil(m, n) <= k
<1> DEFINE q == (m + n - 1) \div n
<1>1. q \in Nat /\ n * q <= m + n - 1
  OBVIOUS
<1>2. n * q < n * k + n
  BY <1>1
<1>3. CASE q > k
  <2>1. q >= k + 1
    BY <1>1, <1>3
  <2>2. n * q >= n * (k + 1)
    BY <1>1, <2>1
  <2> QED BY <1>1, <1>2, <2>2
<1> QED BY <1>1, <1>3 DEF Ceil

LEMMA RoundedUp ==
    ASSUME NEW bytes \in Nat, NEW k \in Nat, bytes <= k * Megabyte
    PROVE  /\ InWholeMegabytes(bytes) \in Nat
           /\ bytes <= InWholeMegabytes(bytes)
           /\ InWholeMegabytes(bytes) <= k * Megabyte
<1>1. Megabyte \in Nat \ {0}
  BY PartsAssumption
<1> DEFINE q == Ceil(bytes, Megabyte)
<1>2. q \in Nat /\ bytes <= q * Megabyte
  BY <1>1, CeilEnough
<1>3. q <= k
  BY <1>1, CeilLeast
<1> HIDE DEF q
<1>4. q * Megabyte \in Nat /\ q * Megabyte <= k * Megabyte
  BY <1>1, <1>2, <1>3
<1> QED BY <1>2, <1>4 DEF InWholeMegabytes, q

(* part_size keeps to what the store takes: "a part size below this is an  *)
(* upload the store refuses when it is nearly finished".  Whatever is      *)
(* comfortable, an object the store can hold at all is cut into no more    *)
(* parts than it takes, and into none that is larger.                      *)
THEOREM PartSizeIsTaken ==
    ASSUME NEW bytes \in Nat \ {0},
           NEW limits \in [smallest : Nat \ {0}, largest : Nat \ {0}, most : Nat \ {0}],
           NEW k \in Nat, limits.largest = k * Megabyte,
           bytes <= limits.largest * limits.most
    PROVE  /\ PartSize(bytes, limits) \in Nat \ {0}
           /\ PartSize(bytes, limits) <= limits.largest
           /\ Ceil(bytes, PartSize(bytes, limits)) <= limits.most
<1> DEFINE c == Ceil(bytes, limits.most)
           must == InWholeMegabytes(c)
           cozy == Comfortable(bytes, limits)
           part == PartSize(bytes, limits)
<1>1. /\ limits.smallest \in Nat \ {0}
      /\ limits.largest \in Nat \ {0}
      /\ limits.most \in Nat \ {0}
      /\ {Total, Megabyte, PartsWanted} \subseteq Nat \ {0}
  BY PartsAssumption
<1>2. c \in Nat /\ bytes <= c * limits.most /\ c > 0
  BY <1>1, CeilEnough
<1>3. c <= limits.largest
  BY <1>1, CeilLeast
<1>4. must \in Nat /\ c <= must /\ must <= limits.largest
  BY <1>2, <1>3, RoundedUp
<1>5. cozy \in Nat
  <2>1. LargestHeld \in Nat
    <3>1. Total * Megabyte \in Nat
      BY <1>1
    <3> HIDE DEF c, must, cozy, part
    <3> QED BY <3>1 DEF LargestHeld
  <2>2. InWholeMegabytes(Ceil(bytes, PartsWanted)) \in Nat
    <3>1. Ceil(bytes, PartsWanted) \in Nat
      BY <1>1, CeilEnough
    <3>2. Ceil(Ceil(bytes, PartsWanted), Megabyte) \in Nat
      BY <1>1, <3>1, CeilEnough
    <3>3. \A i, j \in Nat : i * j \in Nat
      OBVIOUS
    <3> QED BY <1>1, <3>2, <3>3 DEF InWholeMegabytes
  <2> QED BY <1>1, <2>1, <2>2 DEF Comfortable, Clamp, Most, Least
<1> HIDE DEF c, must, cozy
<1>6. /\ part \in Nat \ {0}
      /\ part >= c
      /\ part <= limits.largest
  BY <1>1, <1>2, <1>3, <1>4, <1>5 DEF PartSize, Most, Least, must, cozy, c
<1> HIDE DEF part
<1>7. bytes <= limits.most * part
  <2>1. c * limits.most <= part * limits.most
    BY <1>1, <1>2, <1>6
  <2>2. part * limits.most = limits.most * part
    BY <1>1, <1>6
  <2>3. c * limits.most \in Nat /\ limits.most * part \in Nat
    BY <1>1, <1>2, <1>6
  <2> QED BY <1>2, <2>1, <2>2, <2>3
<1>8. Ceil(bytes, part) <= limits.most
  BY <1>1, <1>6, <1>7, CeilLeast
<1> QED BY <1>6, <1>8 DEF part

-----------------------------------------------------------------------------
(* Parts in order.  What has come out of a flow and what is still in the   *)
(* air, put one after the other, are the file up to where the next part    *)
(* begins.                                                                 *)

End(s, from) == IF s = <<>> THEN from ELSE s[Len(s)].at + s[Len(s)].bytes

Chained(s, from) ==
    \A i \in 1..Len(s) : s[i].at = IF i = 1 THEN from ELSE s[i - 1].at + s[i - 1].bytes

Chains(r, s, to) ==
    /\ Chained(r, 0)
    /\ Chained(s, End(r, 0))
    /\ End(s, End(r, 0)) = to

LEMMA ChainsEmpty == Chains(<<>>, <<>>, 0)
BY DEF Chains, Chained, End

LEMMA ChainsFirst ==
    ASSUME NEW n \in Nat
    PROVE  /\ Chains(Append(<<>>, [at |-> 0, bytes |-> n]), <<>>, n)
           /\ End(Append(<<>>, [at |-> 0, bytes |-> n]), 0) = n
<1> DEFINE r == Append(<<>>, [at |-> 0, bytes |-> n])
<1>1. r # <<>> /\ Len(r) = 1 /\ r[1] = [at |-> 0, bytes |-> n]
  OBVIOUS
<1> HIDE DEF r
<1>2. End(r, 0) = n /\ Chained(r, 0)
  BY <1>1 DEF End, Chained
<1>3. Chained(<<>>, n) /\ End(<<>>, n) = n
  BY DEF End, Chained
<1> QED BY <1>2, <1>3 DEF Chains, r

LEMMA ChainedAppend ==
    ASSUME NEW T, NEW s \in Seq(T), NEW from \in Nat, NEW p \in T,
           Chained(s, from), p.at = End(s, from)
    PROVE  Chained(Append(s, p), from) /\ End(Append(s, p), from) = p.at + p.bytes
<1> DEFINE t == Append(s, p)
<1>1. /\ Len(t) = Len(s) + 1
      /\ t[Len(s) + 1] = p
      /\ \A i \in 1..Len(s) : t[i] = s[i]
      /\ t # <<>>
      /\ Len(s) \in Nat
      /\ s = <<>> <=> Len(s) = 0
  OBVIOUS
<1> HIDE DEF t
<1>2. Chained(t, from)
  <2> SUFFICES ASSUME NEW i \in 1..Len(t)
               PROVE  t[i].at = IF i = 1 THEN from ELSE t[i - 1].at + t[i - 1].bytes
    BY DEF Chained
  <2>1. CASE i = Len(s) + 1
    <3>1. CASE s = <<>>
      BY <1>1, <2>1, <3>1 DEF End
    <3>2. CASE s # <<>>
      <4>1. i # 1 /\ i - 1 = Len(s) /\ Len(s) \in 1..Len(s)
        BY <1>1, <2>1, <3>2
      <4>2. t[i - 1] = s[Len(s)]
        BY <1>1, <4>1
      <4> QED BY <1>1, <2>1, <3>2, <4>1, <4>2 DEF End
    <3> QED BY <3>1, <3>2
  <2>2. CASE i # Len(s) + 1
    <3>1. i \in 1..Len(s) /\ (i # 1 => i - 1 \in 1..Len(s))
      BY <1>1, <2>2
    <3> QED BY <1>1, <3>1 DEF Chained
  <2> QED BY <2>1, <2>2
<1>3. End(t, from) = p.at + p.bytes
  BY <1>1 DEF End
<1> QED BY <1>2, <1>3 DEF t

LEMMA EndIsNat ==
    ASSUME NEW T, NEW s \in Seq(T), NEW from \in Nat,
           \A p \in T : p.at \in Nat /\ p.bytes \in Nat
    PROVE  End(s, from) \in Nat
<1>1. CASE s = <<>>
  BY <1>1 DEF End
<1>2. CASE s # <<>>
  <2>1. Len(s) \in 1..Len(s)
    BY <1>2
  <2>2. s[Len(s)] \in T
    BY <2>1
  <2> QED BY <1>2, <2>2 DEF End
<1> QED BY <1>1, <1>2

LEMMA PartsAndPieces ==
    /\ \A p \in PartType : p.at \in Nat /\ p.bytes \in Nat
    /\ \A p \in Pieces : p.at \in Nat /\ p.bytes \in Nat
    /\ \A p \in PartType : Came(p) \in Pieces /\ Came(p).at = p.at /\ Came(p).bytes = p.bytes
BY DEF PartType, Pieces, Came

(* A part goes into the air where the last one ended. *)
LEMMA ChainsAppend ==
    ASSUME NEW r \in Seq(Pieces), NEW s \in Seq(PartType), NEW to \in Nat, NEW n \in Nat,
           Chains(r, s, to)
    PROVE  Chains(r, Append(s, NewPart(to, n)), to + n)
<1> DEFINE p == NewPart(to, n)
<1>1. p \in PartType /\ p.at = to /\ p.bytes = n
  BY DEF NewPart, PartType
<1>2. End(r, 0) \in Nat
  BY EndIsNat, PartsAndPieces
<1> HIDE DEF p
<1>3. Chained(Append(s, p), End(r, 0)) /\ End(Append(s, p), End(r, 0)) = to + n
  BY <1>1, <1>2, ChainedAppend DEF Chains
<1> QED BY <1>3 DEF Chains, p

(* The first in the air is the first to come. *)
LEMMA ChainsMove ==
    ASSUME NEW r \in Seq(Pieces), NEW s \in Seq(PartType), NEW to \in Nat,
           Chains(r, s, to), s # <<>>
    PROVE  /\ Chains(Append(r, Came(Head(s))), Tail(s), to)
           /\ End(Append(r, Came(Head(s))), 0) = End(r, 0) + Head(s).bytes
<1> DEFINE p == Came(Head(s))
           t == Tail(s)
           q == Append(r, p)
<1>1. /\ Head(s) = s[1]
      /\ Len(t) = Len(s) - 1
      /\ Len(s) \in Nat \ {0}
      /\ \A i \in 1..Len(t) : t[i] = s[i + 1]
      /\ t = <<>> <=> Len(s) = 1
      /\ s[1] \in PartType
  <2>1. /\ Head(s) = s[1]
        /\ Len(s) \in Nat \ {0}
        /\ s[1] \in PartType
    OBVIOUS
  <2>2. t \in Seq(PartType) /\ Len(t) = Len(s) - 1 /\ \A i \in 1..Len(t) : t[i] = s[i + 1]
    BY HeadTailProperties
  <2>3. t = <<>> <=> Len(t) = 0
    BY <2>2, EmptySeq
  <2> QED BY <2>1, <2>2, <2>3
<1>2. p \in Pieces /\ p.at = s[1].at /\ p.bytes = s[1].bytes
  BY <1>1, PartsAndPieces
<1>3. p.at = End(r, 0)
  BY <1>1, <1>2 DEF Chains, Chained
<1> HIDE DEF p
<1>4. Chained(q, 0) /\ End(q, 0) = p.at + p.bytes
  BY <1>2, <1>3, ChainedAppend DEF Chains
<1> HIDE DEF q
<1>5. End(q, 0) = End(r, 0) + s[1].bytes
  BY <1>2, <1>3, <1>4
<1> HIDE DEF t
<1>6. Chained(t, End(q, 0))
  <2> SUFFICES ASSUME NEW i \in 1..Len(t)
               PROVE  t[i].at = IF i = 1 THEN End(q, 0) ELSE t[i - 1].at + t[i - 1].bytes
    BY DEF Chained
  <2>1. /\ i + 1 \in 1..Len(s)
        /\ i + 1 # 1
        /\ (i + 1) - 1 = i
        /\ t[i] = s[i + 1]
        /\ i # 1 => i - 1 \in 1..Len(t) /\ t[i - 1] = s[i]
    <3>1. i # 1 => i - 1 \in 1..Len(t) /\ (i - 1) + 1 = i
      BY <1>1
    <3> QED BY <1>1, <3>1
  <2>2. s[i + 1].at = s[i].at + s[i].bytes
    BY <2>1 DEF Chains, Chained
  <2> QED BY <1>2, <1>4, <2>1, <2>2
<1>7. End(t, End(q, 0)) = to
  <2>1. End(s, End(r, 0)) = to /\ s # <<>>
    BY DEF Chains
  <2>2. CASE t = <<>>
    BY <1>1, <1>2, <1>4, <2>1, <2>2 DEF End
  <2>3. CASE t # <<>>
    <3>1. Len(t) \in 1..Len(t) /\ Len(t) + 1 = Len(s)
      BY <1>1, <2>3
    <3> QED BY <1>1, <2>1, <2>3, <3>1 DEF End
  <2> QED BY <2>2, <2>3
<1> QED BY <1>1, <1>4, <1>5, <1>6, <1>7 DEF Chains, p, q, t

(* What happens to a part in the air leaves it where it is. *)
LEMMA ChainsMark ==
    ASSUME NEW r \in Seq(Pieces), NEW s \in Seq(PartType), NEW to \in Nat,
           NEW i \in DOMAIN s, NEW p \in PartType, p.at = s[i].at, p.bytes = s[i].bytes,
           Chains(r, s, to)
    PROVE  Chains(r, [s EXCEPT ![i] = p], to)
<1> DEFINE t == [s EXCEPT ![i] = p]
<1>1. /\ Len(t) = Len(s)
      /\ \A j \in 1..Len(s) : t[j].at = s[j].at /\ t[j].bytes = s[j].bytes
      /\ t # <<>> /\ s # <<>>
      /\ Len(s) \in 1..Len(s)
  OBVIOUS
<1> HIDE DEF t
<1>2. \A from : End(t, from) = End(s, from)
  BY <1>1 DEF End
<1>3. ASSUME NEW from, Chained(s, from)
      PROVE  Chained(t, from)
  <2> SUFFICES ASSUME NEW j \in 1..Len(t)
               PROVE  t[j].at = IF j = 1 THEN from ELSE t[j - 1].at + t[j - 1].bytes
    BY DEF Chained
  <2>1. j \in 1..Len(s) /\ (j # 1 => j - 1 \in 1..Len(s))
    BY <1>1
  <2> QED BY <1>1, <1>3, <2>1 DEF Chained
<1> QED BY <1>2, <1>3 DEF Chains, t

LEMMA ChainsWhole ==
    ASSUME NEW r \in Seq(Pieces), NEW to \in Nat \ {0}, Chains(r, <<>>, to)
    PROVE  Whole(r, to) /\ End(r, 0) = to
<1>1. End(r, 0) = to
  BY DEF Chains, End
<1>2. r # <<>>
  BY <1>1 DEF End
<1>3. DOMAIN r = 1..Len(r)
  OBVIOUS
<1> QED BY <1>1, <1>2, <1>3 DEF Chains, Chained, End, Whole

-----------------------------------------------------------------------------
(* The inductive invariant. *)

Follows(x) == Chains(done[x], moving[x], offset[x])

Typed ==
    /\ length \in [Flows -> Nat \ {0}]
    /\ listed \in [Flows -> Nat \ {0}]
    /\ size \in [Flows -> Nat \ {0}]
    /\ phase \in [Flows -> Phases]
    /\ offset \in [Flows -> Nat]
    /\ said \in [Downloads -> BOOLEAN]
    /\ gathered \in [Uploads -> Nat]
    /\ moving \in [Flows -> Seq(PartType)]
    /\ done \in [Flows -> Seq(Pieces)]
    /\ reading \in [Uploads -> BOOLEAN]
    /\ refused \in [Uploads -> BOOLEAN]
    /\ \A u \in Uploads : Source[u] # File => size[u] = size[Source[u]]

DownloadOK(d) ==
    /\ offset[d] <= size[d]
    /\ phase[d] = "idle" => done[d] = <<>> /\ moving[d] = <<>>
    /\ phase[d] = "open" /\ done[d] = <<>> => moving[d] = <<>>
    /\ phase[d] = "open" /\ done[d] # <<>> => Follows(d)
    /\ phase[d] = "done" => Whole(done[d], size[d])

(* An upload has read what its source has handed on, and stops reading, if *)
(* nothing went wrong, at the end of the file.  It does nothing before its *)
(* source is open.                                                         *)
UploadOK(u) ==
    /\ Source[u] # File /\ phase[Source[u]] = "idle" =>
        /\ phase[u] # "sending"
        /\ offset[u] = 0
        /\ done[u] = <<>>
    /\ Source[u] = File => offset[u] <= size[u]
    /\ phase[u] = "idle" =>
        /\ Follows(u)
        /\ offset[u] = 0
        /\ gathered[u] = 0
        /\ reading[u]
        /\ ~refused[u]
        /\ Source[u] # File => done[Source[u]] = <<>>
    /\ phase[u] = "sending" /\ ~refused[u] =>
        /\ Follows(u)
        /\ ~reading[u] => offset[u] = size[u]
        /\ reading[u] /\ Source[u] # File =>
            offset[u] + gathered[u] = End(done[Source[u]], 0)
    /\ phase[u] \in {"finishing", "done"} => Whole(done[u], size[u])

Sound ==
    /\ \A d \in Downloads : DownloadOK(d)
    /\ \A u \in Uploads : UploadOK(u)

LEMMA PartIsNat == Typed => \A x \in Flows : Part(x) \in Nat
<1> SUFFICES ASSUME Typed, NEW x \in Flows PROVE Part(x) \in Nat
  OBVIOUS
<1> DEFINE limits == Limits[At[x]]
           bytes == IF x \in Uploads THEN size[x] ELSE listed[x]
<1>1. /\ limits.smallest \in Nat \ {0}
      /\ limits.largest \in Nat \ {0}
      /\ limits.most \in Nat \ {0}
      /\ {Total, Megabyte, PartsWanted} \subseteq Nat \ {0}
  BY PartsAssumption
<1>2. bytes \in Nat
  BY DEF Typed
<1> HIDE DEF limits, bytes
<1>3. \A m \in Nat, n \in Nat \ {0} : Ceil(m, n) \in Nat
  BY CeilEnough
<1>4. \A m, n \in Nat : m * n \in Nat
  OBVIOUS
<1>5. \A m \in Nat : InWholeMegabytes(m) \in Nat
  BY <1>1, <1>3, <1>4 DEF InWholeMegabytes
<1>6. LargestHeld \in Nat
  <2>1. Total * Megabyte \in Nat
    BY <1>1, <1>4
  <2> QED BY <2>1 DEF LargestHeld
<1>7. Comfortable(bytes, limits) \in Nat
  BY <1>1, <1>2, <1>3, <1>5, <1>6 DEF Comfortable, Clamp, Most, Least
<1>8. InWholeMegabytes(Ceil(bytes, limits.most)) \in Nat
  BY <1>1, <1>2, <1>3, <1>5
<1>9. PartSize(bytes, limits) \in Nat
  BY <1>1, <1>7, <1>8 DEF PartSize, Most, Least
<1> QED BY <1>9 DEF Part, limits, bytes

LEMMA SourceIsDownload ==
    \A u \in Uploads : Source[u] # File => Source[u] \in Downloads
BY PartsAssumption

LEMMA FlowsApart ==
    /\ \A u \in Uploads : u \in Flows /\ u \notin Downloads
    /\ \A d \in Downloads : d \in Flows /\ d \notin Uploads
BY PartsAssumption DEF Flows

(* All that the invariant speaks of. *)
watched == <<files, phase, offset, gathered, moving, done, reading, refused>>

LEMMA Unwatched ==
    Typed /\ Sound /\ UNCHANGED watched => Typed' /\ Sound'
BY DEF watched, Typed, Sound, DownloadOK, UploadOK, Follows

LEMMA StartsSound == Init => Typed /\ Sound
<1> SUFFICES ASSUME Init PROVE Typed /\ Sound
  OBVIOUS
<1>1. PICK sizes \in [Flows -> UNION {Sizes[x] : x \in Flows}] :
        /\ \A x \in Flows : sizes[x] \in Sizes[x]
        /\ \A u \in Uploads : Source[u] # File => sizes[u] = sizes[Source[u]]
        /\ length = [x \in Flows |-> sizes[x][1]]
        /\ listed = [x \in Flows |-> sizes[x][2]]
  BY DEF Init
<1>2. \A x \in Flows : sizes[x] \in (Nat \ {0}) \X (Nat \ {0})
  BY <1>1, PartsAssumption
<1>3. /\ length \in [Flows -> Nat \ {0}]
      /\ listed \in [Flows -> Nat \ {0}]
      /\ size = [x \in Flows |-> IF x \in FromFiles THEN length[x] ELSE listed[x]]
      /\ size \in [Flows -> Nat \ {0}]
  <2>1. length \in [Flows -> Nat \ {0}] /\ listed \in [Flows -> Nat \ {0}]
    BY <1>1, <1>2
  <2>2. size = [x \in Flows |-> IF x \in FromFiles THEN length[x] ELSE listed[x]]
    BY DEF Init
  <2> QED BY <2>1, <2>2
<1>4. \A u \in Uploads : Source[u] # File => size[u] = size[Source[u]]
  BY <1>1, <1>3, SourceIsDownload, FlowsApart DEF FromFiles
<1>5. PICK flows \in Together :
        phase = [x \in Flows |-> IF x \in flows THEN "idle" ELSE "cancelled"]
  BY DEF Init
<1>6. /\ \A x \in Flows : phase[x] \in {"idle", "cancelled"}
      /\ phase \in [Flows -> Phases]
  BY <1>5 DEF Phases
<1>7. /\ offset = [x \in Flows |-> 0]
      /\ gathered = [u \in Uploads |-> 0]
      /\ moving = [x \in Flows |-> <<>>]
      /\ done = [x \in Flows |-> <<>>]
      /\ reading = [u \in Uploads |-> TRUE]
      /\ refused = [u \in Uploads |-> FALSE]
      /\ said = [d \in Downloads |-> FALSE]
  BY DEF Init
<1>8. Typed
  <2>1. moving \in [Flows -> Seq(PartType)] /\ done \in [Flows -> Seq(Pieces)]
    BY <1>7
  <2> QED BY <1>3, <1>4, <1>6, <1>7, <2>1 DEF Typed
<1>9. ASSUME NEW d \in Downloads PROVE DownloadOK(d)
  <2>1. /\ size[d] \in Nat
        /\ offset[d] = 0
        /\ done[d] = <<>> /\ moving[d] = <<>>
        /\ phase[d] \in {"idle", "cancelled"}
    BY <1>3, <1>6, <1>7, FlowsApart
  <2> QED BY <2>1 DEF DownloadOK
<1>10. ASSUME NEW u \in Uploads PROVE UploadOK(u)
  BY <1>3, <1>6, <1>7, FlowsApart, SourceIsDownload, ChainsEmpty DEF UploadOK, Follows
<1> QED BY <1>8, <1>9, <1>10 DEF Sound

-----------------------------------------------------------------------------
(* What every step does to it. *)

LEMMA Dropped ==
    ASSUME NEW flows, Drop(flows)
    PROVE  moving' = [x \in Flows |-> IF x \in flows THEN <<>> ELSE moving[x]]
BY DEF Drop

(* What a download learns as it begins. *)
LEMMA OpenTakes ==
    ASSUME Typed, NEW d \in Downloads, Open(d)
    PROVE  \E total \in Nat \ {0}, n \in Nat :
            /\ n <= total /\ n <= length[d]
            /\ IF said'[d] THEN total = length[d] ELSE total = listed[d]
            /\ said' \in [Downloads -> BOOLEAN]
            /\ size' = [x \in Flows |-> IF x \in {d} \cup Reader(d) THEN total ELSE size[x]]
            /\ offset' = [offset EXCEPT ![d] = n]
<1> DEFINE due == Least(Part(d), listed[d])
           Told(says) == IF says THEN length[d] ELSE listed[d]
<1>1. PICK says \in BOOLEAN :
        /\ says \/ due <= length[d]
        /\ said' = [said EXCEPT ![d] = says]
        /\ size' = [x \in Flows |-> IF x \in {d} \cup Reader(d) THEN Told(says) ELSE size[x]]
        /\ offset' = [offset EXCEPT ![d] = Least(due, Told(says))]
  BY DEF Open
<1>2. Part(d) \in Nat /\ length[d] \in Nat \ {0} /\ listed[d] \in Nat \ {0}
  BY PartIsNat, FlowsApart DEF Typed
<1>3. due \in Nat
  BY <1>2 DEF Least
<1>4. /\ says => said'[d]
      /\ ~says => ~said'[d]
      /\ said' \in [Downloads -> BOOLEAN]
  BY <1>1, Zenon DEF Typed
<1> HIDE DEF due
<1>5. /\ Told(says) \in Nat \ {0}
      /\ Least(due, Told(says)) \in Nat
      /\ Least(due, Told(says)) <= Told(says)
      /\ Least(due, Told(says)) <= length[d]
  BY <1>1, <1>2, <1>3 DEF Least
<1>6. IF said'[d] THEN Told(says) = length[d] ELSE Told(says) = listed[d]
  BY <1>4
<1> HIDE DEF Told
<1> QED BY <1>1, <1>4, <1>5, <1>6

LEMMA OpenSound ==
    ASSUME Typed, Sound, NEW d \in Downloads, Open(d)
    PROVE  Typed' /\ Sound'
<1>1. /\ phase[d] = "idle"
      /\ phase' = [phase EXCEPT ![d] = "open"]
      /\ UNCHANGED <<length, listed, gathered, moving, done, reading, refused>>
  BY DEF Open
<1>2. PICK total \in Nat \ {0}, n \in Nat :
        /\ n <= total
        /\ said' \in [Downloads -> BOOLEAN]
        /\ size' = [x \in Flows |-> IF x \in {d} \cup Reader(d) THEN total ELSE size[x]]
        /\ offset' = [offset EXCEPT ![d] = n]
  BY OpenTakes
<1>3. Typed'
  <2>1. \A u \in Uploads : Source[u] # File => size'[u] = size'[Source[u]]
    BY <1>2, SourceIsDownload, FlowsApart DEF Typed, Reader
  <2>2. size' \in [Flows -> Nat \ {0}] /\ offset' \in [Flows -> Nat]
    BY <1>2 DEF Typed
  <2> QED BY <1>1, <1>2, <2>1, <2>2 DEF Typed, Phases
<1>4. ASSUME NEW x \in Downloads PROVE DownloadOK(x)'
  <2>1. CASE x = d
    BY <1>1, <1>2, <2>1, FlowsApart DEF Typed, Sound, DownloadOK, Follows
  <2>2. CASE x # d
    <3>1. size'[x] = size[x] /\ offset'[x] = offset[x] /\ phase'[x] = phase[x]
      BY <1>1, <1>2, <2>2, FlowsApart DEF Typed, Reader
    <3> QED BY <1>1, <3>1 DEF Sound, DownloadOK, Follows
  <2> QED BY <2>1, <2>2
<1>5. ASSUME NEW u \in Uploads PROVE UploadOK(u)'
  <2>1. offset'[u] = offset[u] /\ phase'[u] = phase[u] /\ u # d
    BY <1>1, <1>2, FlowsApart DEF Typed
  <2>2. CASE Source[u] = d
    <3>1. Source[u] # File /\ phase'[d] = "open"
      BY <1>1, <2>2, PartsAssumption, FlowsApart DEF Typed
    <3>2. phase[u] # "sending" /\ offset[u] = 0 /\ done[u] = <<>>
      BY <1>1, <2>2, <3>1 DEF Sound, UploadOK
    <3>3. phase[u] \notin {"finishing", "done"}
      BY <3>2 DEF Sound, UploadOK, Whole
    <3> QED BY <1>1, <2>1, <2>2, <3>1, <3>2, <3>3 DEF Sound, UploadOK, Follows
  <2>3. CASE Source[u] # d
    <3>1. size'[u] = size[u]
      BY <1>2, <2>1, <2>3, FlowsApart DEF Reader
    <3>2. Source[u] # File => phase'[Source[u]] = phase[Source[u]]
      BY <1>1, <2>3, SourceIsDownload, FlowsApart DEF Typed
    <3> QED BY <1>1, <2>1, <2>3, <3>1, <3>2 DEF Sound, UploadOK, Follows
  <2> QED BY <2>2, <2>3
<1> QED BY <1>3, <1>4, <1>5 DEF Sound

LEMMA AskSound ==
    ASSUME Typed, Sound, NEW d \in Downloads, Ask(d)
    PROVE  Typed' /\ Sound'
<1> DEFINE n == PieceBytes(d)
<1>1. n \in Nat /\ offset[d] + n \in Nat /\ offset[d] + n <= size[d]
  <2>1. offset[d] <= size[d] /\ offset[d] \in Nat /\ size[d] \in Nat
    BY FlowsApart DEF Typed, Sound, DownloadOK
  <2>2. Part(d) \in Nat
    BY PartIsNat, FlowsApart
  <2> QED BY <2>1, <2>2 DEF PieceBytes, Least
<1> HIDE DEF n
<1>2. /\ phase[d] = "open" /\ done[d] # <<>>
      /\ moving' = [moving EXCEPT ![d] = Append(@, NewPart(offset[d], n))]
      /\ offset' = [offset EXCEPT ![d] = @ + n]
      /\ UNCHANGED <<files, phase, gathered, done, reading, refused>>
  BY DEF Ask, Polled, n
<1>3. NewPart(offset[d], n) \in PartType
  BY <1>1, FlowsApart DEF Typed, NewPart, PartType
<1>4. Typed'
  BY <1>1, <1>2, <1>3, FlowsApart DEF Typed
<1>5. Follows(d)'
  <2>1. Chains(done[d], moving[d], offset[d])
    BY <1>2 DEF Sound, DownloadOK, Follows
  <2>2. Chains(done[d], Append(moving[d], NewPart(offset[d], n)), offset[d] + n)
    BY <1>1, <2>1, ChainsAppend, FlowsApart DEF Typed
  <2> QED BY <1>2, <2>2, FlowsApart DEF Typed, Follows
<1>6. ASSUME NEW x \in Downloads PROVE DownloadOK(x)'
  BY <1>1, <1>2, <1>5, FlowsApart DEF Typed, Sound, DownloadOK, Follows
<1>7. ASSUME NEW u \in Uploads PROVE UploadOK(u)'
  BY <1>2, FlowsApart DEF Typed, Sound, UploadOK, Follows
<1> QED BY <1>4, <1>6, <1>7 DEF Sound

(* What happens to a part in the air, whatever flow it is of. *)
LEMMA MarkSound ==
    ASSUME Typed, Sound, NEW x \in Flows, NEW i \in DOMAIN moving[x], NEW p \in PartType,
           p.at = moving[x][i].at, p.bytes = moving[x][i].bytes,
           moving' = [moving EXCEPT ![x] = [@ EXCEPT ![i] = p]],
           UNCHANGED <<files, phase, offset, gathered, done, reading, refused>>
    PROVE  Typed' /\ Sound'
<1>1. moving[x] \in Seq(PartType) /\ [moving[x] EXCEPT ![i] = p] \in Seq(PartType)
  <2>1. moving[x] \in Seq(PartType)
    BY DEF Typed
  <2> QED BY <2>1
<1>2. Typed'
  BY <1>1 DEF Typed
<1>3. ASSUME NEW y \in Flows, Follows(y) PROVE Follows(y)'
  <2>1. CASE y = x
    BY <1>1, <1>3, <2>1, ChainsMark DEF Typed, Follows
  <2>2. CASE y # x
    BY <1>3, <2>2 DEF Typed, Follows
  <2> QED BY <2>1, <2>2
<1>4. moving[x] # <<>>
  BY <1>1
<1>5. ASSUME NEW d \in Downloads PROVE DownloadOK(d)'
  BY <1>3, <1>4, FlowsApart DEF Typed, Sound, DownloadOK
<1>6. ASSUME NEW u \in Uploads PROVE UploadOK(u)'
  BY <1>3, FlowsApart DEF Typed, Sound, UploadOK
<1> QED BY <1>2, <1>5, <1>6 DEF Sound

LEMMA HandOnFirstSound ==
    ASSUME Typed, Sound, NEW d \in Downloads, HandOnFirst(d)
    PROVE  Typed' /\ Sound'
<1> DEFINE p == [at |-> 0, bytes |-> offset[d]]
<1>1. offset[d] \in Nat /\ p \in Pieces /\ Came(p) = p
  BY FlowsApart DEF Typed, Pieces, Came
<1>2. /\ phase[d] = "open" /\ done[d] = <<>>
      /\ done' = [done EXCEPT ![d] = Append(@, p)]
      /\ gathered' = [u \in Uploads |-> IF u \in Reader(d) THEN gathered[u] + offset[d]
                                         ELSE gathered[u]]
      /\ UNCHANGED <<files, phase, offset, moving, reading, refused>>
  BY <1>1 DEF HandOnFirst, Polled, Give
<1>3. moving[d] = <<>>
  BY <1>2 DEF Sound, DownloadOK
<1>4. /\ Chains(done'[d], <<>>, offset[d])
      /\ End(done'[d], 0) = offset[d]
      /\ End(done[d], 0) = 0
      /\ done'[d] # <<>>
  BY <1>1, <1>2, ChainsFirst, FlowsApart DEF Typed, End
<1>5. \A u \in Reader(d) : phase[u] = "sending" /\ Source[u] = d
  BY <1>2 DEF HandOnFirst, Polled, Reads, Reader
<1> HIDE DEF p
<1>6. Typed'
  <2>1. done' \in [Flows -> Seq(Pieces)]
    <3>1. done[d] \in Seq(Pieces)
      BY FlowsApart DEF Typed
    <3>2. Append(done[d], p) \in Seq(Pieces)
      BY <1>1, <3>1
    <3> QED BY <1>2, <3>2 DEF Typed
  <2>2. gathered' \in [Uploads -> Nat]
    BY <1>1, <1>2 DEF Typed
  <2> QED BY <1>2, <2>1, <2>2 DEF Typed
<1>7. ASSUME NEW x \in Downloads PROVE DownloadOK(x)'
  BY <1>2, <1>3, <1>4, FlowsApart DEF Typed, Sound, DownloadOK, Follows
<1>8. ASSUME NEW u \in Uploads PROVE UploadOK(u)'
  <2>1. u # d /\ done'[u] = done[u] /\ Follows(u)' = Follows(u)
    BY <1>2, FlowsApart DEF Typed, Follows
  <2>2. CASE Source[u] = d
    <3>1. u \in Reader(d) /\ phase[u] = "sending" /\ gathered'[u] = gathered[u] + offset[d]
      BY <1>2, <1>5, <2>2 DEF Reader, HandOnFirst, Polled, Reads
    <3> QED BY <1>1, <1>2, <1>4, <2>1, <2>2, <3>1, FlowsApart DEF Typed, Sound, UploadOK
  <2>3. CASE Source[u] # d
    <3>1. gathered'[u] = gathered[u] /\ done'[Source[u]] = done[Source[u]]
      BY <1>2, <2>3 DEF Reader, Typed
    <3> QED BY <1>2, <2>1, <2>3, <3>1 DEF Sound, UploadOK
  <2> QED BY <2>2, <2>3
<1> QED BY <1>6, <1>7, <1>8 DEF Sound

LEMMA HandOnSound ==
    ASSUME Typed, Sound, NEW d \in Downloads, HandOn(d)
    PROVE  Typed' /\ Sound'
<1> DEFINE part == Head(moving[d])
           p == Came(part)
<1>1. /\ moving[d] \in Seq(PartType) /\ moving[d] # <<>>
      /\ done[d] \in Seq(Pieces) /\ offset[d] \in Nat
  BY FlowsApart DEF Typed, HandOn
<1>2. part \in PartType /\ Tail(moving[d]) \in Seq(PartType)
  BY <1>1, HeadTailProperties
<1>3. p \in Pieces /\ part.bytes \in Nat
  BY <1>2, PartsAndPieces
<1> HIDE DEF p, part
<1>4. /\ phase[d] = "open" /\ done[d] # <<>>
      /\ done' = [done EXCEPT ![d] = Append(@, p)]
      /\ moving' = [moving EXCEPT ![d] = Tail(@)]
      /\ gathered' = [u \in Uploads |-> IF u \in Reader(d) THEN gathered[u] + part.bytes
                                         ELSE gathered[u]]
      /\ UNCHANGED <<files, phase, offset, reading, refused>>
  BY DEF HandOn, Asked, Polled, Give, p, part
<1>5. /\ Chains(done'[d], moving'[d], offset[d])
      /\ End(done'[d], 0) = End(done[d], 0) + part.bytes
      /\ done'[d] # <<>>
  <2>1. Chains(done[d], moving[d], offset[d])
    BY <1>4 DEF Sound, DownloadOK, Follows
  <2>2. done'[d] = Append(done[d], p) /\ moving'[d] = Tail(moving[d])
    BY <1>4, FlowsApart DEF Typed
  <2>3. Append(done[d], p) # <<>>
    BY <1>1, <1>3
  <2> QED BY <1>1, <2>1, <2>2, <2>3, ChainsMove DEF p, part
<1>6. End(done[d], 0) \in Nat
  BY <1>1, EndIsNat, PartsAndPieces
<1>7. Typed'
  <2>1. done' \in [Flows -> Seq(Pieces)]
    <3>1. Append(done[d], p) \in Seq(Pieces)
      BY <1>1, <1>3
    <3> QED BY <1>4, <3>1 DEF Typed
  <2>2. gathered' \in [Uploads -> Nat]
    BY <1>3, <1>4 DEF Typed
  <2>3. moving' \in [Flows -> Seq(PartType)]
    BY <1>2, <1>4 DEF Typed
  <2> QED BY <1>4, <2>1, <2>2, <2>3 DEF Typed
<1>8. ASSUME NEW x \in Downloads PROVE DownloadOK(x)'
  BY <1>4, <1>5, FlowsApart DEF Typed, Sound, DownloadOK, Follows
<1>9. ASSUME NEW u \in Uploads PROVE UploadOK(u)'
  <2>1. u # d /\ done'[u] = done[u] /\ moving'[u] = moving[u] /\ Follows(u)' = Follows(u)
    BY <1>4, FlowsApart DEF Typed, Follows
  <2>2. CASE Source[u] = d
    <3>1. u \in Reader(d) /\ phase[u] = "sending" /\ gathered'[u] = gathered[u] + part.bytes
      BY <1>4, <2>2 DEF Reader, HandOn, Asked, Polled, Reads
    <3>2. phase'[Source[u]] # "idle"
      BY <1>4, <2>2
    <3> QED BY <1>3, <1>4, <1>5, <1>6, <2>1, <2>2, <3>1, <3>2, FlowsApart DEF Typed, Sound, UploadOK
  <2>3. CASE Source[u] # d
    <3>1. gathered'[u] = gathered[u] /\ done'[Source[u]] = done[Source[u]]
      BY <1>4, <2>3 DEF Reader, Typed
    <3> QED BY <1>4, <2>1, <2>3, <3>1 DEF Sound, UploadOK
  <2> QED BY <2>2, <2>3
<1> QED BY <1>7, <1>8, <1>9 DEF Sound

(* Flows that are over, or about to be, have nothing left to keep but what *)
(* has arrived.                                                            *)
LEMMA EndSound ==
    ASSUME Typed, Sound,
           phase' \in [Flows -> Phases],
           moving' \in [Flows -> Seq(PartType)],
           UNCHANGED <<files, offset, gathered, done, reading, refused>>,
           \A x \in Flows :
               \/ phase'[x] = phase[x] /\ moving'[x] = moving[x]
               \/ phase'[x] \in {"failed", "cancelled", "over", "aborting"}
               \/ phase'[x] \in {"done", "finishing"} /\ Whole(done[x], size[x])
    PROVE  Typed' /\ Sound'
<1>1. Typed'
  BY DEF Typed
<1>2. ASSUME NEW x \in Downloads PROVE DownloadOK(x)'
  BY FlowsApart DEF Sound, DownloadOK, Follows
<1>3. ASSUME NEW u \in Uploads PROVE UploadOK(u)'
  <2>1. Source[u] # File /\ phase'[Source[u]] = "idle" => phase[Source[u]] = "idle"
    BY SourceIsDownload, FlowsApart
  <2> QED BY <2>1, FlowsApart DEF Sound, UploadOK, Follows
<1> QED BY <1>1, <1>2, <1>3 DEF Sound

LEMMA DropEnds ==
    ASSUME Typed, NEW flows, Drop(flows)
    PROVE  /\ moving' \in [Flows -> Seq(PartType)]
           /\ \A x \in Flows : x \notin flows => moving'[x] = moving[x]
<1>1. moving' = [x \in Flows |-> IF x \in flows THEN <<>> ELSE moving[x]]
  BY Dropped
<1>2. ASSUME NEW x \in Flows PROVE moving'[x] \in Seq(PartType)
  <2>1. moving[x] \in Seq(PartType) /\ <<>> \in Seq(PartType)
    BY DEF Typed
  <2>2. CASE x \in flows
    BY <1>1, <2>1, <2>2
  <2>3. CASE x \notin flows
    BY <1>1, <2>1, <2>3
  <2> QED BY <2>2, <2>3
<1> QED BY <1>1, <1>2

LEMMA DownloadEnds ==
    ASSUME Typed, Sound, NEW d \in Downloads,
           OpenFails(d) \/ BreakOff(d) \/ Written(d)
    PROVE  Typed' /\ Sound'
<1>1. CASE OpenFails(d)
  <2>1. phase' \in [Flows -> Phases]
    BY <1>1 DEF OpenFails, Typed, Phases
  <2> QED BY <1>1, <2>1, EndSound DEF OpenFails, Typed
<1>2. CASE BreakOff(d)
  <2>1. phase' \in [Flows -> Phases] /\ phase' = [phase EXCEPT ![d] = "failed"]
    BY <1>2 DEF BreakOff, Typed, Phases
  <2>2. /\ Drop({d})
        /\ UNCHANGED <<files, offset, gathered, done, reading, refused>>
    BY <1>2 DEF BreakOff
  <2>3. \A x \in Flows : x # d => phase'[x] = phase[x] /\ moving'[x] = moving[x]
    BY <2>1, <2>2, DropEnds DEF Typed
  <2>4. phase'[d] = "failed" /\ moving' \in [Flows -> Seq(PartType)]
    BY <2>1, <2>2, DropEnds, FlowsApart DEF Typed
  <2> QED BY <2>1, <2>2, <2>3, <2>4, EndSound
<1>3. CASE Written(d)
  <2>1. phase' \in [Flows -> Phases] /\ phase' = [phase EXCEPT ![d] = "done"]
    BY <1>3 DEF Written, Typed, Phases
  <2>2. /\ moving[d] = <<>> /\ offset[d] = size[d]
        /\ phase[d] = "open" /\ done[d] # <<>>
        /\ UNCHANGED <<files, offset, gathered, moving, done, reading, refused>>
    BY <1>3 DEF Written, Ended, Asked, Polled
  <2>3. Whole(done[d], size[d])
    <3>1. Chains(done[d], <<>>, size[d])
      BY <2>2 DEF Sound, DownloadOK, Follows
    <3> QED BY <3>1, ChainsWhole, FlowsApart DEF Typed
  <2>4. \A x \in Flows : x # d => phase'[x] = phase[x] /\ moving'[x] = moving[x]
    BY <2>1, <2>2 DEF Typed
  <2>5. phase'[d] = "done" /\ moving' \in [Flows -> Seq(PartType)]
    BY <2>1, <2>2, FlowsApart DEF Typed
  <2> QED BY <2>1, <2>2, <2>3, <2>4, <2>5, EndSound
<1> QED BY <1>1, <1>2, <1>3

LEMMA UploadEnds ==
    ASSUME Typed, Sound, NEW u \in Uploads,
           BeginFails(u) \/ Finish(u) \/ Abort(u)
    PROVE  Typed' /\ Sound'
<1>1. CASE BeginFails(u)
  <2>1. phase' \in [Flows -> Phases]
    BY <1>1 DEF BeginFails, Typed, Phases
  <2>2. /\ Drop(Belongs(u))
        /\ UNCHANGED <<files, offset, gathered, done, reading, refused>>
        /\ \A x \in Flows :
            \/ phase'[x] = "failed"
            \/ phase'[x] = phase[x] /\ x \notin Belongs(u)
    BY <1>1 DEF BeginFails
  <2>3. moving' \in [Flows -> Seq(PartType)]
    BY <2>2, DropEnds
  <2>4. \A x \in Flows : x \notin Belongs(u) => moving'[x] = moving[x]
    BY <2>2, DropEnds
  <2> QED BY <2>1, <2>2, <2>3, <2>4, EndSound
<1>2. CASE Finish(u)
  <2>1. /\ phase[u] = "finishing"
        /\ \/ phase' = [phase EXCEPT ![u] = "done"]
           \/ phase' = [phase EXCEPT ![u] = "failed"]
        /\ UNCHANGED <<files, offset, gathered, moving, done, reading, refused>>
    BY <1>2 DEF Finish, OnlyStored
  <2>2. Whole(done[u], size[u])
    BY <2>1 DEF Sound, UploadOK
  <2>3. phase' \in [Flows -> Phases] /\ phase'[u] \in {"done", "failed"}
    BY <2>1, FlowsApart DEF Typed, Phases
  <2>4. \A x \in Flows : x # u => phase'[x] = phase[x]
    BY <2>1 DEF Typed
  <2>5. moving' \in [Flows -> Seq(PartType)]
    BY <2>1 DEF Typed
  <2> QED BY <2>1, <2>2, <2>3, <2>4, <2>5, EndSound
<1>3. CASE Abort(u)
  <2>1. /\ phase' = [phase EXCEPT ![u] = "failed"]
        /\ UNCHANGED <<files, offset, gathered, moving, done, reading, refused>>
    BY <1>3 DEF Abort, OnlyStored
  <2>2. phase' \in [Flows -> Phases] /\ phase'[u] = "failed"
    BY <2>1, FlowsApart DEF Typed, Phases
  <2>3. \A x \in Flows : x # u => phase'[x] = phase[x]
    BY <2>1 DEF Typed
  <2>4. moving' \in [Flows -> Seq(PartType)]
    BY <2>1 DEF Typed
  <2> QED BY <2>1, <2>2, <2>3, <2>4, EndSound
<1> QED BY <1>1, <1>2, <1>3

LEMMA CancelSound ==
    ASSUME Typed, Sound, NEW flows, Cancel(flows)
    PROVE  Typed' /\ Sound'
<1>1. /\ Drop(flows)
      /\ phase' = [x \in Flows |-> IF x \in flows THEN "cancelled" ELSE phase[x]]
      /\ UNCHANGED <<files, offset, gathered, done, reading, refused>>
  BY DEF Cancel
<1>2. phase' \in [Flows -> Phases]
  BY <1>1 DEF Typed, Phases
<1>3. moving' \in [Flows -> Seq(PartType)] /\ \A x \in Flows : x \notin flows => moving'[x] = moving[x]
  BY <1>1, DropEnds
<1>4. \A x \in Flows :
        \/ phase'[x] = "cancelled"
        \/ phase'[x] = phase[x] /\ x \notin flows
  BY <1>1
<1> QED BY <1>1, <1>2, <1>3, <1>4, EndSound

LEMMA SettledSound ==
    ASSUME Typed, Sound, NEW u \in Uploads, Settled(u)
    PROVE  Typed' /\ Sound'
<1>1. /\ phase[u] = "sending" /\ ~reading[u] /\ moving[u] = <<>>
      /\ Drop(Belongs(u))
      /\ UNCHANGED <<files, offset, gathered, done, reading, refused>>
  BY DEF Settled
<1>2. phase' = [x \in Flows |->
                    IF x = u THEN IF refused[u] THEN "aborting" ELSE "finishing"
                    ELSE IF x \in Belongs(u) THEN "over" ELSE phase[x]]
  BY DEF Settled
<1>3. phase' \in [Flows -> Phases]
  BY <1>2 DEF Typed, Phases
<1>4. moving' \in [Flows -> Seq(PartType)]
      /\ \A x \in Flows : x \notin Belongs(u) => moving'[x] = moving[x]
  BY <1>1, DropEnds
<1>5. ~refused[u] => Whole(done[u], size[u])
  <2>1. SUFFICES ASSUME ~refused[u] PROVE Whole(done[u], size[u])
    OBVIOUS
  <2>2. Chains(done[u], <<>>, size[u])
    BY <1>1, <2>1 DEF Sound, UploadOK, Follows
  <2> QED BY <2>2, ChainsWhole, FlowsApart DEF Typed
<1>6. \A x \in Flows :
        \/ phase'[x] = phase[x] /\ x \notin Belongs(u)
        \/ phase'[x] \in {"over", "aborting"}
        \/ x = u /\ phase'[x] = "finishing" /\ ~refused[u]
  BY <1>2 DEF Belongs
<1> QED BY <1>1, <1>3, <1>4, <1>5, <1>6, EndSound

LEMMA BeginSound ==
    ASSUME Typed, Sound, NEW u \in Uploads, Begin(u)
    PROVE  Typed' /\ Sound'
<1>1. /\ phase[u] = "idle"
      /\ phase' = [phase EXCEPT ![u] = "sending"]
      /\ Source[u] # File => phase[Source[u]] = "open"
      /\ UNCHANGED <<files, offset, gathered, moving, done, reading, refused>>
  BY DEF Begin
<1>2. Typed'
  BY <1>1 DEF Typed, Phases
<1>3. ASSUME NEW d \in Downloads PROVE DownloadOK(d)'
  BY <1>1, FlowsApart DEF Typed, Sound, DownloadOK, Follows
<1>4. ASSUME NEW v \in Uploads PROVE UploadOK(v)'
  <2>1. Source[v] # File /\ phase'[Source[v]] = "idle" => phase[Source[v]] = "idle" /\ v # u
    BY <1>1, SourceIsDownload, FlowsApart DEF Typed
  <2> QED BY <1>1, <2>1, FlowsApart DEF Typed, Sound, UploadOK, Follows, End
<1> QED BY <1>2, <1>3, <1>4 DEF Sound

LEMMA SendSound ==
    ASSUME Typed, Sound, NEW u \in Uploads, Send(u)
    PROVE  Typed' /\ Sound'
<1> DEFINE n == Read(u)
<1>1. offset[u] \in Nat /\ gathered[u] \in Nat /\ size[u] \in Nat
  BY FlowsApart DEF Typed
<1>2. /\ n \in Nat
      /\ Source[u] = File => offset[u] + n <= size[u]
      /\ Source[u] # File => n = gathered[u]
  <2>1. Part(u) \in Nat
    BY PartIsNat, FlowsApart
  <2> QED BY <1>1, <2>1 DEF Sound, UploadOK, Read, Least
<1> HIDE DEF n
<1>3. /\ phase[u] = "sending" /\ reading[u]
      /\ moving' = [moving EXCEPT ![u] = Append(@, NewPart(offset[u], n))]
      /\ offset' = [offset EXCEPT ![u] = @ + n]
      /\ gathered' = [gathered EXCEPT ![u] = 0]
      /\ UNCHANGED <<files, phase, done, reading, refused>>
  BY DEF Send, Reads, n
<1>4. NewPart(offset[u], n) \in PartType
  BY <1>1, <1>2 DEF NewPart, PartType
<1>5. Typed'
  <2>1. moving' \in [Flows -> Seq(PartType)]
    <3>1. moving[u] \in Seq(PartType)
      BY FlowsApart DEF Typed
    <3>2. Append(moving[u], NewPart(offset[u], n)) \in Seq(PartType)
      BY <1>4, <3>1
    <3> QED BY <1>3, <3>2 DEF Typed
  <2>2. offset' \in [Flows -> Nat] /\ gathered' \in [Uploads -> Nat]
    <3>1. offset[u] + n \in Nat
      BY <1>1, <1>2
    <3> QED BY <1>3, <3>1 DEF Typed
  <2> QED BY <1>3, <2>1, <2>2 DEF Typed
<1>6. ~refused[u] => Follows(u)'
  <2>1. SUFFICES ASSUME ~refused[u] PROVE Follows(u)'
    OBVIOUS
  <2>2. Chains(done[u], moving[u], offset[u])
    BY <1>3, <2>1 DEF Sound, UploadOK, Follows
  <2>3. Chains(done[u], Append(moving[u], NewPart(offset[u], n)), offset[u] + n)
    BY <1>2, <2>2, ChainsAppend, FlowsApart DEF Typed
  <2> QED BY <1>3, <2>3, FlowsApart DEF Typed, Follows
<1>7. ASSUME NEW d \in Downloads PROVE DownloadOK(d)'
  BY <1>3, FlowsApart DEF Typed, Sound, DownloadOK, Follows
<1>8. ASSUME NEW v \in Uploads PROVE UploadOK(v)'
  <2>1. CASE v = u
    <3>1. offset'[u] = offset[u] + n /\ gathered'[u] = 0
      BY <1>3, FlowsApart DEF Typed
    <3> QED BY <1>1, <1>2, <1>3, <1>6, <2>1, <3>1 DEF Sound, UploadOK
  <2>2. CASE v # u
    <3>1. /\ offset'[v] = offset[v] /\ gathered'[v] = gathered[v]
          /\ Follows(v)' = Follows(v)
      BY <1>3, <2>2, FlowsApart DEF Typed, Follows
    <3> QED BY <1>3, <3>1 DEF Sound, UploadOK
  <2> QED BY <2>1, <2>2
<1> QED BY <1>5, <1>7, <1>8 DEF Sound

LEMMA NothingLeftSound ==
    ASSUME Typed, Sound, NEW u \in Uploads, NothingLeft(u)
    PROVE  Typed' /\ Sound'
<1>1. /\ phase[u] = "sending" /\ reading[u]
      /\ Read(u) = 0 /\ BodyEnds(u)
      /\ reading' = [reading EXCEPT ![u] = FALSE]
      /\ UNCHANGED <<files, phase, offset, gathered, moving, done, refused>>
  BY DEF NothingLeft, Reads, StopReading
<1>2. Typed'
  BY <1>1 DEF Typed
<1>3. ~refused[u] => offset[u] = size[u]
  <2>1. offset[u] \in Nat /\ size[u] \in Nat \ {0}
    BY FlowsApart DEF Typed
  <2>2. CASE Source[u] = File
    BY <1>1, <2>1, <2>2 DEF BodyEnds
  <2>3. CASE Source[u] # File
    <3> DEFINE d == Source[u]
    <3>1. d \in Downloads /\ size[d] = size[u] /\ done[d] \in Seq(Pieces)
      BY <2>3, SourceIsDownload, FlowsApart DEF Typed
    <3>2. /\ phase[d] = "open" /\ done[d] # <<>> /\ moving[d] = <<>>
          /\ offset[d] = size[d] /\ gathered[u] = 0
      BY <1>1, <2>3 DEF BodyEnds, Ended, Asked, Polled, Read
    <3>3. Chains(done[d], <<>>, size[u])
      BY <3>1, <3>2 DEF Sound, DownloadOK, Follows
    <3>4. End(done[d], 0) = size[u]
      BY <2>1, <3>1, <3>3, ChainsWhole
    <3> QED BY <1>1, <2>1, <2>3, <3>2, <3>4 DEF Sound, UploadOK
  <2> QED BY <2>2, <2>3
<1>4. ASSUME NEW d \in Downloads PROVE DownloadOK(d)'
  BY <1>1 DEF Sound, DownloadOK, Follows
<1>5. ASSUME NEW v \in Uploads PROVE UploadOK(v)'
  BY <1>1, <1>3 DEF Typed, Sound, UploadOK, Follows
<1> QED BY <1>2, <1>4, <1>5 DEF Sound

LEMMA ReadFailsSound ==
    ASSUME Typed, Sound, NEW u \in Uploads, ReadFails(u)
    PROVE  Typed' /\ Sound'
<1>1. /\ phase[u] = "sending" /\ reading[u]
      /\ reading' = [reading EXCEPT ![u] = FALSE]
      /\ refused' = [refused EXCEPT ![u] = TRUE]
      /\ gathered' = [gathered EXCEPT ![u] = 0]
      /\ UNCHANGED <<files, phase, offset, moving, done>>
  BY DEF ReadFails, Reads, StopReading
<1>2. Typed'
  BY <1>1 DEF Typed
<1>3. ASSUME NEW d \in Downloads PROVE DownloadOK(d)'
  BY <1>1 DEF Sound, DownloadOK, Follows
<1>4. ASSUME NEW v \in Uploads PROVE UploadOK(v)'
  BY <1>1 DEF Typed, Sound, UploadOK, Follows
<1> QED BY <1>2, <1>3, <1>4 DEF Sound

LEMMA ComesBackSound ==
    ASSUME Typed, Sound, NEW u \in Uploads, ComesBack(u)
    PROVE  Typed' /\ Sound'
<1> DEFINE part == Head(moving[u])
           p == Came(part)
<1>1. /\ moving[u] \in Seq(PartType) /\ moving[u] # <<>>
      /\ done[u] \in Seq(Pieces) /\ offset[u] \in Nat
  BY FlowsApart DEF Typed, ComesBack
<1>2. part \in PartType /\ Tail(moving[u]) \in Seq(PartType)
  BY <1>1, HeadTailProperties
<1>3. p \in Pieces
  BY <1>2, PartsAndPieces
<1> HIDE DEF p, part
<1>4. /\ phase[u] = "sending"
      /\ moving' = [moving EXCEPT ![u] = Tail(@)]
      /\ \/ /\ done' = [done EXCEPT ![u] = Append(@, p)]
            /\ UNCHANGED <<reading, refused>>
         \/ /\ reading' = [reading EXCEPT ![u] = FALSE]
            /\ refused' = [refused EXCEPT ![u] = TRUE]
            /\ UNCHANGED done
      /\ UNCHANGED <<files, phase, offset, gathered>>
  BY DEF ComesBack, p, part
<1>5. Typed'
  <2>1. moving' \in [Flows -> Seq(PartType)]
    BY <1>2, <1>4 DEF Typed
  <2>2. Append(done[u], p) \in Seq(Pieces)
    BY <1>1, <1>3
  <2>3. done' \in [Flows -> Seq(Pieces)]
    BY <1>4, <2>2 DEF Typed
  <2> QED BY <1>4, <2>1, <2>3 DEF Typed
<1>6. ~refused[u] /\ ~refused'[u] => Follows(u)'
  <2>1. SUFFICES ASSUME ~refused[u], ~refused'[u] PROVE Follows(u)'
    OBVIOUS
  <2>2. Chains(done[u], moving[u], offset[u])
    BY <1>4, <2>1 DEF Sound, UploadOK, Follows
  <2>3. Chains(Append(done[u], p), Tail(moving[u]), offset[u])
    BY <1>1, <2>2, ChainsMove DEF p, part
  <2>4. done'[u] = Append(done[u], p) /\ moving'[u] = Tail(moving[u])
    BY <1>4, <2>1, FlowsApart DEF Typed
  <2> QED BY <1>4, <2>3, <2>4 DEF Follows
<1>7. \A d \in Downloads : done'[d] = done[d] /\ moving'[d] = moving[d]
  BY <1>4, FlowsApart DEF Typed
<1>8. ASSUME NEW d \in Downloads PROVE DownloadOK(d)'
  BY <1>4, <1>7 DEF Sound, DownloadOK, Follows
<1>9. ASSUME NEW v \in Uploads PROVE UploadOK(v)'
  <2>1. Source[v] # File => done'[Source[v]] = done[Source[v]]
    BY <1>7, SourceIsDownload
  <2>2. CASE v = u
    <3>1. refused'[u] \/ (refused'[u] = refused[u] /\ reading'[u] = reading[u])
      BY <1>4 DEF Typed
    <3> QED BY <1>4, <1>6, <2>1, <2>2, <3>1 DEF Sound, UploadOK
  <2>3. CASE v # u
    <3>1. /\ done'[v] = done[v] /\ refused'[v] = refused[v] /\ reading'[v] = reading[v]
          /\ Follows(v)' = Follows(v)
      BY <1>4, <2>3, FlowsApart DEF Typed, Follows
    <3> QED BY <1>4, <2>1, <3>1 DEF Sound, UploadOK
  <2> QED BY <2>2, <2>3
<1> QED BY <1>5, <1>8, <1>9 DEF Sound

(* What becomes of a part in the air. *)
LEMMA Fetched ==
    ASSUME NEW d, NEW i, Fetch(d, i)
    PROVE  \E result \in {"landed", "failed"} :
            /\ moving' = [moving EXCEPT ![d][i].result = result]
            /\ result = "landed" => moving[d][i].at + moving[d][i].bytes <= length[d]
BY DEF Fetch

LEMMA FetchSound ==
    ASSUME Typed, Sound, NEW d \in Downloads, NEW i \in DOMAIN moving[d], Fetch(d, i)
    PROVE  Typed' /\ Sound'
<1>1. PICK result \in {"landed", "failed"} :
        moving' = [moving EXCEPT ![d][i].result = result]
  BY Fetched
<1> DEFINE p == [moving[d][i] EXCEPT !.result = result]
<1>2. moving[d][i] \in PartType
  BY FlowsApart DEF Typed
<1>3. p \in PartType /\ p.at = moving[d][i].at /\ p.bytes = moving[d][i].bytes
  BY <1>2 DEF PartType
<1>4. moving' = [moving EXCEPT ![d] = [@ EXCEPT ![i] = p]]
  BY <1>1, FlowsApart DEF Typed
<1>5. UNCHANGED <<files, phase, offset, gathered, done, reading, refused>>
  BY DEF Fetch
<1> HIDE DEF p
<1> QED BY <1>3, <1>4, <1>5, MarkSound, FlowsApart

LEMMA SettleSound ==
    ASSUME Typed, Sound, NEW u \in Uploads, NEW i \in DOMAIN moving[u],
           NEW result \in {"landed", "failed"}, Settle(u, i, result)
    PROVE  Typed' /\ Sound'
<1> DEFINE p == [moving[u][i] EXCEPT !.result = result]
<1>1. moving[u][i] \in PartType
  BY FlowsApart DEF Typed
<1>2. p \in PartType /\ p.at = moving[u][i].at /\ p.bytes = moving[u][i].bytes
  BY <1>1 DEF PartType
<1>3. moving' = [moving EXCEPT ![u] = [@ EXCEPT ![i] = p]]
  BY FlowsApart DEF Settle, Typed
<1>4. UNCHANGED <<files, phase, offset, gathered, done, reading, refused>>
  BY DEF Settle
<1> HIDE DEF p
<1> QED BY <1>2, <1>3, <1>4, MarkSound, FlowsApart

LEMMA CountSound ==
    ASSUME Typed, Sound, NEW u \in Uploads, NEW i \in DOMAIN moving[u], Count(u, i)
    PROVE  Typed' /\ Sound'
<1> DEFINE p == [moving[u][i] EXCEPT !.wire = TRUE]
<1>1. moving[u][i] \in PartType
  BY FlowsApart DEF Typed
<1>2. p \in PartType /\ p.at = moving[u][i].at /\ p.bytes = moving[u][i].bytes
  BY <1>1 DEF PartType
<1>3. moving' = [moving EXCEPT ![u] = [@ EXCEPT ![i] = p]]
  BY FlowsApart DEF Count, Typed
<1>4. UNCHANGED <<files, phase, offset, gathered, done, reading, refused>>
  BY DEF Count
<1> HIDE DEF p
<1> QED BY <1>2, <1>3, <1>4, MarkSound, FlowsApart

LEMMA AgainSound ==
    ASSUME Typed, Sound, NEW u \in Uploads, NEW i \in DOMAIN moving[u], Again(u, i)
    PROVE  Typed' /\ Sound'
<1> DEFINE p == [moving[u][i] EXCEPT !.attempt = 2, !.wire = FALSE]
<1>1. moving[u][i] \in PartType
  BY FlowsApart DEF Typed
<1>2. p \in PartType /\ p.at = moving[u][i].at /\ p.bytes = moving[u][i].bytes
  BY <1>1 DEF PartType
<1>3. moving' = [moving EXCEPT ![u] = [@ EXCEPT ![i] = p]]
  BY FlowsApart DEF Again, Typed
<1>4. UNCHANGED <<files, phase, offset, gathered, done, reading, refused>>
  BY DEF Again
<1> HIDE DEF p
<1> QED BY <1>2, <1>3, <1>4, MarkSound, FlowsApart

LEMMA RoomSound ==
    ASSUME Typed, Sound,
           (\E x \in Flows : Hold(x)) \/ (\E b \in Connections : Grant(b))
    PROVE  Typed' /\ Sound'
<1>1. UNCHANGED watched
  BY DEF Hold, Grant, watched
<1> QED BY <1>1, Unwatched

LEMMA StepSound ==
    Typed /\ Sound /\ [Next]_vars => Typed' /\ Sound'
<1> SUFFICES ASSUME Typed, Sound, [Next]_vars PROVE Typed' /\ Sound'
  OBVIOUS
<1>1. ASSUME NEW d \in Downloads, Download(d) PROVE Typed' /\ Sound'
  <2>1. CASE Open(d)
    BY <2>1, OpenSound
  <2>2. CASE OpenFails(d) \/ BreakOff(d) \/ Written(d)
    BY <2>2, DownloadEnds
  <2>3. CASE Hold(d)
    BY <2>3, RoomSound, FlowsApart
  <2>4. CASE Ask(d)
    BY <2>4, AskSound
  <2>5. CASE \E i \in DOMAIN moving[d] : Fetch(d, i)
    BY <2>5, FetchSound
  <2>6. CASE HandOnFirst(d)
    BY <2>6, HandOnFirstSound
  <2>7. CASE HandOn(d)
    BY <2>7, HandOnSound
  <2> QED BY <1>1, <2>1, <2>2, <2>3, <2>4, <2>5, <2>6, <2>7 DEF Download
<1>2. ASSUME NEW u \in Uploads, Upload(u) PROVE Typed' /\ Sound'
  <2>1. CASE Begin(u)
    BY <2>1, BeginSound
  <2>2. CASE BeginFails(u) \/ Finish(u) \/ Abort(u)
    BY <2>2, UploadEnds
  <2>3. CASE Hold(u)
    BY <2>3, RoomSound, FlowsApart
  <2>4. CASE Send(u)
    BY <2>4, SendSound
  <2>5. CASE NothingLeft(u)
    BY <2>5, NothingLeftSound
  <2>6. CASE ReadFails(u)
    BY <2>6, ReadFailsSound
  <2>7. ASSUME NEW i \in DOMAIN moving[u],
               Count(u, i) \/ Lands(u, i) \/ Fails(u, i) \/ Again(u, i)
        PROVE  Typed' /\ Sound'
    <3>1. CASE Count(u, i)
      BY <3>1, CountSound
    <3>2. CASE Lands(u, i)
      BY <3>2, SettleSound DEF Lands
    <3>3. CASE Fails(u, i)
      BY <3>3, SettleSound DEF Fails
    <3>4. CASE Again(u, i)
      BY <3>4, AgainSound
    <3> QED BY <2>7, <3>1, <3>2, <3>3, <3>4
  <2>8. CASE ComesBack(u)
    BY <2>8, ComesBackSound
  <2>9. CASE Settled(u)
    BY <2>9, SettledSound
  <2> QED BY <1>2, <2>1, <2>2, <2>3, <2>4, <2>5, <2>6, <2>7, <2>8, <2>9 DEF Upload
<1>3. CASE \E b \in Connections : Grant(b)
  BY <1>3, RoomSound
<1>4. CASE \E flows : Cancel(flows)
  BY <1>4, CancelSound
<1>5. CASE UNCHANGED vars
  <2>1. UNCHANGED watched
    BY <1>5 DEF vars, flow, watched, body
  <2> QED BY <2>1, Unwatched
<1> QED BY <1>1, <1>2, <1>3, <1>4, <1>5 DEF Next, Work, CancelUpload, CancelDownload

-----------------------------------------------------------------------------
(* How long a file is taken to be is what the store says, or else what it  *)
(* was listed as; and no piece lands that is not there.                    *)

Learned(d) == size[d] = IF said[d] THEN length[d] ELSE listed[d]

Copied(u) ==
    LET d == Source[u] IN length[u] = length[d] /\ listed[u] = listed[d]

Reached(d) ==
    /\ phase[d] = "open" /\ done[d] = <<>> => offset[d] <= length[d]
    /\ End(done[d], 0) <= length[d]
    /\ \A i \in DOMAIN moving[d] :
        moving[d][i].result = "landed" => moving[d][i].at + moving[d][i].bytes <= length[d]
    /\ phase[d] = "done" => size[d] <= length[d]

AllRead(u) ==
    \/ phase[u] \in {"finishing", "done"}
    \/ phase[u] = "sending" /\ ~reading[u] /\ ~refused[u]

Real ==
    /\ \A d \in Downloads : Learned(d) /\ Reached(d)
    /\ \A u \in Uploads :
        /\ Source[u] = File => size[u] = length[u]
        /\ Source[u] # File => Copied(u)
        /\ AllRead(u) => size[u] <= length[u]

LEMMA RealIsWhole == Typed /\ Sound /\ Real => ArrivesWhole
<1> SUFFICES ASSUME Typed, Sound, Real, NEW x \in Flows, phase[x] = "done"
             PROVE  \/ Whole(done[x], length[x])
                    \/ /\ Whole(done[x], listed[x])
                       /\ \E d \in Downloads : x \in {d} \cup Reader(d) /\ ~said[d]
                       /\ listed[x] < length[x]
  BY DEF ArrivesWhole
<1>1. /\ length[x] \in Nat /\ listed[x] \in Nat /\ size[x] \in Nat
      /\ Whole(done[x], size[x])
  BY DEF Typed, Sound, DownloadOK, UploadOK, Flows
<1>2. size[x] <= length[x]
  BY DEF Real, Reached, AllRead, Flows
<1>3. CASE size[x] = length[x]
  BY <1>1, <1>3
<1>4. CASE size[x] # length[x]
  <2>1. PICK d \in Downloads : /\ x \in {d} \cup Reader(d)
                               /\ size[x] = size[d] /\ length[x] = length[d]
                               /\ listed[x] = listed[d]
    BY <1>4, SourceIsDownload, FlowsApart DEF Real, Copied, Typed, Reader, Flows
  <2>2. ~said[d] /\ size[d] = listed[d]
    BY <1>4, <2>1 DEF Real, Learned
  <2> QED BY <1>1, <1>2, <1>4, <2>1, <2>2
<1> QED BY <1>3, <1>4

LEMMA StartsReal == Init => Real
<1> SUFFICES ASSUME Init PROVE Real
  OBVIOUS
<1>1. Typed
  BY StartsSound
<1>2. PICK sizes \in [Flows -> UNION {Sizes[x] : x \in Flows}] :
        /\ \A u \in Uploads : Source[u] # File => sizes[u] = sizes[Source[u]]
        /\ length = [x \in Flows |-> sizes[x][1]]
        /\ listed = [x \in Flows |-> sizes[x][2]]
  BY DEF Init
<1>3. /\ size = [x \in Flows |-> IF x \in FromFiles THEN length[x] ELSE listed[x]]
      /\ said = [d \in Downloads |-> FALSE]
      /\ offset = [x \in Flows |-> 0]
      /\ moving = [x \in Flows |-> <<>>]
      /\ done = [x \in Flows |-> <<>>]
  BY DEF Init
<1>4. \A x \in Flows : phase[x] \in {"idle", "cancelled"}
  BY DEF Init
<1>5. ASSUME NEW d \in Downloads PROVE Learned(d) /\ Reached(d)
  <2>1. ~said[d] /\ size[d] = listed[d]
    BY <1>3, FlowsApart DEF FromFiles
  <2>2. /\ done[d] = <<>> /\ moving[d] = <<>> /\ length[d] \in Nat
        /\ phase[d] \notin {"open", "done"}
    BY <1>1, <1>3, <1>4, FlowsApart DEF Typed
  <2> QED BY <2>1, <2>2 DEF Learned, Reached, End
<1>6. ASSUME NEW u \in Uploads
      PROVE  /\ Source[u] = File => size[u] = length[u]
             /\ Source[u] # File => Copied(u)
             /\ AllRead(u) => size[u] <= length[u]
  <2>1. ~AllRead(u)
    BY <1>4, FlowsApart DEF AllRead
  <2>2. Source[u] = File => size[u] = length[u]
    BY <1>3, FlowsApart DEF FromFiles
  <2>3. Source[u] # File => Copied(u)
    BY <1>2, SourceIsDownload, FlowsApart DEF Copied
  <2> QED BY <2>1, <2>2, <2>3
<1> QED BY <1>5, <1>6 DEF Real

(* A step that reaches nothing new, as a download and as an upload see it. *)
Stays(d) ==
    /\ done'[d] = done[d]
    /\ moving'[d] \in {moving[d], <<>>}
    /\ phase'[d] = "open" => phase[d] = "open" /\ offset'[d] = offset[d]
    /\ phase'[d] = "done" => phase[d] = "done" \/ size[d] <= length[d]

ReadsOn(u) == AllRead(u)' => AllRead(u) \/ size[u] <= length[u]

LEMMA RealAfter ==
    ASSUME Real, UNCHANGED files,
           \A d \in Downloads : Stays(d) \/ Reached(d)',
           \A u \in Uploads : ReadsOn(u)
    PROVE  Real'
<1>1. ASSUME NEW d \in Downloads PROVE Learned(d)' /\ Reached(d)'
  <2>1. Learned(d)'
    BY DEF Real, Learned
  <2>2. Stays(d) => Reached(d)'
    BY DEF Real, Reached, Stays
  <2> QED BY <2>1, <2>2
<1>2. ASSUME NEW u \in Uploads
      PROVE  /\ Source[u] = File => size'[u] = length'[u]
             /\ Source[u] # File => Copied(u)'
             /\ AllRead(u)' => size'[u] <= length'[u]
  BY DEF Real, Copied, ReadsOn
<1> QED BY <1>1, <1>2 DEF Real

(* The steps by which flows begin, end, and wait for room. *)
LEMMA EndReal ==
    ASSUME Typed, Sound, Real,
           UNCHANGED <<files, offset, done, reading, refused>>,
           \A x \in Flows :
               /\ moving'[x] \in {moving[x], <<>>}
               /\ \/ phase'[x] = phase[x]
                  \/ phase'[x] \in {"failed", "cancelled", "over", "aborting"}
                  \/ phase[x] = "idle" /\ phase'[x] = "sending"
                  \/ phase'[x] \in {"done", "finishing"} /\ size[x] <= length[x]
    PROVE  Real'
<1>1. ASSUME NEW d \in Downloads PROVE Stays(d)
  BY FlowsApart DEF Stays
<1>2. ASSUME NEW u \in Uploads PROVE ReadsOn(u)
  <2>1. phase[u] = "idle" => reading[u]
    BY DEF Sound, UploadOK
  <2> QED BY <2>1, FlowsApart DEF ReadsOn, AllRead
<1> QED BY <1>1, <1>2, RealAfter

LEMMA DropReal ==
    ASSUME NEW flows, Drop(flows)
    PROVE  \A x \in Flows : moving'[x] \in {moving[x], <<>>}
BY DEF Drop

LEMMA DownloadEndsReal ==
    ASSUME Typed, Sound, Real, NEW d \in Downloads,
           Hold(d) \/ OpenFails(d) \/ BreakOff(d) \/ Written(d)
    PROVE  Real'
<1>1. CASE Hold(d)
  BY <1>1, EndReal DEF Hold
<1>2. CASE OpenFails(d)
  BY <1>2, EndReal DEF OpenFails
<1>3. CASE BreakOff(d)
  <2>1. \A x \in Flows : phase'[x] = phase[x] \/ phase'[x] = "failed"
    BY <1>3 DEF BreakOff, Typed
  <2> QED BY <1>3, <2>1, DropReal, EndReal DEF BreakOff
<1>4. CASE Written(d)
  <2>1. size[d] <= length[d]
    <3>1. /\ moving[d] = <<>> /\ offset[d] = size[d]
          /\ phase[d] = "open" /\ done[d] # <<>>
      BY <1>4 DEF Written, Ended, Asked, Polled
    <3>2. Chains(done[d], <<>>, size[d])
      BY <3>1 DEF Sound, DownloadOK, Follows
    <3>3. End(done[d], 0) = size[d]
      BY <3>2, ChainsWhole, FlowsApart DEF Typed
    <3> QED BY <3>3 DEF Real, Reached
  <2>2. \A x \in Flows : phase'[x] = phase[x] \/ (x = d /\ phase'[x] = "done")
    BY <1>4 DEF Written, Typed
  <2> QED BY <1>4, <2>1, <2>2, EndReal DEF Written
<1> QED BY <1>1, <1>2, <1>3, <1>4

LEMMA UploadEndsReal ==
    ASSUME Typed, Sound, Real, NEW u \in Uploads,
           Hold(u) \/ Begin(u) \/ BeginFails(u) \/ Finish(u) \/ Abort(u) \/ Settled(u)
    PROVE  Real'
<1>1. CASE Hold(u)
  BY <1>1, EndReal DEF Hold
<1>2. CASE Begin(u)
  <2>1. \A x \in Flows : phase'[x] = phase[x] \/ (phase[x] = "idle" /\ phase'[x] = "sending")
    BY <1>2 DEF Begin, Typed
  <2> QED BY <1>2, <2>1, EndReal DEF Begin
<1>3. CASE BeginFails(u)
  <2>1. \A x \in Flows : phase'[x] = phase[x] \/ phase'[x] = "failed"
    BY <1>3 DEF BeginFails
  <2> QED BY <1>3, <2>1, DropReal, EndReal DEF BeginFails
<1>4. CASE Finish(u)
  <2>1. size[u] <= length[u]
    BY <1>4 DEF Finish, Real, AllRead
  <2>2. \A x \in Flows : phase'[x] = phase[x] \/ phase'[x] = "failed"
                         \/ (x = u /\ phase'[x] = "done")
    BY <1>4 DEF Finish, Typed
  <2>3. UNCHANGED <<files, offset, moving, done, reading, refused>>
    BY <1>4 DEF Finish, OnlyStored
  <2> QED BY <2>1, <2>2, <2>3, EndReal
<1>5. CASE Abort(u)
  <2>1. \A x \in Flows : phase'[x] = phase[x] \/ phase'[x] = "failed"
    BY <1>5 DEF Abort, Typed
  <2>2. UNCHANGED <<files, offset, moving, done, reading, refused>>
    BY <1>5 DEF Abort, OnlyStored
  <2> QED BY <2>1, <2>2, EndReal
<1>6. CASE Settled(u)
  <2>1. ~refused[u] => size[u] <= length[u]
    BY <1>6 DEF Settled, Real, AllRead
  <2>2. \A x \in Flows :
          \/ phase'[x] = phase[x]
          \/ phase'[x] \in {"over", "aborting"}
          \/ x = u /\ ~refused[u] /\ phase'[x] = "finishing"
    BY <1>6 DEF Settled
  <2> QED BY <1>6, <2>1, <2>2, DropReal, EndReal DEF Settled
<1> QED BY <1>1, <1>2, <1>3, <1>4, <1>5, <1>6

LEMMA OpenReal ==
    ASSUME Typed, Sound, Real, NEW d \in Downloads, Open(d)
    PROVE  Real'
<1>1. /\ phase[d] = "idle" /\ phase' = [phase EXCEPT ![d] = "open"]
      /\ UNCHANGED <<length, listed, moving, done, reading, refused>>
  BY DEF Open
<1>2. PICK total \in Nat \ {0}, n \in Nat :
        /\ n <= length[d]
        /\ IF said'[d] THEN total = length[d] ELSE total = listed[d]
        /\ size' = [x \in Flows |-> IF x \in {d} \cup Reader(d) THEN total ELSE size[x]]
        /\ offset' = [offset EXCEPT ![d] = n]
  BY OpenTakes
<1>3. \A x \in Downloads : x # d => said'[x] = said[x]
  BY DEF Open, Typed
<1>4. ASSUME NEW x \in Downloads PROVE Learned(x)' /\ Reached(x)'
  <2>1. CASE x = d
    <3>1. done[d] = <<>> /\ moving[d] = <<>>
      BY <1>1 DEF Sound, DownloadOK
    <3>2. size'[d] = total /\ offset'[d] = n /\ phase'[d] = "open" /\ length[d] \in Nat
      BY <1>1, <1>2, FlowsApart DEF Typed
    <3>3. Reached(d)'
      BY <1>1, <1>2, <3>1, <3>2 DEF Reached, End
    <3> QED BY <1>1, <1>2, <2>1, <3>2, <3>3 DEF Learned
  <2>2. CASE x # d
    <3>1. size'[x] = size[x] /\ offset'[x] = offset[x] /\ phase'[x] = phase[x]
      BY <1>1, <1>2, <2>2, FlowsApart DEF Typed, Reader
    <3> QED BY <1>1, <1>3, <2>2, <3>1 DEF Real, Learned, Reached
  <2> QED BY <2>1, <2>2
<1>5. ASSUME NEW u \in Uploads
      PROVE  /\ Source[u] = File => size'[u] = length'[u]
             /\ Source[u] # File => Copied(u)'
             /\ AllRead(u)' => size'[u] <= length'[u]
  <2>1. phase'[u] = phase[u] /\ u # d
    BY <1>1, FlowsApart DEF Typed
  <2>2. CASE Source[u] = d
    <3>1. Source[u] # File
      BY <2>2, PartsAssumption
    <3>2. phase[u] # "sending" /\ done[u] = <<>>
      BY <1>1, <2>2, <3>1 DEF Sound, UploadOK
    <3>3. phase[u] \notin {"finishing", "done"}
      BY <3>2 DEF Sound, UploadOK, Whole
    <3> QED BY <1>1, <2>1, <3>1, <3>2, <3>3 DEF Real, Copied, AllRead
  <2>3. CASE Source[u] # d
    <3>1. size'[u] = size[u]
      BY <1>2, <2>1, <2>3, FlowsApart DEF Reader
    <3> QED BY <1>1, <2>1, <3>1 DEF Real, Copied, AllRead
  <2> QED BY <2>2, <2>3
<1> QED BY <1>4, <1>5 DEF Real

(* What a download that is under way does. *)
LEMMA DownloadReal ==
    ASSUME Typed, Real, NEW d \in Downloads,
           UNCHANGED <<files, phase, reading, refused>>,
           \A x \in Downloads : x # d => /\ moving'[x] = moving[x] /\ done'[x] = done[x]
                                         /\ offset'[x] = offset[x],
           Reached(d)'
    PROVE  Real'
<1>1. \A x \in Downloads : Stays(x) \/ Reached(x)'
  BY DEF Stays
<1>2. \A u \in Uploads : ReadsOn(u)
  BY DEF ReadsOn, AllRead
<1> QED BY <1>1, <1>2, RealAfter

LEMMA PiecesReal ==
    ASSUME Typed, Sound, Real, NEW d \in Downloads,
           Ask(d) \/ (\E i \in DOMAIN moving[d] : Fetch(d, i)) \/ HandOnFirst(d) \/ HandOn(d)
    PROVE  Real'
<1>1. /\ moving[d] \in Seq(PartType) /\ done[d] \in Seq(Pieces)
      /\ offset[d] \in Nat /\ length[d] \in Nat
  BY FlowsApart DEF Typed
<1>2. CASE Ask(d)
  <2> DEFINE p == NewPart(offset[d], PieceBytes(d))
  <2>1. /\ UNCHANGED <<files, phase, done, reading, refused>>
        /\ done[d] # <<>>
        /\ moving' = [moving EXCEPT ![d] = Append(@, p)]
        /\ \A x \in Downloads : x # d => offset'[x] = offset[x]
    BY <1>2 DEF Ask, Typed
  <2>2. p.result = "going"
    BY DEF NewPart
  <2> HIDE DEF p
  <2>3. moving'[d] = Append(moving[d], p)
    BY <2>1, FlowsApart DEF Typed
  <2>4. \A i \in DOMAIN moving'[d] : moving'[d][i] = p
          \/ (i \in DOMAIN moving[d] /\ moving'[d][i] = moving[d][i])
    BY <1>1, <2>3
  <2>5. Reached(d)'
    BY <2>1, <2>2, <2>4 DEF Real, Reached
  <2>6. \A x \in Downloads : x # d => moving'[x] = moving[x]
    BY <2>1, FlowsApart DEF Typed
  <2> QED BY <2>1, <2>5, <2>6, DownloadReal
<1>3. ASSUME NEW i \in DOMAIN moving[d], Fetch(d, i) PROVE Real'
  <2>1. PICK result \in {"landed", "failed"} :
          /\ moving' = [moving EXCEPT ![d][i].result = result]
          /\ result = "landed" => moving[d][i].at + moving[d][i].bytes <= length[d]
    BY <1>3, Fetched
  <2>2. UNCHANGED <<files, phase, offset, done, reading, refused>>
    BY <1>3 DEF Fetch
  <2> DEFINE p == [moving[d][i] EXCEPT !.result = result]
  <2>3. /\ p.at = moving[d][i].at /\ p.bytes = moving[d][i].bytes /\ p.result = result
        /\ moving' = [moving EXCEPT ![d] = [@ EXCEPT ![i] = p]]
    BY <1>1, <2>1, FlowsApart DEF Typed, PartType
  <2> HIDE DEF p
  <2>4. moving'[d] = [moving[d] EXCEPT ![i] = p]
    BY <2>3, FlowsApart DEF Typed
  <2>5. \A j \in DOMAIN moving'[d] : /\ j \in DOMAIN moving[d]
                                     /\ \/ moving'[d][j] = moving[d][j]
                                        \/ j = i /\ moving'[d][j] = p
    BY <1>1, <2>4
  <2>6. Reached(d)'
    BY <2>1, <2>2, <2>3, <2>5 DEF Real, Reached
  <2>7. \A x \in Downloads : x # d => moving'[x] = moving[x]
    BY <2>3, FlowsApart DEF Typed
  <2> QED BY <2>2, <2>6, <2>7, DownloadReal
<1>4. CASE HandOnFirst(d)
  <2>1. /\ phase[d] = "open" /\ done[d] = <<>>
        /\ done' = [done EXCEPT ![d] = Append(@, Came([at |-> 0, bytes |-> offset[d]]))]
        /\ UNCHANGED <<files, phase, offset, moving, reading, refused>>
    BY <1>4 DEF HandOnFirst, Polled, Give
  <2>2. done'[d] = Append(<<>>, [at |-> 0, bytes |-> offset[d]])
    BY <2>1, FlowsApart DEF Typed, Came
  <2>3. offset[d] <= length[d]
    BY <2>1 DEF Real, Reached
  <2>4. End(done'[d], 0) = offset[d] /\ done'[d] # <<>>
    <3>1. Append(<<>>, [at |-> 0, bytes |-> offset[d]]) # <<>>
      OBVIOUS
    <3> QED BY <1>1, <2>2, <3>1, ChainsFirst
  <2>5. Reached(d)'
    BY <2>1, <2>3, <2>4 DEF Real, Reached
  <2>6. \A x \in Downloads : x # d => done'[x] = done[x]
    BY <2>1, FlowsApart DEF Typed
  <2> QED BY <2>1, <2>5, <2>6, DownloadReal
<1>5. CASE HandOn(d)
  <2> DEFINE part == Head(moving[d])
  <2>1. /\ phase[d] = "open" /\ done[d] # <<>> /\ moving[d] # <<>>
        /\ part.result = "landed"
        /\ done' = [done EXCEPT ![d] = Append(@, Came(part))]
        /\ moving' = [moving EXCEPT ![d] = Tail(@)]
        /\ UNCHANGED <<files, phase, offset, reading, refused>>
    BY <1>5 DEF HandOn, Asked, Polled, Give
  <2>2. moving'[d] = Tail(moving[d]) /\ done'[d] = Append(done[d], Came(part))
    BY <2>1, FlowsApart DEF Typed
  <2>3. Chains(done[d], moving[d], offset[d])
    BY <2>1 DEF Sound, DownloadOK, Follows
  <2>4. End(done'[d], 0) = End(done[d], 0) + part.bytes
    BY <1>1, <2>1, <2>2, <2>3, ChainsMove
  <2>5. 1 \in DOMAIN moving[d] /\ 1 \in 1..Len(moving[d]) /\ part = moving[d][1]
    BY <1>1, <2>1
  <2>6. part.at = End(done[d], 0)
    BY <2>3, <2>5 DEF Chains, Chained
  <2>7. part.at + part.bytes <= length[d]
    BY <2>1, <2>5 DEF Real, Reached
  <2>8. done'[d] # <<>>
    BY <1>1, <2>2
  <2> HIDE DEF part
  <2>9. \A i \in DOMAIN moving'[d] : i + 1 \in DOMAIN moving[d]
                                     /\ moving'[d][i] = moving[d][i + 1]
    <3>1. /\ Tail(moving[d]) \in Seq(PartType) /\ Len(Tail(moving[d])) = Len(moving[d]) - 1
          /\ \A i \in 1..Len(Tail(moving[d])) : Tail(moving[d])[i] = moving[d][i + 1]
      BY <1>1, <2>1, HeadTailProperties
    <3>2. DOMAIN Tail(moving[d]) = 1..Len(Tail(moving[d])) /\ DOMAIN moving[d] = 1..Len(moving[d])
          /\ Len(moving[d]) \in Nat
      BY <1>1, <3>1
    <3> QED BY <2>2, <3>1, <3>2
  <2>10. Reached(d)'
    BY <2>1, <2>4, <2>6, <2>7, <2>8, <2>9 DEF Real, Reached
  <2>11. \A x \in Downloads : x # d => done'[x] = done[x] /\ moving'[x] = moving[x]
    BY <2>1, FlowsApart DEF Typed
  <2> QED BY <2>1, <2>10, <2>11, DownloadReal
<1> QED BY <1>2, <1>3, <1>4, <1>5

(* What an upload does with its own parts. *)
LEMMA UploadReal ==
    ASSUME Real, NEW u \in Uploads,
           UNCHANGED <<files, phase>>,
           \A x \in Flows : x # u => /\ moving'[x] = moving[x] /\ done'[x] = done[x]
                                     /\ offset'[x] = offset[x],
           \A v \in Uploads : ReadsOn(v)
    PROVE  Real'
<1>1. \A x \in Downloads : Stays(x)
  BY FlowsApart DEF Stays
<1> QED BY <1>1, RealAfter

LEMMA PartsReal ==
    ASSUME Typed, Sound, Real, NEW u \in Uploads,
           \/ Send(u) \/ NothingLeft(u) \/ ReadFails(u) \/ ComesBack(u)
           \/ \E i \in DOMAIN moving[u] :
                Count(u, i) \/ Lands(u, i) \/ Fails(u, i) \/ Again(u, i)
    PROVE  Real'
<1>1. CASE Send(u) \/ \E i \in DOMAIN moving[u] :
                Count(u, i) \/ Lands(u, i) \/ Fails(u, i) \/ Again(u, i)
  <2>1. UNCHANGED <<files, phase, done, reading, refused>>
    BY <1>1 DEF Send, Count, Lands, Fails, Again, Settle
  <2>2. \A x \in Flows : x # u => moving'[x] = moving[x] /\ offset'[x] = offset[x]
    BY <1>1 DEF Send, Count, Lands, Fails, Again, Settle, Typed
  <2>3. \A v \in Uploads : ReadsOn(v)
    BY <2>1 DEF ReadsOn, AllRead
  <2> QED BY <2>1, <2>2, <2>3, UploadReal
<1>2. CASE ReadFails(u) \/ ComesBack(u)
  <2>1. UNCHANGED <<files, phase, offset>>
    BY <1>2 DEF ReadFails, ComesBack
  <2>2. \A x \in Flows : x # u => moving'[x] = moving[x] /\ done'[x] = done[x]
    BY <1>2 DEF ReadFails, ComesBack, Typed
  <2>3. \A v \in Uploads : \/ refused'[v]
                           \/ reading'[v] = reading[v] /\ refused'[v] = refused[v]
    BY <1>2 DEF ReadFails, ComesBack, StopReading, Typed
  <2>4. \A v \in Uploads : ReadsOn(v)
    BY <2>1, <2>3 DEF ReadsOn, AllRead
  <2> QED BY <2>1, <2>2, <2>4, UploadReal
<1>3. CASE NothingLeft(u)
  <2>1. /\ BodyEnds(u)
        /\ reading' = [reading EXCEPT ![u] = FALSE]
        /\ UNCHANGED <<files, phase, offset, moving, done, refused>>
    BY <1>3 DEF NothingLeft, StopReading
  <2>2. size[u] <= length[u]
    <3>1. CASE Source[u] = File
      <4>1. size[u] = length[u] /\ length[u] \in Nat
        BY <3>1, FlowsApart DEF Real, Typed
      <4> QED BY <4>1
    <3>2. CASE Source[u] # File
      <4> DEFINE d == Source[u]
      <4>1. /\ d \in Downloads /\ length[u] = length[d] /\ size[u] = size[d]
            /\ done[d] \in Seq(Pieces) /\ size[d] \in Nat \ {0}
        BY <3>2, SourceIsDownload, FlowsApart DEF Real, Copied, Typed
      <4>2. /\ phase[d] = "open" /\ done[d] # <<>> /\ moving[d] = <<>>
            /\ offset[d] = size[d]
        BY <2>1, <3>2 DEF BodyEnds, Ended, Asked, Polled
      <4>3. Chains(done[d], <<>>, size[d])
        BY <4>1, <4>2 DEF Sound, DownloadOK, Follows
      <4>4. End(done[d], 0) = size[d]
        BY <4>1, <4>3, ChainsWhole
      <4> QED BY <4>1, <4>4 DEF Real, Reached
    <3> QED BY <3>1, <3>2
  <2>3. \A v \in Uploads : ReadsOn(v)
    <3>1. \A v \in Uploads : v # u => reading'[v] = reading[v]
      BY <2>1 DEF Typed
    <3> QED BY <2>1, <2>2, <3>1 DEF ReadsOn, AllRead
  <2> QED BY <2>1, <2>3, UploadReal
<1> QED BY <1>1, <1>2, <1>3

LEMMA StepReal ==
    Typed /\ Sound /\ Real /\ [Next]_vars => Real'
<1> SUFFICES ASSUME Typed, Sound, Real, [Next]_vars PROVE Real'
  OBVIOUS
<1>1. ASSUME NEW d \in Downloads, Download(d) PROVE Real'
  BY <1>1, OpenReal, DownloadEndsReal, PiecesReal DEF Download
<1>2. ASSUME NEW u \in Uploads, Upload(u) PROVE Real'
  BY <1>2, UploadEndsReal, PartsReal DEF Upload
<1>3. ASSUME NEW b \in Connections, Grant(b) PROVE Real'
  BY <1>3, EndReal DEF Grant
<1>4. ASSUME NEW flows, Cancel(flows) PROVE Real'
  <2>1. \A x \in Flows : phase'[x] = phase[x] \/ phase'[x] = "cancelled"
    BY <1>4 DEF Cancel
  <2> QED BY <1>4, <2>1, DropReal, EndReal DEF Cancel
<1>5. CASE UNCHANGED vars
  BY <1>5, EndReal DEF vars
<1> QED BY <1>1, <1>2, <1>3, <1>4, <1>5 DEF Next, Work, CancelUpload, CancelDownload

(* What is sent or fetched several parts at a time arrives whole, however  *)
(* its parts are answered, whichever of them fail, are sent again or are   *)
(* called off, and whatever else goes over the connection.  Only what a    *)
(* store does not say the length of, and had listed as too short, is cut   *)
(* off, where the listing ended.                                           *)
THEOREM FilesAlwaysArriveWhole == Spec => []ArrivesWhole
BY RealIsWhole, StartsSound, StepSound, StartsReal, StepReal, PTL DEF Spec

(* Only each_part itself ends the sending of parts. *)
LEMMA OnlySettled ==
    ASSUME Typed, [Next]_vars, NEW u \in Uploads,
           phase[u] = "sending", phase'[u] \in {"finishing", "aborting"}
    PROVE  Settled(u)
<1>1. ASSUME NEW d \in Downloads, Download(d) PROVE FALSE
  <2>1. CASE Open(d) \/ OpenFails(d) \/ BreakOff(d) \/ Written(d)
    BY <2>1, FlowsApart DEF Open, OpenFails, BreakOff, Written, Typed
  <2>2. CASE ~(Open(d) \/ OpenFails(d) \/ BreakOff(d) \/ Written(d))
    <3>1. UNCHANGED phase
      BY <1>1, <2>2 DEF Download, Hold, Ask, Fetch, HandOnFirst, HandOn
    <3> QED BY <3>1
  <2> QED BY <2>1, <2>2
<1>2. ASSUME NEW v \in Uploads, Upload(v), ~Settled(v) PROVE FALSE
  <2>1. CASE Begin(v) \/ BeginFails(v) \/ Finish(v) \/ Abort(v)
    BY <2>1, FlowsApart DEF Begin, BeginFails, Finish, Abort, Typed
  <2>2. CASE ~(Begin(v) \/ BeginFails(v) \/ Finish(v) \/ Abort(v))
    <3>1. UNCHANGED phase
      BY <1>2, <2>2 DEF Upload, Hold, Send, NothingLeft, ReadFails, Count, Lands, Fails,
         Settle, Again, ComesBack
    <3> QED BY <3>1
  <2> QED BY <2>1, <2>2
<1>3. ASSUME NEW v \in Uploads, Settled(v) PROVE v = u
  BY <1>3, FlowsApart DEF Settled, Belongs
<1>4. CASE \E b \in Connections : Grant(b)
  BY <1>4 DEF Grant
<1>5. CASE \E flows : Cancel(flows)
  BY <1>5, FlowsApart DEF Cancel
<1>6. CASE UNCHANGED vars
  BY <1>6 DEF vars
<1> QED BY <1>1, <1>2, <1>3, <1>4, <1>5, <1>6 DEF Next, Work, CancelUpload, CancelDownload

(* A store is asked to put an upload together, or to throw its parts away, *)
(* when none of them is still being written.                               *)
THEOREM PartsAreAlwaysSettledFirst == Spec => SettledFirst
<1>1. Typed /\ [Next]_vars =>
        [\A u \in Uploads :
            phase[u] = "sending" /\ phase'[u] \in {"finishing", "aborting"} =>
                \A i \in DOMAIN moving[u] : moving[u][i].result # "going"]_vars
  <2> SUFFICES ASSUME Typed, [Next]_vars, NEW u \in Uploads,
                      phase[u] = "sending", phase'[u] \in {"finishing", "aborting"}
               PROVE  \A i \in DOMAIN moving[u] : moving[u][i].result # "going"
    OBVIOUS
  <2>1. moving[u] = <<>>
    BY OnlySettled DEF Settled
  <2> QED BY <2>1
<1> QED BY <1>1, StartsSound, StepSound, PTL DEF Spec, SettledFirst
-----------------------------------------------------------------------------
(* What is counted.  Of the parts in the air some bytes are not counted    *)
(* yet; how many is put as a ledger, so that no sum has to be taken.       *)

NotYet(p) == IF p.wire THEN 0 ELSE p.bytes

Ledger(c, s) ==
    /\ c \in [0..Len(s) -> Nat]
    /\ c[0] = 0
    /\ \A i \in 1..Len(s) : c[i] = c[i - 1] + NotYet(s[i])
    /\ \A i, j \in 0..Len(s) : i <= j => c[i] <= c[j]

Owed(s, n) == \E c : Ledger(c, s) /\ c[Len(s)] = n

LEMMA OwedIsNat ==
    ASSUME NEW s \in Seq(PartType), NEW n, Owed(s, n)
    PROVE  n \in Nat
<1>1. Len(s) \in 0..Len(s)
  OBVIOUS
<1> QED BY <1>1 DEF Owed, Ledger

LEMMA OwedNothing == Owed(<<>>, 0)
<1> DEFINE c == [i \in 0..0 |-> 0]
<1>1. Len(<<>>) = 0
  OBVIOUS
<1>2. c \in [0..0 -> Nat] /\ c[0] = 0 /\ \A i, j \in 0..0 : i <= j => c[i] <= c[j]
  OBVIOUS
<1> HIDE DEF c
<1>3. Ledger(c, <<>>)
  BY <1>1, <1>2 DEF Ledger
<1> QED BY <1>1, <1>2, <1>3 DEF Owed

LEMMA OwedAppend ==
    ASSUME NEW s \in Seq(PartType), NEW n, Owed(s, n), NEW p \in PartType, ~p.wire
    PROVE  Owed(Append(s, p), n + p.bytes)
<1>1. PICK c : Ledger(c, s) /\ c[Len(s)] = n
  BY DEF Owed
<1> DEFINE m == Len(s)
           t == Append(s, p)
           e == [i \in 0..(m + 1) |-> IF i = m + 1 THEN n + p.bytes ELSE c[i]]
<1>2. /\ m \in Nat /\ Len(t) = m + 1 /\ t[m + 1] = p
      /\ \A i \in 1..m : t[i] = s[i]
  OBVIOUS
<1>3. p.bytes \in Nat /\ NotYet(p) = p.bytes
  BY DEF PartType, NotYet
<1> HIDE DEF m, t
<1>4. /\ c \in [0..m -> Nat] /\ c[0] = 0
      /\ \A i \in 1..m : c[i] = c[i - 1] + NotYet(s[i])
      /\ \A i, j \in 0..m : i <= j => c[i] <= c[j]
      /\ c[m] = n
  BY <1>1 DEF Ledger, m
<1>5. n \in Nat /\ m \in 0..m
  BY <1>2, <1>4
<1>6. \A i \in 0..m : e[i] = c[i] /\ c[i] \in Nat /\ c[i] <= n
  BY <1>2, <1>4, <1>5
<1>7. e[m + 1] = n + p.bytes /\ 0 \in 0..m
  BY <1>2
<1>8. e \in [0..(m + 1) -> Nat] /\ e[0] = 0
  BY <1>2, <1>3, <1>4, <1>5, <1>6, <1>7
<1> HIDE DEF e
<1>9. ASSUME NEW i \in 1..(m + 1)
      PROVE  e[i] = e[i - 1] + NotYet(t[i])
  <2>1. CASE i = m + 1
    <3>1. i - 1 = m
      BY <1>2, <2>1
    <3> QED BY <1>2, <1>3, <1>4, <1>5, <1>6, <1>7, <2>1, <3>1
  <2>2. CASE i # m + 1
    <3>1. i \in 1..m /\ i \in 0..m /\ i - 1 \in 0..m
      BY <1>2, <2>2
    <3> QED BY <1>2, <1>4, <1>6, <3>1
  <2> QED BY <2>1, <2>2
<1>10. ASSUME NEW i \in 0..(m + 1), NEW j \in 0..(m + 1), i <= j
       PROVE  e[i] <= e[j]
  <2>1. CASE j = m + 1
    <3>1. i = m + 1 \/ i \in 0..m
      BY <1>2
    <3> QED BY <1>3, <1>5, <1>6, <1>7, <1>8, <2>1, <3>1
  <2>2. CASE j # m + 1
    <3>1. i \in 0..m /\ j \in 0..m
      BY <1>2, <1>10, <2>2
    <3> QED BY <1>4, <1>6, <1>10, <3>1
  <2> QED BY <2>1, <2>2
<1>11. Ledger(e, t)
  BY <1>2, <1>8, <1>9, <1>10 DEF Ledger
<1> QED BY <1>2, <1>7, <1>11 DEF Owed, t

LEMMA OwedTail ==
    ASSUME NEW s \in Seq(PartType), NEW n, Owed(s, n), s # <<>>
    PROVE  \E k : Owed(Tail(s), k) /\ k <= n /\ (Head(s).wire => k = n)
<1>1. PICK c : Ledger(c, s) /\ c[Len(s)] = n
  BY DEF Owed
<1> DEFINE m == Len(s)
           t == Tail(s)
           e == [i \in 0..(m - 1) |-> c[i + 1] - c[1]]
<1>2. /\ m \in Nat \ {0} /\ Len(t) = m - 1 /\ Head(s) = s[1]
      /\ \A i \in 1..(m - 1) : t[i] = s[i + 1]
  <2>1. t \in Seq(PartType) /\ Len(t) = m - 1 /\ \A i \in 1..Len(t) : t[i] = s[i + 1]
    BY HeadTailProperties
  <2>2. m \in Nat \ {0} /\ Head(s) = s[1]
    OBVIOUS
  <2> QED BY <2>1, <2>2
<1> HIDE DEF m, t
<1>3. /\ c \in [0..m -> Nat] /\ c[0] = 0
      /\ \A i \in 1..m : c[i] = c[i - 1] + NotYet(s[i])
      /\ \A i, j \in 0..m : i <= j => c[i] <= c[j]
      /\ c[m] = n
  BY <1>1 DEF Ledger, m
<1>4. /\ 1 \in 0..m /\ 1 \in 1..m /\ m - 1 \in Nat /\ m \in 0..m
      /\ \A i \in 0..(m - 1) : i + 1 \in 0..m /\ 1 <= i + 1
  BY <1>2
<1>5. \A i \in 0..(m - 1) : c[i + 1] \in Nat /\ c[1] \in Nat /\ c[1] <= c[i + 1]
  BY <1>3, <1>4
<1>6. \A i \in 0..(m - 1) : e[i] = c[i + 1] - c[1] /\ e[i] \in Nat
  BY <1>5
<1>7. e \in [0..(m - 1) -> Nat]
  BY <1>6
<1>8. e[0] = 0 /\ e[m - 1] = n - c[1]
  <2>1. 0 \in 0..(m - 1) /\ m - 1 \in 0..(m - 1) /\ 0 + 1 = 1 /\ (m - 1) + 1 = m
    BY <1>4
  <2>2. e[0] = c[0 + 1] - c[1] /\ e[m - 1] = c[(m - 1) + 1] - c[1]
    BY <2>1
  <2>3. c[1] \in Nat
    BY <1>3, <1>4
  <2> HIDE DEF e
  <2> QED BY <1>3, <2>1, <2>2, <2>3
<1> HIDE DEF e
<1>9. ASSUME NEW i \in 1..(m - 1)
      PROVE  e[i] = e[i - 1] + NotYet(t[i])
  <2>1. i \in 0..(m - 1) /\ i - 1 \in 0..(m - 1) /\ (i - 1) + 1 = i /\ i + 1 \in 1..m
        /\ (i + 1) - 1 = i /\ i \in 0..m
    BY <1>2
  <2>2. e[i] = c[i + 1] - c[1] /\ e[i - 1] = c[i] - c[1]
    BY <1>6, <2>1
  <2>3. c[i + 1] = c[i] + NotYet(s[i + 1])
    BY <1>3, <2>1
  <2>4. t[i] = s[i + 1]
    BY <1>2
  <2>5. c[i] \in Nat /\ c[i + 1] \in Nat /\ c[1] \in Nat
    BY <1>3, <1>4, <2>1
  <2>6. NotYet(s[i + 1]) \in Int
    <3>1. s[i + 1] \in PartType
      BY <2>1 DEF m
    <3> QED BY <3>1 DEF NotYet, PartType
  <2> QED BY <2>2, <2>3, <2>4, <2>5, <2>6
<1>10. ASSUME NEW i \in 0..(m - 1), NEW j \in 0..(m - 1), i <= j
       PROVE  e[i] <= e[j]
  <2>1. i + 1 \in 0..m /\ j + 1 \in 0..m /\ i + 1 <= j + 1
    BY <1>2, <1>10
  <2> QED BY <1>3, <1>5, <1>6, <2>1
<1>11. Ledger(e, t)
  BY <1>2, <1>7, <1>8, <1>9, <1>10 DEF Ledger
<1>12. c[1] = NotYet(s[1]) /\ c[1] \in Nat /\ n \in Nat
  <2>1. c[1] = c[1 - 1] + NotYet(s[1]) /\ 1 - 1 = 0
    BY <1>3, <1>4
  <2>2. s[1] \in PartType
    BY <1>4 DEF m
  <2>3. NotYet(s[1]) \in Int
    BY <2>2 DEF NotYet, PartType
  <2> QED BY <1>3, <1>4, <2>1, <2>3
<1>13. Owed(t, n - c[1])
  BY <1>2, <1>8, <1>11 DEF Owed
<1>14. n - c[1] <= n /\ (s[1].wire => n - c[1] = n)
  BY <1>12 DEF NotYet
<1> QED BY <1>2, <1>13, <1>14 DEF t

LEMMA OwedMark ==
    ASSUME NEW s \in Seq(PartType), NEW n, Owed(s, n), NEW i \in DOMAIN s,
           NEW p \in PartType, p.bytes = s[i].bytes
    PROVE  /\ Owed([s EXCEPT ![i] = p], n - NotYet(s[i]) + NotYet(p))
           /\ NotYet(s[i]) <= n
<1>1. PICK c : Ledger(c, s) /\ c[Len(s)] = n
  BY DEF Owed
<1> DEFINE m == Len(s)
           t == [s EXCEPT ![i] = p]
           old == NotYet(s[i])
           new == NotYet(p)
           e == [j \in 0..m |-> IF j < i THEN c[j] ELSE c[j] - old + new]
<1>2. /\ m \in Nat /\ Len(t) = m /\ i \in 1..m
      /\ \A j \in 1..m : t[j] = IF j = i THEN p ELSE s[j]
  OBVIOUS
<1>3. old \in Nat /\ new \in Nat
  <2>1. s[i] \in PartType
    OBVIOUS
  <2> QED BY <2>1 DEF NotYet, PartType
<1>4. \A j \in 1..m : NotYet(s[j]) \in Nat
  <2> SUFFICES ASSUME NEW j \in 1..m PROVE NotYet(s[j]) \in Nat
    OBVIOUS
  <2>1. s[j] \in PartType
    OBVIOUS
  <2> QED BY <2>1 DEF NotYet, PartType
<1>5. NotYet(s[i]) = old /\ NotYet(t[i]) = new /\ \A j \in 1..m : j # i => NotYet(t[j]) = NotYet(s[j])
  BY <1>2
<1> HIDE DEF m, t, old, new
<1>6. /\ c \in [0..m -> Nat] /\ c[0] = 0
      /\ \A j \in 1..m : c[j] = c[j - 1] + NotYet(s[j])
      /\ \A j, k \in 0..m : j <= k => c[j] <= c[k]
      /\ c[m] = n
  BY <1>1 DEF Ledger, m
<1>7. i - 1 \in 0..m /\ i \in 0..m /\ m \in 0..m /\ c[i] = c[i - 1] + old
  BY <1>2, <1>5, <1>6
<1>8. \A j \in 0..m : ~ (j < i) => c[j] \in Nat /\ c[i - 1] \in Nat /\ c[i - 1] + old <= c[j]
  BY <1>2, <1>6, <1>7
<1>9. \A j \in 0..m : /\ j < i => e[j] = c[j]
                      /\ ~ (j < i) => e[j] = c[j] - old + new
                      /\ e[j] \in Nat
  BY <1>3, <1>6, <1>8
<1>10. e \in [0..m -> Nat] /\ e[0] = 0 /\ e[m] = n - old + new
  <2>1. e \in [0..m -> Nat]
    BY <1>9
  <2>2. 0 \in 0..m /\ 0 < i /\ ~ (m < i)
    BY <1>2
  <2> QED BY <1>6, <1>7, <1>9, <2>1, <2>2
<1> HIDE DEF e
<1>11. ASSUME NEW j \in 1..m
       PROVE  e[j] = e[j - 1] + NotYet(t[j])
  <2>1. j \in 0..m /\ j - 1 \in 0..m /\ c[j] = c[j - 1] + NotYet(s[j])
        /\ c[j] \in Nat /\ c[j - 1] \in Nat /\ NotYet(s[j]) \in Nat
    BY <1>2, <1>4, <1>6
  <2>2. CASE j < i
    <3>1. j - 1 < i /\ j # i
      BY <1>2, <2>2
    <3> QED BY <1>5, <1>9, <2>1, <2>2, <3>1
  <2>3. CASE j = i
    <3>1. j - 1 < i /\ ~ (j < i)
      BY <1>2, <2>3
    <3>2. e[j] = c[j] - old + new /\ e[j - 1] = c[j - 1]
      BY <1>9, <2>1, <3>1
    <3> QED BY <1>3, <1>5, <2>1, <2>3, <3>2
  <2>4. CASE i < j
    <3>1. ~ (j - 1 < i) /\ ~ (j < i) /\ j # i
      BY <1>2, <2>4
    <3>2. e[j] = c[j] - old + new /\ e[j - 1] = c[j - 1] - old + new
      BY <1>9, <2>1, <3>1
    <3> QED BY <1>3, <1>5, <2>1, <3>1, <3>2
  <2> QED BY <1>2, <2>2, <2>3, <2>4
<1>12. ASSUME NEW j \in 0..m, NEW k \in 0..m, j <= k
       PROVE  e[j] <= e[k]
  <2>1. c[j] <= c[k] /\ c[j] \in Nat /\ c[k] \in Nat
    BY <1>6, <1>12
  <2>2. CASE k < i
    <3>1. j < i
      BY <1>2, <1>12, <2>2
    <3> QED BY <1>9, <2>1, <2>2, <3>1
  <2>3. CASE ~ (j < i)
    <3>1. ~ (k < i)
      BY <1>2, <1>12, <2>3
    <3> QED BY <1>3, <1>9, <2>1, <2>3, <3>1
  <2>4. CASE j < i /\ ~ (k < i)
    <3>1. c[j] <= c[i - 1] /\ c[i - 1] + old <= c[k] /\ c[i - 1] \in Nat
      <4>1. j <= i - 1
        BY <1>2, <2>4
      <4> QED BY <1>6, <1>7, <1>8, <2>4, <4>1
    <3>2. e[j] = c[j] /\ e[k] = c[k] - old + new
      BY <1>9, <2>4
    <3> QED BY <1>3, <2>1, <3>1, <3>2
  <2> QED BY <2>2, <2>3, <2>4
<1>13. Ledger(e, t)
  BY <1>2, <1>10, <1>11, <1>12 DEF Ledger
<1>14. old <= n
  <2>1. ~ (m < i)
    BY <1>2
  <2> QED BY <1>3, <1>6, <1>7, <1>8, <2>1
<1> QED BY <1>2, <1>10, <1>13, <1>14 DEF Owed, t, old, new

LEMMA OwedNone == \A n : Owed(<<>>, n) => n = 0
BY DEF Owed, Ledger

(* What has been counted of an upload and what is owed of the parts in the *)
(* air is all that has been read of it, as long as no part was given up;   *)
(* and the bar that has counted it all has said so.                        *)
Bar(u) ==
    /\ counted[u] \in Int
    /\ shown[u] \in Int
    /\ shown[u] <= size[u]
    /\ counted[u] = size[u] => shown[u] = size[u]
    /\ Source[u] # File /\ phase[Source[u]] = "idle" => counted[u] = 0 /\ shown[u] = 0
    /\ refused[u] => ~reading[u]
    /\ offset[u] <= size[u]
    /\ \A i \in DOMAIN moving[u] : moving[u][i].result = "landed" => moving[u][i].wire
    /\ \E n : /\ Owed(moving[u], n)
              /\ counted[u] + n <= offset[u]
              /\ phase[u] \in {"idle", "sending"} /\ ~refused[u] =>
                    counted[u] + n = offset[u]
    /\ phase[u] \in {"finishing", "done"} => counted[u] = size[u]

(* A download hands on no more than there is. *)
Within(d) ==
    /\ End(done[d], 0) <= size[d]
    /\ \A i \in DOMAIN moving[d] : moving[d][i].at + moving[d][i].bytes <= size[d]

Bars ==
    /\ DOMAIN counted = Uploads
    /\ DOMAIN shown = Uploads
    /\ \A u \in Uploads : Bar(u)
    /\ \A d \in Downloads : Within(d)

(* The steps that count nothing and read nothing, as an upload sees them.  *)
Calm(u) ==
    /\ counted'[u] = counted[u]
    /\ shown'[u] = shown[u]
    /\ offset'[u] = offset[u]
    /\ size'[u] = size[u]
    /\ moving'[u] \in {moving[u], <<>>}
    /\ Source[u] # File /\ phase'[Source[u]] = "idle" => phase[Source[u]] = "idle"
    /\ refused'[u] => ~reading'[u]
    /\ phase'[u] \in {"idle", "sending"} /\ ~refused'[u] =>
        phase[u] \in {"idle", "sending"} /\ ~refused[u] /\ moving'[u] = moving[u]
    /\ phase'[u] \in {"finishing", "done"} =>
        phase[u] \in {"finishing", "done"} \/ counted[u] = size[u]

LEMMA CalmBar ==
    ASSUME Typed, NEW u \in Uploads, Bar(u), Calm(u)
    PROVE  Bar(u)'
<1>1. PICK n : /\ Owed(moving[u], n)
               /\ counted[u] + n <= offset[u]
               /\ phase[u] \in {"idle", "sending"} /\ ~refused[u] =>
                    counted[u] + n = offset[u]
  BY DEF Bar
<1>2. n \in Nat /\ offset[u] \in Nat /\ counted[u] \in Int
  <2>1. moving[u] \in Seq(PartType) /\ offset[u] \in Nat
    BY FlowsApart DEF Typed
  <2> QED BY <1>1, <2>1, OwedIsNat DEF Bar
<1>3. \E k : /\ Owed(moving'[u], k)
             /\ counted'[u] + k <= offset'[u]
             /\ phase'[u] \in {"idle", "sending"} /\ ~refused'[u] =>
                    counted'[u] + k = offset'[u]
  <2>1. CASE moving'[u] = moving[u]
    BY <1>1, <2>1 DEF Calm
  <2>2. CASE moving'[u] # moving[u]
    <3>1. Owed(moving'[u], 0)
      BY <2>2, OwedNothing DEF Calm
    <3>2. counted'[u] + 0 <= offset'[u]
      BY <1>1, <1>2 DEF Calm
    <3>3. ~(phase'[u] \in {"idle", "sending"} /\ ~refused'[u])
      BY <2>2 DEF Calm
    <3> QED BY <3>1, <3>2, <3>3
  <2> QED BY <2>1, <2>2
<1>4. \A i \in DOMAIN moving'[u] : moving'[u][i].result = "landed" => moving'[u][i].wire
  <2>1. CASE moving'[u] = moving[u]
    BY <2>1 DEF Bar
  <2>2. CASE moving'[u] = <<>>
    BY <2>2
  <2> QED BY <2>1, <2>2 DEF Calm
<1>5. /\ counted'[u] \in Int
      /\ shown'[u] \in Int
      /\ shown'[u] <= size'[u]
      /\ counted'[u] = size'[u] => shown'[u] = size'[u]
      /\ Source[u] # File /\ phase'[Source[u]] = "idle" => counted'[u] = 0 /\ shown'[u] = 0
      /\ refused'[u] => ~reading'[u]
      /\ offset'[u] <= size'[u]
      /\ phase'[u] \in {"finishing", "done"} => counted'[u] = size'[u]
  BY DEF Bar, Calm
<1> QED BY <1>3, <1>4, <1>5 DEF Bar

Quiet(d) ==
    /\ size'[d] = size[d]
    /\ done'[d] = done[d]
    /\ moving'[d] \in {moving[d], <<>>}

LEMMA QuietWithin ==
    ASSUME NEW d \in Downloads, Within(d), Quiet(d)
    PROVE  Within(d)'
<1>1. CASE moving'[d] = moving[d]
  BY <1>1 DEF Within, Quiet
<1>2. CASE moving'[d] = <<>>
  BY <1>2 DEF Within, Quiet
<1> QED BY <1>1, <1>2 DEF Quiet

(* Bars after a step, from what it is to every flow. *)
LEMMA BarsAfter ==
    ASSUME Typed, Bars, DOMAIN counted' = Uploads, DOMAIN shown' = Uploads,
           \A u \in Uploads : Calm(u) \/ Bar(u)',
           \A d \in Downloads : Quiet(d) \/ Within(d)'
    PROVE  Bars'
<1>1. ASSUME NEW u \in Uploads PROVE Bar(u)'
  BY CalmBar DEF Bars
<1>2. ASSUME NEW d \in Downloads PROVE Within(d)'
  BY QuietWithin DEF Bars
<1> QED BY <1>1, <1>2 DEF Bars

LEMMA StartsBars == Init => Bars
<1> SUFFICES ASSUME Init PROVE Bars
  OBVIOUS
<1>1. Typed /\ Sound
  BY StartsSound
<1>2. /\ offset = [x \in Flows |-> 0]
      /\ moving = [x \in Flows |-> <<>>]
      /\ done = [x \in Flows |-> <<>>]
      /\ refused = [u \in Uploads |-> FALSE]
      /\ counted = [u \in Uploads |-> 0]
      /\ shown = [u \in Uploads |-> 0]
  BY DEF Init
<1>3. \A x \in Flows : phase[x] \in {"idle", "cancelled"}
  BY DEF Init
<1>4. ASSUME NEW u \in Uploads PROVE Bar(u)
  <2>1. /\ counted[u] = 0 /\ shown[u] = 0 /\ offset[u] = 0 /\ moving[u] = <<>>
        /\ ~refused[u] /\ phase[u] \in {"idle", "cancelled"}
    BY <1>2, <1>3, FlowsApart
  <2>2. size[u] \in Nat \ {0}
    BY <1>1, FlowsApart DEF Typed
  <2>3. \E n : Owed(moving[u], n) /\ counted[u] + n <= offset[u]
               /\ (phase[u] \in {"idle", "sending"} /\ ~refused[u] =>
                    counted[u] + n = offset[u])
    <3>1. Owed(moving[u], 0) /\ counted[u] + 0 = offset[u]
      BY <2>1, OwedNothing
    <3> QED BY <2>1, <3>1
  <2>4. \A i \in DOMAIN moving[u] : moving[u][i].result = "landed" => moving[u][i].wire
    BY <2>1
  <2> QED BY <2>1, <2>2, <2>3, <2>4 DEF Bar
<1>5. ASSUME NEW d \in Downloads PROVE Within(d)
  <2>1. done[d] = <<>> /\ moving[d] = <<>> /\ size[d] \in Nat
    BY <1>1, <1>2, FlowsApart DEF Typed
  <2> QED BY <2>1 DEF Within, End
<1>6. DOMAIN counted = Uploads /\ DOMAIN shown = Uploads
  BY <1>2
<1> QED BY <1>4, <1>5, <1>6 DEF Bars

(* The steps by which flows begin and end count nothing. *)
LEMMA EndBars ==
    ASSUME Typed, Sound, Bars,
           UNCHANGED <<size, offset, done, reading, refused, progress>>,
           \A x \in Flows :
               \/ phase'[x] = phase[x] /\ moving'[x] = moving[x]
               \/ phase'[x] \in {"open", "failed", "cancelled", "over", "aborting"}
                  /\ moving'[x] \in {moving[x], <<>>}
               \/ phase'[x] \in {"done", "finishing"} /\ moving'[x] \in {moving[x], <<>>}
                  /\ (x \in Uploads => phase[x] = "finishing" \/ counted[x] = size[x])
               \/ phase[x] = "idle" /\ phase'[x] = "sending" /\ moving'[x] = moving[x]
    PROVE  Bars'
<1>1. ASSUME NEW u \in Uploads PROVE Calm(u)
  <2>1. refused[u] => ~reading[u]
    BY DEF Bars, Bar
  <2>2. Source[u] # File /\ phase'[Source[u]] = "idle" => phase[Source[u]] = "idle"
    BY SourceIsDownload, FlowsApart
  <2> QED BY <2>1, <2>2, FlowsApart DEF Calm
<1>2. ASSUME NEW d \in Downloads PROVE Quiet(d)
  BY FlowsApart DEF Quiet
<1>3. DOMAIN counted' = Uploads /\ DOMAIN shown' = Uploads
  BY DEF Bars
<1> QED BY <1>1, <1>2, <1>3, BarsAfter

LEMMA StillBars ==
    ASSUME Typed, Sound, Bars,
           UNCHANGED <<size, offset, phase, moving, done, reading, refused, progress>>
    PROVE  Bars'
<1>1. \A x \in Flows : phase'[x] = phase[x] /\ moving'[x] = moving[x]
  OBVIOUS
<1> QED BY <1>1, EndBars

LEMMA CalmStepBars ==
    ASSUME Typed, Sound, Bars, NEW x \in Flows,
           \/ Hold(x)
           \/ \E b \in Connections : Grant(b)
           \/ x \in Downloads /\ (OpenFails(x) \/ BreakOff(x) \/ Written(x))
           \/ x \in Uploads /\ (Begin(x) \/ BeginFails(x) \/ Finish(x) \/ Abort(x))
    PROVE  Bars'
<1>1. CASE Hold(x) \/ \E b \in Connections : Grant(b)
  <2>1. UNCHANGED <<size, offset, phase, moving, done, reading, refused, progress>>
    BY <1>1 DEF Hold, Grant
  <2> QED BY <2>1, StillBars
<1>2. CASE x \in Downloads /\ OpenFails(x)
  <2>1. UNCHANGED <<size, offset, moving, done, reading, refused, progress>>
    BY <1>2 DEF OpenFails
  <2>2. \A y \in Flows : phase'[y] = phase[y] \/ phase'[y] = "failed"
    BY <1>2 DEF OpenFails
  <2> QED BY <2>1, <2>2, EndBars
<1>3. CASE x \in Downloads /\ BreakOff(x)
  <2>1. UNCHANGED <<size, offset, done, reading, refused, progress>>
    BY <1>3 DEF BreakOff
  <2>2. moving' = [y \in Flows |-> IF y \in {x} THEN <<>> ELSE moving[y]]
    BY <1>3, Dropped DEF BreakOff
  <2>3. \A y \in Flows : (y # x /\ phase'[y] = phase[y]) \/ (y = x /\ phase'[y] = "failed")
    BY <1>3 DEF BreakOff, Typed
  <2>4. \A y \in Flows : IF y = x THEN moving'[y] = <<>> ELSE moving'[y] = moving[y]
    BY <2>2
  <2> QED BY <2>1, <2>3, <2>4, EndBars
<1>4. CASE x \in Downloads /\ Written(x)
  <2>1. UNCHANGED <<size, offset, moving, done, reading, refused, progress>>
    BY <1>4 DEF Written
  <2>2. \A y \in Flows : phase'[y] = phase[y] \/ (y \notin Uploads /\ phase'[y] = "done")
    BY <1>4, FlowsApart DEF Written, Typed
  <2> QED BY <2>1, <2>2, EndBars
<1>5. CASE x \in Uploads /\ Begin(x)
  <2>1. UNCHANGED <<size, offset, moving, done, reading, refused, progress>>
    BY <1>5 DEF Begin
  <2>2. \A y \in Flows : phase'[y] = phase[y] \/ (phase[y] = "idle" /\ phase'[y] = "sending")
    BY <1>5 DEF Begin, Typed
  <2> QED BY <2>1, <2>2, EndBars
<1>6. CASE x \in Uploads /\ BeginFails(x)
  <2>1. UNCHANGED <<size, offset, done, reading, refused, progress>>
    BY <1>6 DEF BeginFails
  <2>2. moving' = [y \in Flows |-> IF y \in Belongs(x) THEN <<>> ELSE moving[y]]
    BY <1>6, Dropped DEF BeginFails
  <2>3. \A y \in Flows : \/ y \notin Belongs(x) /\ phase'[y] = phase[y]
                         \/ y \in Belongs(x) /\ phase'[y] = "failed"
    BY <1>6 DEF BeginFails
  <2>4. \A y \in Flows : IF y \in Belongs(x) THEN moving'[y] = <<>> ELSE moving'[y] = moving[y]
    BY <2>2
  <2> QED BY <2>1, <2>3, <2>4, EndBars
<1>7. CASE x \in Uploads /\ Finish(x)
  <2>1. UNCHANGED <<size, offset, moving, done, reading, refused, progress>>
    BY <1>7 DEF Finish, OnlyStored
  <2>2. phase[x] = "finishing" /\ phase'[x] \in {"done", "failed"}
    BY <1>7 DEF Finish, Typed
  <2>3. \A y \in Flows : y # x => phase'[y] = phase[y]
    BY <1>7 DEF Finish, Typed
  <2> QED BY <2>1, <2>2, <2>3, EndBars
<1>8. CASE x \in Uploads /\ Abort(x)
  <2>1. UNCHANGED <<size, offset, moving, done, reading, refused, progress>>
    BY <1>8 DEF Abort, OnlyStored
  <2>2. \A y \in Flows : phase'[y] = phase[y] \/ phase'[y] = "failed"
    BY <1>8 DEF Abort, Typed
  <2> QED BY <2>1, <2>2, EndBars
<1> QED BY <1>1, <1>2, <1>3, <1>4, <1>5, <1>6, <1>7, <1>8

LEMMA CancelBars ==
    ASSUME Typed, Sound, Bars, NEW flows, Cancel(flows)
    PROVE  Bars'
<1>1. UNCHANGED <<size, offset, done, reading, refused, progress>>
  BY DEF Cancel
<1>2. moving' = [y \in Flows |-> IF y \in flows THEN <<>> ELSE moving[y]]
  BY Dropped DEF Cancel
<1>3. \A y \in Flows : \/ y \notin flows /\ phase'[y] = phase[y]
                       \/ y \in flows /\ phase'[y] = "cancelled"
  BY DEF Cancel
<1>4. \A y \in Flows : IF y \in flows THEN moving'[y] = <<>> ELSE moving'[y] = moving[y]
  BY <1>2
<1> QED BY <1>1, <1>3, <1>4, EndBars

(* An upload that has nothing left in the air, and gave nothing up, has    *)
(* counted the whole file.                                                 *)
LEMMA SettledBars ==
    ASSUME Typed, Sound, Bars, NEW u \in Uploads, Settled(u)
    PROVE  Bars'
<1>1. /\ phase[u] = "sending" /\ ~reading[u] /\ moving[u] = <<>>
      /\ UNCHANGED <<size, offset, done, reading, refused, progress>>
  BY DEF Settled
<1>2. moving' = [y \in Flows |-> IF y \in Belongs(u) THEN <<>> ELSE moving[y]]
  BY Dropped DEF Settled
<1>3. \A y \in Flows : IF y \in Belongs(u) THEN moving'[y] = <<>> ELSE moving'[y] = moving[y]
  BY <1>2
<1>4. ~refused[u] => counted[u] = size[u]
  <2> SUFFICES ASSUME ~refused[u] PROVE counted[u] = size[u]
    OBVIOUS
  <2>1. offset[u] = size[u]
    BY <1>1 DEF Sound, UploadOK
  <2>2. PICK n : Owed(moving[u], n) /\ counted[u] + n = offset[u]
    BY <1>1 DEF Bars, Bar
  <2>3. n = 0
    BY <1>1, <2>2, OwedNone
  <2>4. counted[u] \in Int
    BY DEF Bars, Bar
  <2> QED BY <2>1, <2>2, <2>3, <2>4
<1>5. \A y \in Flows :
        \/ y \notin Belongs(u) /\ phase'[y] = phase[y]
        \/ phase'[y] \in {"over", "aborting"}
        \/ y = u /\ phase'[y] = "finishing" /\ ~refused[u]
  BY DEF Settled, Belongs
<1> QED BY <1>1, <1>3, <1>4, <1>5, EndBars

LEMMA StopBars ==
    ASSUME Typed, Sound, Bars, NEW u \in Uploads, NothingLeft(u) \/ ReadFails(u)
    PROVE  Bars'
<1>1. /\ phase[u] = "sending"
      /\ reading' = [reading EXCEPT ![u] = FALSE]
      /\ refused' = refused \/ refused' = [refused EXCEPT ![u] = TRUE]
      /\ UNCHANGED <<size, phase, offset, moving, done, progress>>
  BY DEF NothingLeft, ReadFails, Reads, StopReading
<1>2. ASSUME NEW v \in Uploads PROVE Calm(v)
  <2>1. refused[v] => ~reading[v]
    BY DEF Bars, Bar
  <2>2. CASE v = u
    <3>1. ~reading'[v] /\ (refused'[v] \/ refused'[v] = refused[v])
      BY <1>1, <2>2 DEF Typed
    <3> QED BY <1>1, <3>1 DEF Calm
  <2>3. CASE v # u
    <3>1. reading'[v] = reading[v] /\ refused'[v] = refused[v]
      BY <1>1, <2>3 DEF Typed
    <3> QED BY <1>1, <2>1, <3>1 DEF Calm
  <2> QED BY <2>2, <2>3
<1>3. ASSUME NEW d \in Downloads PROVE Quiet(d)
  BY <1>1 DEF Quiet
<1>4. DOMAIN counted' = Uploads /\ DOMAIN shown' = Uploads
  BY <1>1 DEF Bars
<1> QED BY <1>2, <1>3, <1>4, BarsAfter

(* What a download does, uploads do not see. *)
LEMMA DownloadCalm ==
    ASSUME Typed, Bars, NEW d \in Downloads,
           UNCHANGED <<size, reading, refused, progress>>,
           \A x \in Flows : x # d => /\ phase'[x] = phase[x] /\ moving'[x] = moving[x]
                                     /\ done'[x] = done[x] /\ offset'[x] = offset[x],
           phase'[d] = "idle" => phase[d] = "idle",
           Within(d)'
    PROVE  Bars'
<1>1. ASSUME NEW u \in Uploads PROVE Calm(u)
  <2>1. refused[u] => ~reading[u]
    BY DEF Bars, Bar
  <2>2. phase'[u] = phase[u] /\ moving'[u] = moving[u] /\ offset'[u] = offset[u]
    BY FlowsApart
  <2>3. Source[u] # File /\ phase'[Source[u]] = "idle" => phase[Source[u]] = "idle"
    BY SourceIsDownload, FlowsApart
  <2> QED BY <2>1, <2>2, <2>3 DEF Calm
<1>2. ASSUME NEW x \in Downloads PROVE Quiet(x) \/ Within(x)'
  BY FlowsApart DEF Quiet
<1>3. DOMAIN counted' = Uploads /\ DOMAIN shown' = Uploads
  BY DEF Bars
<1> QED BY <1>1, <1>2, <1>3, BarsAfter

(* The bar of a copy is told how long the file is before anything moves.   *)
LEMMA OpenBars ==
    ASSUME Typed, Sound, Bars, NEW d \in Downloads, Open(d)
    PROVE  Bars'
<1>1. /\ phase[d] = "idle"
      /\ phase' = [phase EXCEPT ![d] = "open"]
      /\ UNCHANGED <<moving, done, reading, refused, progress>>
  BY DEF Open
<1>2. PICK total \in Nat \ {0}, n \in Nat :
        /\ size' = [x \in Flows |-> IF x \in {d} \cup Reader(d) THEN total ELSE size[x]]
        /\ offset' = [offset EXCEPT ![d] = n]
  BY OpenTakes
<1>3. ASSUME NEW u \in Uploads PROVE Calm(u) \/ Bar(u)'
  <2>1. /\ phase'[u] = phase[u] /\ offset'[u] = offset[u] /\ u # d
        /\ refused[u] => ~reading[u]
    BY <1>1, <1>2, FlowsApart DEF Typed, Bars, Bar
  <2>2. CASE Source[u] = d
    <3>1. /\ Source[u] # File /\ phase'[d] = "open" /\ size'[u] = total
      BY <1>1, <1>2, <2>2, PartsAssumption, FlowsApart DEF Typed, Reader
    <3>2. /\ phase[u] # "sending" /\ offset[u] = 0 /\ done[u] = <<>>
          /\ counted[u] = 0 /\ shown[u] = 0
      BY <1>1, <2>2, <3>1 DEF Sound, UploadOK, Bars, Bar
    <3>3. phase[u] \notin {"finishing", "done"}
      BY <3>2 DEF Sound, UploadOK, Whole
    <3>4. /\ shown'[u] = 0 /\ counted'[u] = 0 /\ offset'[u] = 0
          /\ size'[u] \in Nat \ {0} /\ phase'[Source[u]] # "idle"
          /\ phase'[u] \notin {"finishing", "done"}
          /\ moving'[u] = moving[u] /\ refused'[u] = refused[u] /\ reading'[u] = reading[u]
      BY <1>1, <2>1, <2>2, <3>1, <3>2, <3>3
    <3>5. /\ shown'[u] <= size'[u] /\ offset'[u] <= size'[u] /\ counted'[u] # size'[u]
      BY <3>4
    <3>6. \E k : /\ Owed(moving'[u], k)
                 /\ counted'[u] + k <= offset'[u]
                 /\ phase'[u] \in {"idle", "sending"} /\ ~refused'[u] =>
                        counted'[u] + k = offset'[u]
      BY <1>1, <2>1 DEF Bars, Bar
    <3>7. \A i \in DOMAIN moving'[u] : moving'[u][i].result = "landed" => moving'[u][i].wire
      BY <3>4 DEF Bars, Bar
    <3>8. counted'[u] \in Int /\ shown'[u] \in Int
      BY <3>4
    <3> QED BY <2>1, <3>4, <3>5, <3>6, <3>7, <3>8 DEF Bar
  <2>3. CASE Source[u] # d
    <3>1. size'[u] = size[u]
      BY <1>2, <2>1, <2>3, FlowsApart DEF Reader
    <3>2. Source[u] # File => phase'[Source[u]] = phase[Source[u]]
      BY <1>1, <2>3, SourceIsDownload, FlowsApart DEF Typed
    <3> QED BY <1>1, <2>1, <3>1, <3>2 DEF Calm
  <2> QED BY <2>2, <2>3
<1>4. ASSUME NEW x \in Downloads PROVE Quiet(x) \/ Within(x)'
  <2>1. CASE x = d
    <3>1. done[d] = <<>> /\ moving[d] = <<>>
      BY <1>1 DEF Sound, DownloadOK
    <3>2. size'[d] \in Nat
      BY <1>2, FlowsApart
    <3> QED BY <1>1, <2>1, <3>1, <3>2 DEF Within, End
  <2>2. CASE x # d
    <3>1. size'[x] = size[x]
      BY <1>2, <2>2, FlowsApart DEF Reader
    <3> QED BY <1>1, <3>1 DEF Quiet
  <2> QED BY <2>1, <2>2
<1>5. DOMAIN counted' = Uploads /\ DOMAIN shown' = Uploads
  BY <1>1 DEF Bars
<1> QED BY <1>3, <1>4, <1>5, BarsAfter

LEMMA AskBars ==
    ASSUME Typed, Sound, Bars, NEW d \in Downloads, Ask(d)
    PROVE  Bars'
<1> DEFINE n == PieceBytes(d)
           p == NewPart(offset[d], n)
<1>1. UNCHANGED <<size, phase, done, reading, refused, progress>>
  BY DEF Ask
<1>2. /\ moving' = [moving EXCEPT ![d] = Append(@, p)]
      /\ offset' = [offset EXCEPT ![d] = @ + n]
  BY DEF Ask
<1>3. p.at + p.bytes <= size[d] /\ p \in PartType
  <2>1. offset[d] <= size[d] /\ offset[d] \in Nat /\ size[d] \in Nat
    BY FlowsApart DEF Typed, Sound, DownloadOK
  <2>2. Part(d) \in Nat
    BY PartIsNat, FlowsApart
  <2>3. n \in Nat /\ offset[d] + n <= size[d]
    BY <2>1, <2>2 DEF PieceBytes, Least
  <2> HIDE DEF n
  <2> QED BY <2>1, <2>3 DEF NewPart, PartType
<1> HIDE DEF n, p
<1>4. \A x \in Flows : x # d => moving'[x] = moving[x] /\ offset'[x] = offset[x]
  BY <1>2 DEF Typed
<1>5. Within(d)'
  <2>1. moving[d] \in Seq(PartType) /\ moving'[d] = Append(moving[d], p)
    BY <1>2, FlowsApart DEF Typed
  <2>2. \A i \in DOMAIN moving'[d] : moving'[d][i] = p
          \/ (i \in DOMAIN moving[d] /\ moving'[d][i] = moving[d][i])
    BY <1>3, <2>1
  <2> QED BY <1>1, <1>3, <2>2, FlowsApart DEF Bars, Within
<1> QED BY <1>1, <1>4, <1>5, DownloadCalm

LEMMA FetchBars ==
    ASSUME Typed, Sound, Bars, NEW d \in Downloads, NEW i \in DOMAIN moving[d], Fetch(d, i)
    PROVE  Bars'
<1>1. PICK result \in {"landed", "failed"} :
        moving' = [moving EXCEPT ![d][i].result = result]
  BY Fetched
<1>2. UNCHANGED <<size, phase, offset, done, reading, refused, progress>>
  BY DEF Fetch
<1> DEFINE p == [moving[d][i] EXCEPT !.result = result]
<1>3. /\ moving[d] \in Seq(PartType) /\ moving[d][i] \in PartType
      /\ moving' = [moving EXCEPT ![d] = [@ EXCEPT ![i] = p]]
  BY <1>1, FlowsApart DEF Typed
<1>4. p.at = moving[d][i].at /\ p.bytes = moving[d][i].bytes
  BY <1>3 DEF PartType
<1> HIDE DEF p
<1>5. \A x \in Flows : x # d => moving'[x] = moving[x]
  BY <1>3 DEF Typed
<1>6. moving'[d] = [moving[d] EXCEPT ![i] = p]
  BY <1>3, FlowsApart DEF Typed
<1>7. \A j \in DOMAIN moving'[d] : /\ j \in DOMAIN moving[d]
                                   /\ moving'[d][j].at = moving[d][j].at
                                   /\ moving'[d][j].bytes = moving[d][j].bytes
  BY <1>3, <1>4, <1>6
<1>8. Within(d)'
  BY <1>2, <1>7, FlowsApart DEF Bars, Within
<1> QED BY <1>2, <1>5, <1>8, DownloadCalm

LEMMA HandOnBars ==
    ASSUME Typed, Sound, Bars, NEW d \in Downloads, HandOnFirst(d) \/ HandOn(d)
    PROVE  Bars'
<1>1. UNCHANGED <<size, phase, offset, reading, refused, progress>>
  BY DEF HandOnFirst, HandOn
<1>2. CASE HandOnFirst(d)
  <2>1. /\ done[d] = <<>> /\ moving' = moving
        /\ done' = [done EXCEPT ![d] = Append(@, Came([at |-> 0, bytes |-> offset[d]]))]
    BY <1>2 DEF HandOnFirst, Give
  <2>2. done'[d] = Append(<<>>, [at |-> 0, bytes |-> offset[d]])
    BY <2>1, FlowsApart DEF Typed, Came
  <2>3. offset[d] \in Nat /\ offset[d] <= size[d]
    BY FlowsApart DEF Typed, Sound, DownloadOK
  <2>4. End(done'[d], 0) = offset[d]
    BY <2>2, <2>3, ChainsFirst
  <2>5. Within(d)'
    BY <1>1, <2>1, <2>3, <2>4 DEF Bars, Within
  <2>6. \A x \in Flows : x # d => done'[x] = done[x]
    BY <2>1 DEF Typed
  <2> QED BY <1>1, <2>1, <2>5, <2>6, DownloadCalm
<1>3. CASE HandOn(d)
  <2> DEFINE part == Head(moving[d])
  <2>1. /\ phase[d] = "open" /\ done[d] # <<>> /\ moving[d] # <<>>
        /\ done' = [done EXCEPT ![d] = Append(@, Came(part))]
        /\ moving' = [moving EXCEPT ![d] = Tail(@)]
    BY <1>3 DEF HandOn, Asked, Polled, Give
  <2>2. /\ moving[d] \in Seq(PartType) /\ done[d] \in Seq(Pieces) /\ offset[d] \in Nat
        /\ moving'[d] = Tail(moving[d]) /\ done'[d] = Append(done[d], Came(part))
    BY <2>1, FlowsApart DEF Typed
  <2>3. Chains(done[d], moving[d], offset[d])
    BY <2>1 DEF Sound, DownloadOK, Follows
  <2>4. End(done'[d], 0) = End(done[d], 0) + part.bytes
    BY <2>1, <2>2, <2>3, ChainsMove
  <2>5. 1 \in DOMAIN moving[d] /\ 1 \in 1..Len(moving[d]) /\ part = moving[d][1]
    BY <2>1, <2>2
  <2>6. part.at = End(done[d], 0)
    BY <2>3, <2>5 DEF Chains, Chained
  <2>7. part.at + part.bytes <= size[d]
    BY <2>5 DEF Bars, Within
  <2> HIDE DEF part
  <2>8. \A i \in DOMAIN moving'[d] : i + 1 \in DOMAIN moving[d]
                                     /\ moving'[d][i] = moving[d][i + 1]
    <3>1. /\ Tail(moving[d]) \in Seq(PartType) /\ Len(Tail(moving[d])) = Len(moving[d]) - 1
          /\ \A i \in 1..Len(Tail(moving[d])) : Tail(moving[d])[i] = moving[d][i + 1]
      BY <2>1, <2>2, HeadTailProperties
    <3>2. DOMAIN Tail(moving[d]) = 1..Len(Tail(moving[d])) /\ DOMAIN moving[d] = 1..Len(moving[d])
          /\ Len(moving[d]) \in Nat
      BY <2>2, <3>1
    <3> QED BY <2>2, <3>1, <3>2
  <2>9. Within(d)'
    BY <1>1, <2>4, <2>6, <2>7, <2>8 DEF Bars, Within
  <2>10. \A x \in Flows : x # d => done'[x] = done[x] /\ moving'[x] = moving[x]
    BY <2>1 DEF Typed
  <2> QED BY <1>1, <2>9, <2>10, DownloadCalm
<1> QED BY <1>2, <1>3

(* What is done to the parts of one upload, the other flows do not see. *)
LEMMA UploadCalm ==
    ASSUME Typed, Bars, NEW u \in Uploads,
           UNCHANGED <<size, phase>>,
           DOMAIN counted' = Uploads, DOMAIN shown' = Uploads,
           \A x \in Flows : x # u => /\ moving'[x] = moving[x]
                                     /\ done'[x] = done[x] /\ offset'[x] = offset[x],
           \A v \in Uploads : v # u => /\ reading'[v] = reading[v] /\ refused'[v] = refused[v]
                                       /\ counted'[v] = counted[v] /\ shown'[v] = shown[v],
           Bar(u)'
    PROVE  Bars'
<1>1. ASSUME NEW v \in Uploads PROVE Calm(v) \/ Bar(v)'
  <2>1. refused[v] => ~reading[v]
    BY DEF Bars, Bar
  <2>2. CASE v # u
    BY <2>1, <2>2, FlowsApart DEF Calm
  <2> QED BY <2>2
<1>2. ASSUME NEW d \in Downloads PROVE Quiet(d)
  BY FlowsApart DEF Quiet
<1> QED BY <1>1, <1>2, BarsAfter

(* An upload after a step, put together from what it has to keep. *)
LEMMA BarAfter ==
    ASSUME Sound, NEW u \in Uploads, NEW n, UNCHANGED phase,
           Owed(moving'[u], n), counted'[u] + n <= offset'[u],
           ~refused'[u] => counted'[u] + n = offset'[u],
           counted'[u] \in Int, shown'[u] \in Int,
           shown'[u] <= size'[u],
           counted'[u] = size'[u] => shown'[u] = size'[u],
           refused'[u] => ~reading'[u],
           offset'[u] <= size'[u],
           \A i \in DOMAIN moving'[u] :
                moving'[u][i].result = "landed" => moving'[u][i].wire,
           phase'[u] = "sending"
    PROVE  Bar(u)'
<1>1. ~(Source[u] # File /\ phase[Source[u]] = "idle")
  BY DEF Sound, UploadOK
<1> QED BY <1>1 DEF Bar

(* What is sent is read, and what is read there is. *)
LEMMA SendBars ==
    ASSUME Typed, Sound, Bars, NEW u \in Uploads, Send(u)
    PROVE  Bars'
<1> DEFINE n == Read(u)
           p == NewPart(offset[u], n)
<1>1. /\ phase[u] = "sending" /\ reading[u]
      /\ moving' = [moving EXCEPT ![u] = Append(@, p)]
      /\ offset' = [offset EXCEPT ![u] = @ + n]
      /\ UNCHANGED <<size, phase, done, reading, refused, progress>>
  BY DEF Send, Reads
<1>2. /\ offset[u] \in Nat /\ gathered[u] \in Nat /\ size[u] \in Nat
      /\ moving[u] \in Seq(PartType)
  BY FlowsApart DEF Typed
<1>3. ~refused[u]
  BY <1>1 DEF Bars, Bar
<1>4. n \in Nat /\ offset[u] + n <= size[u]
  <2>1. CASE Source[u] = File
    <3>1. Part(u) \in Nat
      BY PartIsNat, FlowsApart
    <3>2. offset[u] <= size[u]
      BY DEF Bars, Bar
    <3> QED BY <1>2, <2>1, <3>1, <3>2 DEF Read, Least
  <2>2. CASE Source[u] # File
    <3>1. Source[u] \in Downloads /\ size[u] = size[Source[u]]
      BY <2>2, SourceIsDownload DEF Typed
    <3>2. n = gathered[u]
      BY <2>2 DEF Read
    <3>3. offset[u] + gathered[u] = End(done[Source[u]], 0)
      BY <1>1, <1>3, <2>2 DEF Sound, UploadOK
    <3>4. End(done[Source[u]], 0) <= size[Source[u]]
      BY <3>1 DEF Bars, Within
    <3> HIDE DEF n
    <3> QED BY <1>2, <3>1, <3>2, <3>3, <3>4
  <2> QED BY <2>1, <2>2
<1> HIDE DEF n
<1>5. p \in PartType /\ ~p.wire /\ p.bytes = n /\ p.result = "going"
  BY <1>2, <1>4 DEF NewPart, PartType
<1>6. PICK k : Owed(moving[u], k) /\ counted[u] + k = offset[u]
  BY <1>1, <1>3 DEF Bars, Bar
<1>7. k \in Nat /\ counted[u] \in Int
  BY <1>2, <1>6, OwedIsNat DEF Bars, Bar
<1> HIDE DEF p
<1>8. moving'[u] = Append(moving[u], p) /\ offset'[u] = offset[u] + n
  BY <1>1, FlowsApart DEF Typed
<1>9. Owed(moving'[u], k + n)
  BY <1>2, <1>5, <1>6, <1>8, OwedAppend
<1>10. counted'[u] + (k + n) = offset'[u] /\ offset'[u] <= size'[u]
  BY <1>1, <1>2, <1>4, <1>6, <1>7, <1>8
<1>11. \A i \in DOMAIN moving'[u] :
            moving'[u][i].result = "landed" => moving'[u][i].wire
  <2>1. \A i \in DOMAIN moving'[u] : moving'[u][i] = p
          \/ (i \in DOMAIN moving[u] /\ moving'[u][i] = moving[u][i])
    BY <1>2, <1>5, <1>8
  <2> QED BY <1>5, <2>1 DEF Bars, Bar
<1>12. Bar(u)'
  <2>1. /\ counted'[u] \in Int /\ shown'[u] \in Int
        /\ shown'[u] <= size'[u]
        /\ counted'[u] = size'[u] => shown'[u] = size'[u]
        /\ refused'[u] => ~reading'[u]
        /\ phase'[u] = "sending"
    BY <1>1 DEF Bars, Bar
  <2>2. counted'[u] + (k + n) <= offset'[u]
    BY <1>1, <1>2, <1>4, <1>8, <1>10
  <2> QED BY <1>1, <1>9, <1>10, <1>11, <2>1, <2>2, BarAfter
<1>13. \A x \in Flows : x # u => moving'[x] = moving[x] /\ offset'[x] = offset[x]
  BY <1>1 DEF Typed
<1>14. DOMAIN counted' = Uploads /\ DOMAIN shown' = Uploads
  BY <1>1 DEF Bars
<1> QED BY <1>1, <1>12, <1>13, <1>14, UploadCalm

(* What happens to one part in the air. *)
LEMMA MarkBars ==
    ASSUME Typed, Sound, Bars, NEW u \in Uploads, NEW i \in DOMAIN moving[u],
           NEW p \in PartType, p.bytes = moving[u][i].bytes,
           p.result = "landed" => p.wire,
           phase[u] = "sending",
           moving' = [moving EXCEPT ![u] = [@ EXCEPT ![i] = p]],
           UNCHANGED <<size, phase, offset, done, reading, refused>>,
           DOMAIN counted' = Uploads, DOMAIN shown' = Uploads,
           \A v \in Uploads : v # u => counted'[v] = counted[v] /\ shown'[v] = shown[v],
           counted'[u] = counted[u] + NotYet(moving[u][i]) - NotYet(p),
           shown'[u] = counted'[u] \/ (shown'[u] = shown[u] /\ counted'[u] < size[u])
               \/ (shown'[u] = shown[u] /\ counted'[u] = counted[u])
    PROVE  Bars'
<1>1. /\ moving[u] \in Seq(PartType) /\ moving[u][i] \in PartType
      /\ offset[u] \in Nat /\ size[u] \in Nat
  BY FlowsApart DEF Typed
<1>2. PICK k : /\ Owed(moving[u], k)
               /\ counted[u] + k <= offset[u]
               /\ ~refused[u] => counted[u] + k = offset[u]
  BY DEF Bars, Bar
<1>3. k \in Nat /\ counted[u] \in Int
  BY <1>1, <1>2, OwedIsNat DEF Bars, Bar
<1>4. moving'[u] = [moving[u] EXCEPT ![i] = p]
  BY FlowsApart DEF Typed
<1> DEFINE old == NotYet(moving[u][i])
           new == NotYet(p)
<1>5. old \in Nat /\ new \in Nat
  BY <1>1 DEF NotYet, PartType
<1>6. Owed(moving'[u], k - old + new) /\ old <= k
  BY <1>1, <1>2, <1>4, OwedMark
<1> HIDE DEF old, new
<1>7. counted'[u] = counted[u] + old - new
  BY DEF old, new
<1>8. /\ counted'[u] + (k - old + new) <= offset'[u]
      /\ ~refused'[u] => counted'[u] + (k - old + new) = offset'[u]
  BY <1>1, <1>2, <1>3, <1>5, <1>7
<1>9. offset[u] <= size[u] /\ shown[u] <= size[u] /\ shown[u] \in Int
      /\ (counted[u] = size[u] => shown[u] = size[u])
      /\ (refused[u] => ~reading[u])
  BY DEF Bars, Bar
<1>10. counted'[u] \in Int /\ counted'[u] <= size[u]
  <2>1. counted'[u] \in Int
    BY <1>3, <1>5, <1>7
  <2>2. k - old + new \in Int /\ k - old + new >= 0
    BY <1>3, <1>5, <1>6
  <2>3. offset'[u] = offset[u]
    OBVIOUS
  <2> QED BY <1>1, <1>8, <1>9, <2>1, <2>2, <2>3
<1>11. /\ shown'[u] \in Int /\ shown'[u] <= size'[u]
       /\ counted'[u] = size'[u] => shown'[u] = size'[u]
  BY <1>1, <1>9, <1>10
<1>12. \A j \in DOMAIN moving'[u] :
            moving'[u][j].result = "landed" => moving'[u][j].wire
  <2>1. \A j \in DOMAIN moving'[u] : (j = i /\ moving'[u][j] = p)
          \/ (j \in DOMAIN moving[u] /\ moving'[u][j] = moving[u][j])
    BY <1>1, <1>4
  <2> QED BY <2>1 DEF Bars, Bar
<1>13. Bar(u)'
  BY <1>6, <1>8, <1>9, <1>10, <1>11, <1>12, BarAfter
<1>14. \A x \in Flows : x # u => moving'[x] = moving[x]
  BY DEF Typed
<1> QED BY <1>13, <1>14, UploadCalm

LEMMA CountBars ==
    ASSUME Typed, Sound, Bars, NEW u \in Uploads, NEW i \in DOMAIN moving[u], Count(u, i)
    PROVE  Bars'
<1> DEFINE p == [moving[u][i] EXCEPT !.wire = TRUE]
<1>1. moving[u][i] \in PartType /\ size[u] \in Nat
  BY FlowsApart DEF Typed
<1>2. p \in PartType /\ p.bytes = moving[u][i].bytes /\ p.wire
  BY <1>1 DEF PartType
<1>3. /\ moving' = [moving EXCEPT ![u] = [@ EXCEPT ![i] = p]]
      /\ phase[u] = "sending"
      /\ ~moving[u][i].wire
      /\ UNCHANGED <<size, phase, offset, done, reading, refused>>
  BY FlowsApart DEF Count, Going, Typed
<1> HIDE DEF p
<1>4. /\ counted' = [counted EXCEPT ![u] = @ + moving[u][i].bytes]
      /\ \/ shown' = [shown EXCEPT ![u] = counted'[u]]
         \/ counted'[u] < size[u] /\ shown' = shown
  BY DEF Count
<1>5. DOMAIN counted = Uploads /\ DOMAIN shown = Uploads /\ counted[u] \in Int
  BY DEF Bars, Bar
<1>6. /\ counted'[u] = counted[u] + moving[u][i].bytes
      /\ \A v \in Uploads : v # u => counted'[v] = counted[v] /\ shown'[v] = shown[v]
      /\ DOMAIN counted' = Uploads /\ DOMAIN shown' = Uploads
      /\ shown'[u] = counted'[u] \/ (shown'[u] = shown[u] /\ counted'[u] < size[u])
  BY <1>4, <1>5
<1>7. counted'[u] = counted[u] + NotYet(moving[u][i]) - NotYet(p)
  BY <1>1, <1>2, <1>3, <1>5, <1>6 DEF NotYet, PartType
<1> QED BY <1>2, <1>3, <1>6, <1>7, MarkBars

LEMMA SettleBars ==
    ASSUME Typed, Sound, Bars, NEW u \in Uploads, NEW i \in DOMAIN moving[u],
           Lands(u, i) \/ Fails(u, i)
    PROVE  Bars'
<1>1. PICK result \in {"landed", "failed"} :
        /\ Settle(u, i, result)
        /\ result = "landed" => moving[u][i].wire
  BY DEF Lands, Fails
<1> DEFINE p == [moving[u][i] EXCEPT !.result = result]
<1>2. moving[u][i] \in PartType
  BY FlowsApart DEF Typed
<1>3. /\ p \in PartType /\ p.bytes = moving[u][i].bytes /\ p.wire = moving[u][i].wire
      /\ p.result = result
  BY <1>2 DEF PartType
<1>4. /\ moving' = [moving EXCEPT ![u] = [@ EXCEPT ![i] = p]]
      /\ phase[u] = "sending"
      /\ UNCHANGED <<size, phase, offset, done, reading, refused, progress>>
  BY <1>1, FlowsApart DEF Settle, Lands, Fails, Going, Typed
<1> HIDE DEF p
<1>5. DOMAIN counted = Uploads /\ DOMAIN shown = Uploads /\ counted[u] \in Int
  BY DEF Bars, Bar
<1>6. NotYet(p) = NotYet(moving[u][i]) /\ NotYet(p) \in Nat
  BY <1>2, <1>3 DEF NotYet, PartType
<1>7. counted'[u] = counted[u] + NotYet(moving[u][i]) - NotYet(p)
  BY <1>4, <1>5, <1>6
<1> QED BY <1>1, <1>3, <1>4, <1>5, <1>7, MarkBars

LEMMA AgainBars ==
    ASSUME Typed, Sound, Bars, NEW u \in Uploads, NEW i \in DOMAIN moving[u], Again(u, i)
    PROVE  Bars'
<1> DEFINE p == [moving[u][i] EXCEPT !.attempt = 2, !.wire = FALSE]
<1>1. moving[u][i] \in PartType /\ size[u] \in Nat
  BY FlowsApart DEF Typed
<1>2. p \in PartType /\ p.bytes = moving[u][i].bytes /\ ~p.wire /\ p.result = moving[u][i].result
  BY <1>1 DEF PartType
<1>3. /\ moving' = [moving EXCEPT ![u] = [@ EXCEPT ![i] = p]]
      /\ phase[u] = "sending"
      /\ moving[u][i].result = "going"
      /\ UNCHANGED <<size, phase, offset, done, reading, refused, shown>>
  BY FlowsApart DEF Again, Going, Typed
<1> HIDE DEF p
<1>4. counted' = [counted EXCEPT ![u] =
                    @ - (IF moving[u][i].wire THEN moving[u][i].bytes ELSE 0)]
  BY DEF Again
<1>5. DOMAIN counted = Uploads /\ DOMAIN shown = Uploads /\ counted[u] \in Int
  BY DEF Bars, Bar
<1>6. /\ counted'[u] = counted[u] - (IF moving[u][i].wire THEN moving[u][i].bytes ELSE 0)
      /\ \A v \in Uploads : v # u => counted'[v] = counted[v]
      /\ DOMAIN counted' = Uploads
  BY <1>4, <1>5
<1>7. counted'[u] = counted[u] + NotYet(moving[u][i]) - NotYet(p)
  BY <1>1, <1>2, <1>5, <1>6 DEF NotYet, PartType
<1>8. counted'[u] < size[u] \/ counted'[u] = counted[u]
  <2>1. PICK k : Owed(moving[u], k) /\ counted[u] + k <= offset[u]
    BY DEF Bars, Bar
  <2>2. moving[u] \in Seq(PartType) /\ offset[u] \in Nat
    BY FlowsApart DEF Typed
  <2>3. k \in Nat /\ offset[u] <= size[u]
    BY <2>1, <2>2, OwedIsNat DEF Bars, Bar
  <2>4. moving[u][i].bytes \in Nat
    BY <1>1 DEF PartType
  <2>5. counted[u] <= size[u]
    BY <1>1, <1>5, <2>1, <2>2, <2>3
  <2>6. CASE moving[u][i].wire
    BY <1>1, <1>5, <1>6, <2>4, <2>5, <2>6
  <2>7. CASE ~moving[u][i].wire
    BY <1>5, <1>6, <2>7
  <2> QED BY <2>6, <2>7
<1> QED BY <1>2, <1>3, <1>5, <1>6, <1>7, <1>8, MarkBars

(* What has landed has been counted, so nothing is owed of it. *)
LEMMA ComesBackBars ==
    ASSUME Typed, Sound, Bars, NEW u \in Uploads, ComesBack(u)
    PROVE  Bars'
<1> DEFINE part == Head(moving[u])
<1>1. /\ phase[u] = "sending" /\ moving[u] # <<>>
      /\ \/ /\ part.result = "landed"
            /\ done' = [done EXCEPT ![u] = Append(@, Came(part))]
            /\ UNCHANGED <<reading, refused>>
         \/ /\ reading' = [reading EXCEPT ![u] = FALSE]
            /\ refused' = [refused EXCEPT ![u] = TRUE]
            /\ UNCHANGED done
      /\ moving' = [moving EXCEPT ![u] = Tail(@)]
      /\ UNCHANGED <<size, phase, offset, progress>>
  BY DEF ComesBack
<1>2. /\ moving[u] \in Seq(PartType) /\ moving'[u] = Tail(moving[u])
      /\ offset[u] \in Nat /\ size[u] \in Nat
  BY <1>1, FlowsApart DEF Typed
<1>3. 1 \in DOMAIN moving[u] /\ part = moving[u][1]
  BY <1>1, <1>2
<1>4. part.result = "landed" => part.wire
  BY <1>3 DEF Bars, Bar
<1>5. PICK n : /\ Owed(moving[u], n)
               /\ counted[u] + n <= offset[u]
               /\ ~refused[u] => counted[u] + n = offset[u]
  BY <1>1 DEF Bars, Bar
<1>6. PICK k : Owed(moving'[u], k) /\ k <= n /\ (part.wire => k = n)
  BY <1>1, <1>2, <1>5, OwedTail
<1>7. n \in Nat /\ k \in Nat /\ counted[u] \in Int
  <2>1. n \in Nat /\ counted[u] \in Int
    BY <1>2, <1>5, OwedIsNat DEF Bars, Bar
  <2>2. moving'[u] \in Seq(PartType)
    BY <1>1, <1>2, HeadTailProperties
  <2> QED BY <1>6, <2>1, <2>2, OwedIsNat
<1> HIDE DEF part
<1>8. \/ part.result = "landed" /\ reading'[u] = reading[u] /\ refused'[u] = refused[u]
      \/ ~reading'[u] /\ refused'[u]
  BY <1>1 DEF Typed
<1>9. /\ counted'[u] + k <= offset'[u]
      /\ ~refused'[u] => counted'[u] + k = offset'[u]
      /\ refused'[u] => ~reading'[u]
  <2>1. counted[u] + k <= offset[u]
    BY <1>2, <1>5, <1>6, <1>7
  <2>2. refused[u] => ~reading[u]
    BY DEF Bars, Bar
  <2>3. CASE part.result = "landed" /\ reading'[u] = reading[u] /\ refused'[u] = refused[u]
    BY <1>1, <1>4, <1>5, <1>6, <2>1, <2>2, <2>3
  <2>4. CASE ~reading'[u] /\ refused'[u]
    BY <1>1, <2>1, <2>4
  <2> QED BY <1>8, <2>3, <2>4
<1>10. \A i \in DOMAIN moving'[u] :
            moving'[u][i].result = "landed" => moving'[u][i].wire
  <2>1. /\ Tail(moving[u]) \in Seq(PartType) /\ Len(Tail(moving[u])) = Len(moving[u]) - 1
        /\ \A i \in 1..Len(Tail(moving[u])) : Tail(moving[u])[i] = moving[u][i + 1]
    BY <1>1, <1>2, HeadTailProperties
  <2>2. DOMAIN Tail(moving[u]) = 1..Len(Tail(moving[u])) /\ DOMAIN moving[u] = 1..Len(moving[u])
        /\ Len(moving[u]) \in Nat
    BY <1>2, <2>1
  <2>3. \A i \in DOMAIN moving'[u] : i + 1 \in DOMAIN moving[u]
                                     /\ moving'[u][i] = moving[u][i + 1]
    BY <1>2, <2>1, <2>2
  <2> QED BY <2>3 DEF Bars, Bar
<1>11. Bar(u)'
  <2>1. /\ counted'[u] \in Int /\ shown'[u] \in Int
        /\ shown'[u] <= size'[u]
        /\ counted'[u] = size'[u] => shown'[u] = size'[u]
        /\ offset'[u] <= size'[u]
        /\ phase'[u] = "sending"
    BY <1>1 DEF Bars, Bar
  <2> QED BY <1>1, <1>6, <1>9, <1>10, <2>1, BarAfter
<1>12. \A x \in Flows : x # u => moving'[x] = moving[x] /\ done'[x] = done[x]
  BY <1>1 DEF Typed
<1>13. \A v \in Uploads : v # u => reading'[v] = reading[v] /\ refused'[v] = refused[v]
  BY <1>1 DEF Typed
<1>14. DOMAIN counted' = Uploads /\ DOMAIN shown' = Uploads
  BY <1>1 DEF Bars
<1> QED BY <1>1, <1>11, <1>12, <1>13, <1>14, UploadCalm

LEMMA StepBars ==
    Typed /\ Sound /\ Bars /\ [Next]_vars => Bars'
<1> SUFFICES ASSUME Typed, Sound, Bars, [Next]_vars PROVE Bars'
  OBVIOUS
<1>1. ASSUME NEW d \in Downloads, Download(d) PROVE Bars'
  <2>1. CASE Open(d)
    BY <2>1, OpenBars
  <2>2. CASE OpenFails(d) \/ BreakOff(d) \/ Written(d) \/ Hold(d)
    BY <2>2, CalmStepBars, FlowsApart
  <2>3. CASE Ask(d)
    BY <2>3, AskBars
  <2>4. CASE \E i \in DOMAIN moving[d] : Fetch(d, i)
    BY <2>4, FetchBars
  <2>5. CASE HandOnFirst(d) \/ HandOn(d)
    BY <2>5, HandOnBars
  <2> QED BY <1>1, <2>1, <2>2, <2>3, <2>4, <2>5 DEF Download
<1>2. ASSUME NEW u \in Uploads, Upload(u) PROVE Bars'
  <2>1. CASE Begin(u) \/ BeginFails(u) \/ Finish(u) \/ Abort(u) \/ Hold(u)
    BY <2>1, CalmStepBars, FlowsApart
  <2>2. CASE Send(u)
    BY <2>2, SendBars
  <2>3. CASE NothingLeft(u) \/ ReadFails(u)
    BY <2>3, StopBars
  <2>4. ASSUME NEW i \in DOMAIN moving[u],
               Count(u, i) \/ Lands(u, i) \/ Fails(u, i) \/ Again(u, i)
        PROVE  Bars'
    <3>1. CASE Count(u, i)
      BY <3>1, CountBars
    <3>2. CASE Lands(u, i) \/ Fails(u, i)
      BY <3>2, SettleBars
    <3>3. CASE Again(u, i)
      BY <3>3, AgainBars
    <3> QED BY <2>4, <3>1, <3>2, <3>3
  <2>5. CASE ComesBack(u)
    BY <2>5, ComesBackBars
  <2>6. CASE Settled(u)
    BY <2>6, SettledBars
  <2> QED BY <1>2, <2>1, <2>2, <2>3, <2>4, <2>5, <2>6 DEF Upload
<1>3. ASSUME NEW b \in Connections, Grant(b) PROVE Bars'
  <2>1. UNCHANGED <<size, offset, phase, moving, done, reading, refused, progress>>
    BY <1>3 DEF Grant
  <2> QED BY <2>1, StillBars
<1>4. CASE \E flows : Cancel(flows)
  BY <1>4, CancelBars
<1>5. CASE UNCHANGED vars
  <2>1. UNCHANGED <<size, offset, phase, moving, done, reading, refused, progress>>
    BY <1>5 DEF vars
  <2> QED BY <2>1, StillBars
<1> QED BY <1>1, <1>2, <1>3, <1>4, <1>5 DEF Next, Work, CancelUpload, CancelDownload

(* The bar of an upload in parts never shows more than its body was said   *)
(* to have, and is full when the upload is done, whichever parts are sent again or fail    *)
(* on the way, and however seldom the bar is told.                         *)
THEOREM BarIsAlwaysTrue == Spec => []BarIsTrue
<1>1. Bars => BarIsTrue
  <2> SUFFICES ASSUME Bars, NEW u \in Uploads
               PROVE  /\ shown[u] <= size[u]
                      /\ phase[u] = "done" => shown[u] = size[u]
    BY DEF BarIsTrue
  <2> QED BY DEF Bars, Bar
<1> QED BY <1>1, StartsSound, StepSound, StartsBars, StepBars, PTL DEF Spec
=============================================================================
