---------------------------- MODULE CarryProofs ----------------------------
(***************************************************************************)
(* Proofs about Ftp and Carry: that the conversation on the FTP connection *)
(* stays in step, and that a file that is said to have been carried has    *)
(* been, whole.                                                            *)
(*                                                                         *)
(* The first rests on who has the lock: whoever is past it has it (Locked),*)
(* what is left to do fits how far an operation has got (Courses), and     *)
(* what the server has said is what the one with the lock has asked        *)
(* (Conversation).  The second rests on the reads that are asked for       *)
(* following each other without a gap (Reads), on what arrived being what  *)
(* was written and what is about to be (Landing), and on what was said to  *)
(* the operation that carries (OwnAnswers).                                *)
(***************************************************************************)
EXTENDS Carry, SequenceTheorems, WellFoundedInduction, TLAPS

-----------------------------------------------------------------------------
(* What the library's FlattenSeq computes. *)

(* A set of naturals that is not empty has a least element. *)
LEMMA LeastOf ==
    ASSUME NEW Bad \in SUBSET Nat, Bad # {}
    PROVE  \E n \in Bad : \A m \in Bad : n <= m
<1>1. \E n \in Bad : \A m \in Bad : ~ (<<m, n>> \in OpToRel(<, Nat))
  BY WFMin, NatLessThanWellFounded
<1>2. \A m, n \in Nat : <<m, n>> \in OpToRel(<, Nat) <=> m < n
  BY DEF OpToRel
<1>3. PICK n \in Bad : \A m \in Bad : ~ (m < n)
  BY <1>1, <1>2
<1>4. \A m \in Bad : n <= m
  BY <1>3
<1>. QED
  BY <1>4

Flattening(s, n, f) ==
    f = [i \in 1..n |-> IF i = 1 THEN s[i] ELSE f[i - 1] \o s[i]]

Alike(s, t, n) == \A i \in 1..n : s[i] = t[i]

LEMMA FlattenSeqIs ==
    ASSUME NEW s, Len(s) # 0
    PROVE  FlattenSeq(s) = (CHOOSE f : Flattening(s, Len(s), f))[Len(s)]
BY DEF FlattenSeq, Flattening

(* There is such a function, for every number of sequences. *)
LEMMA FlatteningExists ==
    ASSUME NEW s, NEW n \in Nat
    PROVE  \E f : Flattening(s, n, f)
<1>. DEFINE Bad == {m \in Nat : ~ \E f : Flattening(s, m, f)}
<1>. SUFFICES ASSUME Bad # {} PROVE FALSE
  OBVIOUS
<1>1. PICK m \in Bad : \A k \in Bad : m <= k
  <2>. HIDE DEF Bad
  <2>. QED  BY LeastOf DEF Bad
<1>2. CASE m = 0
  <2>. DEFINE f == [i \in 1..0 |-> s[i]]
  <2>1. Flattening(s, 0, f)
    BY DEF Flattening
  <2>. QED
    BY <1>1, <1>2, <2>1
<1>3. CASE m # 0
  <2>1. m - 1 \in Nat /\ m - 1 \notin Bad
    BY <1>1, <1>3
  <2>2. PICK g : Flattening(s, m - 1, g)
    BY <2>1
  <2>. DEFINE f == [i \in 1..m |-> IF i < m THEN g[i]
                                   ELSE IF i = 1 THEN s[i] ELSE g[i - 1] \o s[i]]
  <2>3. \A i \in 1..m : f[i] = IF i = 1 THEN s[i] ELSE f[i - 1] \o s[i]
    <3>. TAKE i \in 1..m
    <3>1. CASE i < m
      <4>1. i \in 1..(m - 1) /\ f[i] = g[i]
        BY <3>1, <1>1
      <4>2. g[i] = IF i = 1 THEN s[i] ELSE g[i - 1] \o s[i]
        BY <4>1, <2>2 DEF Flattening
      <4>3. i # 1 => f[i - 1] = g[i - 1]
        BY <3>1, <1>1
      <4>. QED
        BY <4>1, <4>2, <4>3
    <3>2. CASE i = m
      <4>1. i # 1 => i - 1 \in 1..m /\ i - 1 < m
        BY <1>1, <3>2
      <4>2. i # 1 => f[i - 1] = g[i - 1]
        BY <4>1
      <4>. QED
        BY <3>2, <4>2
    <3>. QED
      BY <1>1, <3>1, <3>2
  <2>4. Flattening(s, m, f)
    <3>. DEFINE h == [i \in 1..m |-> IF i = 1 THEN s[i] ELSE f[i - 1] \o s[i]]
    <3>1. f = h
      BY <2>3
    <3>. QED
      BY <3>1 DEF Flattening
  <2>. QED
    BY <1>1, <2>4
<1>. QED
  BY <1>2, <1>3

(* What it makes of the first n sequences is settled by them, and is a     *)
(* sequence of the same things.                                            *)
LEMMA FlatteningAgrees ==
    ASSUME NEW s, NEW t, NEW n \in Nat, NEW k \in Nat, n <= k,
           NEW f, Flattening(s, n, f), NEW g, Flattening(t, k, g), Alike(s, t, n)
    PROVE  Alike(f, g, n)
<1>. DEFINE Bad == {i \in 1..n : f[i] # g[i]}
<1>. SUFFICES ASSUME Bad # {} PROVE FALSE
  BY DEF Alike
<1>1. PICK m \in Bad : \A i \in Bad : m <= i
  <2>1. Bad \in SUBSET Nat
    OBVIOUS
  <2>. HIDE DEF Bad
  <2>. QED  BY <2>1, LeastOf
<1>2. m \in 1..n /\ m \in 1..k
  BY <1>1
<1>3. f[m] = IF m = 1 THEN s[m] ELSE f[m - 1] \o s[m]
  BY <1>2 DEF Flattening
<1>4. g[m] = IF m = 1 THEN t[m] ELSE g[m - 1] \o t[m]
  BY <1>2 DEF Flattening
<1>5. m # 1 => m - 1 \in 1..n /\ m - 1 \notin Bad
  BY <1>1, <1>2
<1>6. m # 1 => f[m - 1] = g[m - 1]
  BY <1>5
<1>. QED
  BY <1>1, <1>2, <1>3, <1>4, <1>6 DEF Alike

LEMMA FlatteningIsSeq ==
    ASSUME NEW T, NEW s, NEW n \in Nat, NEW f, Flattening(s, n, f),
           \A i \in 1..n : s[i] \in Seq(T)
    PROVE  \A i \in 1..n : f[i] \in Seq(T)
<1>. DEFINE Bad == {i \in 1..n : f[i] \notin Seq(T)}
<1>. SUFFICES ASSUME Bad # {} PROVE FALSE
  OBVIOUS
<1>1. PICK m \in Bad : \A i \in Bad : m <= i
  <2>1. Bad \in SUBSET Nat
    OBVIOUS
  <2>. HIDE DEF Bad
  <2>. QED  BY <2>1, LeastOf
<1>2. m \in 1..n
  BY <1>1
<1>3. f[m] = IF m = 1 THEN s[m] ELSE f[m - 1] \o s[m]
  BY <1>2 DEF Flattening
<1>4. m # 1 => m - 1 \in 1..n /\ m - 1 \notin Bad
  BY <1>1, <1>2
<1>5. m # 1 => f[m - 1] \in Seq(T)
  BY <1>4
<1>6. f[m] \in Seq(T)
  <2>1. m # 1 => f[m - 1] \o s[m] \in Seq(T)
    BY <1>2, <1>5, ConcatProperties
  <2>. QED
    BY <1>2, <1>3, <2>1
<1>. QED
  BY <1>1, <1>6

LEMMA FlattenSeqType ==
    ASSUME NEW T, NEW w \in Seq(Seq(T))
    PROVE  FlattenSeq(w) \in Seq(T)
<1>1. CASE Len(w) = 0
  <2>1. FlattenSeq(w) = w /\ w = <<>>
    BY <1>1 DEF FlattenSeq
  <2>. QED
    BY <2>1
<1>2. CASE Len(w) # 0
  <2>. DEFINE f == CHOOSE g : Flattening(w, Len(w), g)
  <2>1. Len(w) \in Nat /\ \A i \in 1..Len(w) : w[i] \in Seq(T)
    BY LenProperties, ElementOfSeq
  <2>2. Flattening(w, Len(w), f)
    BY <2>1, FlatteningExists
  <2>3. FlattenSeq(w) = f[Len(w)]
    BY <1>2, FlattenSeqIs
  <2>. HIDE DEF f
  <2>4. \A i \in 1..Len(w) : f[i] \in Seq(T)
    BY <2>1, <2>2, FlatteningIsSeq
  <2>. QED
    BY <1>2, <2>1, <2>3, <2>4
<1>. QED
  BY <1>1, <1>2

(* What the library's FlattenSeq does with one sequence more. *)
LEMMA FlattenSeqAppend ==
    ASSUME NEW T, NEW w \in Seq(Seq(T)), NEW x \in Seq(T)
    PROVE  FlattenSeq(Append(w, x)) = FlattenSeq(w) \o x
<1>. DEFINE v == Append(w, x)
<1>1. /\ v \in Seq(Seq(T)) /\ Len(w) \in Nat /\ Len(v) = Len(w) + 1
      /\ \A i \in 1..Len(w) : w[i] = v[i]
      /\ v[Len(v)] = x
  BY AppendProperties, LenProperties
<1>. HIDE DEF v
<1>. DEFINE g == CHOOSE h : Flattening(v, Len(v), h)
<1>2. Flattening(v, Len(v), g) /\ FlattenSeq(v) = g[Len(v)]
  <2>1. Len(v) \in Nat /\ Len(v) # 0
    BY <1>1
  <2>. QED
    BY <2>1, FlatteningExists, FlattenSeqIs
<1>. HIDE DEF g
<1>3. g[Len(v)] = IF Len(v) = 1 THEN v[Len(v)] ELSE g[Len(v) - 1] \o v[Len(v)]
  <2>1. Len(v) \in 1..Len(v)
    BY <1>1
  <2>. QED
    BY <1>2, <2>1 DEF Flattening
<1>4. CASE Len(w) = 0
  <2>1. FlattenSeq(w) = <<>> /\ Len(v) = 1
    BY <1>1, <1>4 DEF FlattenSeq
  <2>. QED
    BY <1>1, <1>2, <1>3, <2>1, ConcatEmptySeq DEF v
<1>5. CASE Len(w) # 0
  <2>. DEFINE f == CHOOSE h : Flattening(w, Len(w), h)
  <2>1. Flattening(w, Len(w), f) /\ FlattenSeq(w) = f[Len(w)]
    BY <1>1, <1>5, FlatteningExists, FlattenSeqIs
  <2>. HIDE DEF f
  <2>2. \A i \in 1..Len(w) : f[i] = g[i]
    <3>1. Len(w) \in Nat /\ Len(w) <= Len(v) /\ Len(v) \in Nat
      BY <1>1
    <3>2. Flattening(w, Len(w), f) /\ Flattening(v, Len(v), g)
      BY <1>2, <2>1
    <3>3. \A i \in 1..Len(w) : w[i] = v[i]
      BY <1>1
    <3>4. Alike(w, v, Len(w))
      BY <3>3 DEF Alike
    <3>5. Alike(f, g, Len(w))
      BY <3>1, <3>2, <3>4, FlatteningAgrees
    <3>. QED
      BY <3>5 DEF Alike
  <2>3. g[Len(v) - 1] = FlattenSeq(w) /\ Len(v) # 1
    BY <1>1, <1>5, <2>1, <2>2
  <2>. QED
    BY <1>1, <1>2, <1>3, <2>3 DEF v
<1>. QED
  BY <1>4, <1>5
-----------------------------------------------------------------------------
(* What is still to be done. *)

Moves == {"asking", "command", "transfer", "closing", "again"}
Phases == {"idle", "queued", "ready", "awaiting", "aborting", "done", "failed", "over"}

(* What may come after each. *)
Follows ==
    [asking   |-> {"command"},
     command  |-> {"command", "transfer"},
     transfer |-> {"closing"},
     closing  |-> {"again"},
     again    |-> {"command"}]

WellMade(s) ==
    /\ s \in Seq(Moves)
    /\ \A i \in 1..Len(s) :
          /\ s[i] \in {"asking", "transfer", "again"} => i < Len(s)
          /\ i < Len(s) => s[i + 1] \in Follows[s[i]]

Fits(ph, s) ==
    /\ WellMade(s)
    /\ ph \in {"idle", "queued"} => s # <<>> /\ Head(s) \in {"command", "asking"}
    /\ ph \in {"ready", "aborting"} => s # <<>>
    /\ ph = "awaiting" => s # <<>> /\ Head(s) \in {"command", "asking", "closing"}
    /\ ph = "done" => s = <<>>

LEMMA ScriptsAreWellMade ==
    ASSUME NEW k \in DOMAIN Script
    PROVE  Fits("idle", Script[k])
<1>1. k \in {"list", "change", "rename", "delete", "read", "write"}
  BY DEF Script
<1>2. CASE k = "list"
  BY <1>2 DEF Script, Fits, WellMade, Moves, Follows
<1>3. CASE k = "change"
  BY <1>3 DEF Script, Fits, WellMade, Moves, Follows
<1>4. CASE k = "rename"
  BY <1>4 DEF Script, Fits, WellMade, Moves, Follows
<1>5. CASE k = "delete"
  BY <1>5 DEF Script, Fits, WellMade, Moves, Follows
<1>6. CASE k = "read"
  BY <1>6 DEF Script, Fits, WellMade, Moves, Follows
<1>7. CASE k = "write"
  BY <1>7 DEF Script, Fits, WellMade, Moves, Follows
<1>. QED
  BY <1>1, <1>2, <1>3, <1>4, <1>5, <1>6, <1>7

(* Going on: what is left is well made too, and what comes next is what    *)
(* may follow.                                                             *)
LEMMA GoingOn ==
    ASSUME NEW s, WellMade(s), s # <<>>
    PROVE  /\ Len(s) \in Nat /\ Len(s) > 0
           /\ Head(s) = s[1] /\ Head(s) \in Moves
           /\ WellMade(Tail(s))
           /\ Tail(s) = <<>> <=> Len(s) = 1
           /\ Len(s) > 1 => Head(Tail(s)) = s[2] /\ s[2] \in Follows[Head(s)]
           /\ Head(s) \in {"asking", "transfer", "again"} => Len(s) > 1
<1>1. s \in Seq(Moves) /\ Len(s) \in Nat /\ Len(s) > 0 /\ Head(s) = s[1]
  BY DEF WellMade
<1>2. /\ Tail(s) \in Seq(Moves) /\ Len(Tail(s)) = Len(s) - 1
      /\ \A i \in 1..Len(Tail(s)) : Tail(s)[i] = s[i + 1]
  BY <1>1, HeadTailProperties
<1>3. 1 \in 1..Len(s)
  BY <1>1
<1>4. Head(s) \in Moves
  BY <1>1, <1>3
<1>5. WellMade(Tail(s))
  <2>. SUFFICES ASSUME NEW i \in 1..Len(Tail(s))
                PROVE  /\ Tail(s)[i] \in {"asking", "transfer", "again"} => i < Len(Tail(s))
                       /\ i < Len(Tail(s)) => Tail(s)[i + 1] \in Follows[Tail(s)[i]]
    BY <1>2 DEF WellMade
  <2>1. i + 1 \in 1..Len(s)
    BY <1>1, <1>2
  <2>2. /\ s[i + 1] \in {"asking", "transfer", "again"} => i + 1 < Len(s)
        /\ i + 1 < Len(s) => s[(i + 1) + 1] \in Follows[s[i + 1]]
    BY <2>1 DEF WellMade
  <2>3. i < Len(Tail(s)) => i + 1 \in 1..Len(Tail(s))
    BY <1>1, <1>2
  <2>4. i < Len(Tail(s)) => Tail(s)[i + 1] = s[(i + 1) + 1]
    BY <1>2, <2>3
  <2>. QED
    BY <1>1, <1>2, <2>2, <2>4
<1>6. Tail(s) = <<>> <=> Len(s) = 1
  BY <1>1, <1>2
<1>7. Len(s) > 1 => Head(Tail(s)) = s[2] /\ s[2] \in Follows[Head(s)]
  <2>. SUFFICES ASSUME Len(s) > 1
                PROVE  Head(Tail(s)) = s[2] /\ s[2] \in Follows[Head(s)]
    OBVIOUS
  <2>1. Len(Tail(s)) > 0 /\ 1 \in 1..Len(Tail(s))
    BY <1>1, <1>2
  <2>2. Head(Tail(s)) = Tail(s)[1] /\ Tail(s)[1] = s[2]
    BY <1>2, <2>1
  <2>3. s[1 + 1] \in Follows[s[1]]
    BY <1>3 DEF WellMade
  <2>. QED
    BY <1>1, <2>2, <2>3
<1>8. Head(s) \in {"asking", "transfer", "again"} => Len(s) > 1
  BY <1>1, <1>3 DEF WellMade
<1>. QED
  BY <1>1, <1>4, <1>5, <1>6, <1>7, <1>8

-----------------------------------------------------------------------------
(* The lock. *)

Holding == {"queued", "ready", "awaiting", "aborting"}

(* Whoever is past the lock has it, and whoever waits for it is in line    *)
(* once.                                                                   *)
Locked(ph, h, l) ==
    /\ h = Nobody => l = <<>>
    /\ h # Nobody => ph[h] \in Holding
    /\ \A o \in Ops : ph[o] \in {"ready", "awaiting", "aborting"} => o = h
    /\ \A i \in 1..Len(l) : ph[l[i]] = "queued" /\ l[i] # h
    /\ \A i, j \in 1..Len(l) : l[i] = l[j] => i = j

LEMMA Wanting ==
    ASSUME NEW ph \in [Ops -> Phases], NEW h \in Ops \cup {Nobody}, NEW l \in Seq(Ops),
           Locked(ph, h, l), NEW o \in Ops, ph[o] = "idle"
    PROVE  /\ h = Nobody => Locked([ph EXCEPT ![o] = "queued"], o, l)
           /\ h # Nobody => Locked([ph EXCEPT ![o] = "queued"], h, Append(l, o))
<1>. DEFINE pp == [ph EXCEPT ![o] = "queued"]
<1>1. pp[o] = "queued" /\ \A p \in Ops \ {o} : pp[p] = ph[p]
  OBVIOUS
<1>2. o # Nobody
  BY FtpAssumption
<1>3. ASSUME h = Nobody
      PROVE  Locked(pp, o, l)
  <2>1. l = <<>> /\ Len(l) = 0
    BY <1>3 DEF Locked
  <2>2. \A p \in Ops : ph[p] \notin {"ready", "awaiting", "aborting"}
    BY <1>3, FtpAssumption DEF Locked
  <2>. HIDE DEF pp
  <2>. QED
    BY <1>1, <1>2, <2>1, <2>2 DEF Locked, Holding
<1>4. ASSUME h # Nobody
      PROVE  Locked(pp, h, Append(l, o))
  <2>. DEFINE m == Append(l, o)
  <2>1. /\ m \in Seq(Ops) /\ Len(l) \in Nat /\ Len(m) = Len(l) + 1
        /\ \A i \in 1..Len(l) : m[i] = l[i] /\ l[i] \in Ops
        /\ m[Len(m)] = o
    BY AppendProperties, LenProperties, ElementOfSeq
  <2>2. h \in Ops /\ ph[h] \in Holding /\ h # o
    BY <1>4 DEF Locked, Holding
  <2>3. \A i \in 1..Len(l) : l[i] # o /\ ph[l[i]] = "queued" /\ l[i] # h
    BY DEF Locked
  <2>4. \A i \in 1..Len(m) : i \in 1..Len(l) \/ i = Len(m)
    BY <2>1
  <2>. HIDE DEF pp, m
  <2>5. pp[h] \in Holding
    BY <1>1, <2>2
  <2>6. \A p \in Ops : pp[p] \in {"ready", "awaiting", "aborting"} => p = h
    BY <1>1 DEF Locked
  <2>7. \A i \in 1..Len(m) : pp[m[i]] = "queued" /\ m[i] # h
    BY <1>1, <2>1, <2>2, <2>3, <2>4
  <2>8. \A i, j \in 1..Len(m) : m[i] = m[j] => i = j
    <3>1. \A i, j \in 1..Len(l) : l[i] = l[j] => i = j
      BY DEF Locked
    <3>. QED
      BY <2>1, <2>3, <2>4, <3>1
  <2>9. Locked(pp, h, m)
    BY <1>4, <2>5, <2>6, <2>7, <2>8 DEF Locked
  <2>. QED
    BY <2>9 DEF m
<1>. QED
  BY <1>3, <1>4

(* It goes to whoever is first in line, or to nobody. *)
LEMMA HandingOver ==
    ASSUME NEW ph \in [Ops -> Phases], NEW h \in Ops, NEW l \in Seq(Ops),
           Locked(ph, h, l), NEW to \in {"done", "failed", "over"}
    PROVE  /\ l = <<>> => Locked([ph EXCEPT ![h] = to], Nobody, l)
           /\ l # <<>> => Locked([ph EXCEPT ![h] = to], Head(l), Tail(l))
<1>. DEFINE pp == [ph EXCEPT ![h] = to]
<1>1. pp[h] = to /\ \A p \in Ops \ {h} : pp[p] = ph[p]
  OBVIOUS
<1>2. h # Nobody
  BY FtpAssumption
<1>3. \A p \in Ops : pp[p] \notin {"ready", "awaiting", "aborting"}
  BY <1>1 DEF Locked
<1>4. ASSUME l = <<>>
      PROVE  Locked(pp, Nobody, l)
  <2>1. Len(l) = 0
    BY <1>4
  <2>. HIDE DEF pp
  <2>. QED
    BY <1>3, <1>4, <2>1 DEF Locked
<1>5. ASSUME l # <<>>
      PROVE  Locked(pp, Head(l), Tail(l))
  <2>1. /\ Len(l) \in Nat /\ Len(l) > 0 /\ Head(l) = l[1]
        /\ Tail(l) \in Seq(Ops) /\ Len(Tail(l)) = Len(l) - 1
        /\ \A i \in 1..Len(Tail(l)) : Tail(l)[i] = l[i + 1]
    BY <1>5, HeadTailProperties
  <2>2. \A i \in 1..Len(l) : l[i] \in Ops /\ l[i] # h /\ pp[l[i]] = "queued"
    <3>1. \A i \in 1..Len(l) : l[i] \in Ops /\ l[i] # h /\ ph[l[i]] = "queued"
      BY ElementOfSeq DEF Locked
    <3>. HIDE DEF pp
    <3>. QED
      BY <1>1, <3>1
  <2>. HIDE DEF pp
  <2>3. 1 \in 1..Len(l) /\ \A i \in 1..Len(Tail(l)) : i + 1 \in 1..Len(l) /\ i + 1 # 1
    BY <2>1
  <2>4. \A i, j \in 1..Len(l) : l[i] = l[j] => i = j
    BY DEF Locked
  <2>5. pp[Head(l)] \in Holding /\ Head(l) # Nobody
    BY <2>1, <2>2, <2>3, FtpAssumption DEF Holding
  <2>6. \A i \in 1..Len(Tail(l)) : pp[Tail(l)[i]] = "queued" /\ Tail(l)[i] # Head(l)
    BY <2>1, <2>2, <2>3, <2>4
  <2>7. \A i, j \in 1..Len(Tail(l)) : Tail(l)[i] = Tail(l)[j] => i = j
    <3>. SUFFICES ASSUME NEW i \in 1..Len(Tail(l)), NEW j \in 1..Len(Tail(l)),
                         Tail(l)[i] = Tail(l)[j]
                  PROVE  i = j
      OBVIOUS
    <3>1. i + 1 = j + 1
      BY <2>1, <2>3, <2>4
    <3>. QED
      BY <3>1
  <2>. QED
    BY <1>3, <2>5, <2>6, <2>7 DEF Locked
<1>. QED
  BY <1>4, <1>5

(* Or comes back to the one that lets it go, behind the others. *)
LEMMA TakingTurns ==
    ASSUME NEW ph \in [Ops -> Phases], NEW h \in Ops, NEW l \in Seq(Ops),
           Locked(ph, h, l), l # <<>>
    PROVE  Locked([ph EXCEPT ![h] = "queued"], Head(l), Append(Tail(l), h))
<1>. DEFINE pp == [ph EXCEPT ![h] = "queued"]
            m == Append(Tail(l), h)
<1>1. pp[h] = "queued" /\ \A p \in Ops \ {h} : pp[p] = ph[p]
  OBVIOUS
<1>2. /\ Len(l) \in Nat /\ Len(l) > 0 /\ Head(l) = l[1]
      /\ Tail(l) \in Seq(Ops) /\ Len(Tail(l)) = Len(l) - 1
      /\ \A i \in 1..Len(Tail(l)) : Tail(l)[i] = l[i + 1]
  BY HeadTailProperties
<1>3. Len(m) = Len(l) /\ \A i \in 1..(Len(l) - 1) : m[i] = l[i + 1]
  BY <1>2, AppendProperties
<1>4. m[Len(l)] = h
  BY <1>2, AppendProperties
<1>5. \A p \in Ops : pp[p] \notin {"ready", "awaiting", "aborting"}
  BY <1>1 DEF Locked
<1>6. \A i \in 1..Len(l) : l[i] \in Ops /\ l[i] # h /\ pp[l[i]] = "queued"
  <2>1. \A i \in 1..Len(l) : l[i] \in Ops /\ l[i] # h /\ ph[l[i]] = "queued"
    BY ElementOfSeq DEF Locked
  <2>. HIDE DEF pp
  <2>. QED
    BY <1>1, <2>1
<1>. HIDE DEF pp, m
<1>7. /\ 1 \in 1..Len(l)
      /\ \A i \in 1..(Len(l) - 1) : i + 1 \in 1..Len(l) /\ i + 1 # 1
      /\ \A i \in 1..Len(l) : i \in 1..(Len(l) - 1) \/ i = Len(l)
  <2>1. Len(l) \in Nat /\ Len(l) > 0
    BY <1>2
  <2>. QED
    BY <2>1
<1>8. \A i, j \in 1..Len(l) : l[i] = l[j] => i = j
  BY DEF Locked
<1>9. pp[Head(l)] \in Holding /\ Head(l) # Nobody /\ Head(l) # h
  BY <1>2, <1>6, <1>7, FtpAssumption DEF Holding
<1>10. \A i \in 1..Len(m) : pp[m[i]] = "queued" /\ m[i] # Head(l)
  <2>. SUFFICES ASSUME NEW i \in 1..Len(l)
                PROVE  pp[m[i]] = "queued" /\ m[i] # Head(l)
    BY <1>3
  <2>1. CASE i \in 1..(Len(l) - 1)
    <3>1. m[i] = l[i + 1] /\ i + 1 \in 1..Len(l) /\ i + 1 # 1
      BY <1>3, <1>7, <2>1
    <3>2. l[i + 1] # l[1]
      BY <1>7, <1>8, <3>1
    <3>. QED
      BY <1>2, <1>6, <3>1, <3>2
  <2>2. CASE i = Len(l)
    BY <1>1, <1>4, <1>9, <2>2
  <2>. QED
    BY <1>7, <2>1, <2>2
<1>11. \A i, j \in 1..Len(m) : m[i] = m[j] => i = j
  <2>. SUFFICES ASSUME NEW i \in 1..Len(l), NEW j \in 1..Len(l), m[i] = m[j]
                PROVE  i = j
    BY <1>3
  <2>1. CASE i \in 1..(Len(l) - 1) /\ j \in 1..(Len(l) - 1)
    <3>1. i + 1 = j + 1
      BY <1>3, <1>7, <1>8, <2>1
    <3>. QED
      BY <3>1
  <2>2. CASE i \in 1..(Len(l) - 1) /\ j = Len(l)
    BY <1>3, <1>4, <1>6, <1>7, <2>2
  <2>3. CASE i = Len(l) /\ j \in 1..(Len(l) - 1)
    BY <1>3, <1>4, <1>6, <1>7, <2>3
  <2>. QED
    BY <1>7, <2>1, <2>2, <2>3
<1>12. Locked(pp, Head(l), m)
  BY <1>5, <1>9, <1>10, <1>11 DEF Locked
<1>. QED
  BY <1>12 DEF pp, m

(* What is done with it in hand leaves it there. *)
LEMMA KeepingIt ==
    ASSUME NEW ph \in [Ops -> Phases], NEW h \in Ops, NEW l \in Seq(Ops),
           Locked(ph, h, l), NEW to \in Holding
    PROVE  Locked([ph EXCEPT ![h] = to], h, l)
<1>. DEFINE pp == [ph EXCEPT ![h] = to]
<1>1. pp[h] = to /\ \A p \in Ops \ {h} : pp[p] = ph[p]
  OBVIOUS
<1>2. h # Nobody
  BY FtpAssumption
<1>3. \A i \in 1..Len(l) : l[i] \in Ops \ {h} /\ ph[l[i]] = "queued"
  BY ElementOfSeq DEF Locked
<1>. HIDE DEF pp
<1>4. \A p \in Ops : pp[p] \in {"ready", "awaiting", "aborting"} => p = h
  BY <1>1 DEF Locked
<1>5. \A i \in 1..Len(l) : pp[l[i]] = "queued" /\ l[i] # h
  BY <1>1, <1>3
<1>6. \A i, j \in 1..Len(l) : l[i] = l[j] => i = j
  BY DEF Locked
<1>7. Locked(pp, h, l)
  BY <1>1, <1>2, <1>4, <1>5, <1>6 DEF Locked
<1>. QED
  BY <1>7 DEF pp

LEMMA RemoveAtProperties ==
    ASSUME NEW T, NEW s \in Seq(T), NEW i \in 1..Len(s)
    PROVE  /\ RemoveAt(s, i) \in Seq(T)
           /\ Len(RemoveAt(s, i)) = Len(s) - 1
           /\ \A j \in 1..(Len(s) - 1) :
                 RemoveAt(s, i)[j] = IF j < i THEN s[j] ELSE s[j + 1]
<1>. DEFINE a == SubSeq(s, 1, i - 1)
            b == SubSeq(s, i + 1, Len(s))
<1>1. Len(s) \in Nat /\ i \in Nat /\ i >= 1 /\ i <= Len(s) /\ \A j \in 1..Len(s) : s[j] \in T
  BY LenProperties, ElementOfSeq
<1>2. /\ a \in Seq(T) /\ Len(a) = i - 1
      /\ \A j \in 1..(i - 1) : a[j] = s[j]
  <2>1. \A j \in 1..(i - 1) : s[j] \in T
    BY <1>1
  <2>. QED
    BY <1>1, <2>1
<1>3. /\ b \in Seq(T) /\ Len(b) = Len(s) - i
      /\ \A j \in 1..(Len(s) - i) : b[j] = s[i + j]
  <2>1. \A j \in (i + 1)..Len(s) : s[j] \in T
    BY <1>1
  <2>. QED
    BY <1>1, <2>1
<1>. HIDE DEF a, b
<1>4. /\ a \o b \in Seq(T) /\ Len(a \o b) = Len(s) - 1
      /\ \A j \in 1..(Len(a) + Len(b)) :
            (a \o b)[j] = IF j <= Len(a) THEN a[j] ELSE b[j - Len(a)]
  <2>1. /\ a \o b \in Seq(T) /\ Len(a \o b) = Len(a) + Len(b)
        /\ \A j \in 1..(Len(a) + Len(b)) :
              (a \o b)[j] = IF j <= Len(a) THEN a[j] ELSE b[j - Len(a)]
    BY <1>2, <1>3, ConcatProperties
  <2>. QED
    BY <1>1, <1>2, <1>3, <2>1
<1>5. ASSUME NEW j \in 1..(Len(s) - 1)
      PROVE  (a \o b)[j] = IF j < i THEN s[j] ELSE s[j + 1]
  <2>1. j \in 1..(Len(a) + Len(b))
    BY <1>1, <1>2, <1>3
  <2>2. CASE j < i
    BY <1>1, <1>2, <1>4, <2>1, <2>2
  <2>3. CASE ~ (j < i)
    <3>1. (a \o b)[j] = b[j - (i - 1)]
      BY <1>1, <1>2, <1>4, <2>1, <2>3
    <3>2. j - (i - 1) \in 1..(Len(s) - i) /\ i + (j - (i - 1)) = j + 1
      BY <1>1, <2>3
    <3>. QED
      BY <1>3, <2>3, <3>1, <3>2
  <2>. QED
    BY <1>1, <2>2, <2>3
<1>. QED
  BY <1>4, <1>5 DEF RemoveAt, a, b

LEMMA LeavingTheLine ==
    ASSUME NEW ph \in [Ops -> Phases], NEW h \in Ops \cup {Nobody}, NEW l \in Seq(Ops),
           Locked(ph, h, l), NEW k \in 1..Len(l), NEW to \in {"done", "failed", "over"}
    PROVE  Locked([ph EXCEPT ![l[k]] = to], h, RemoveAt(l, k))
<1>. DEFINE pp == [ph EXCEPT ![l[k]] = to]
            m == RemoveAt(l, k)
<1>1. l[k] \in Ops /\ l[k] # h /\ h # Nobody /\ h \in Ops
  <2>1. l # <<>>
    OBVIOUS
  <2>. QED
    BY <2>1, ElementOfSeq DEF Locked
<1>2. pp[l[k]] = to /\ \A p \in Ops \ {l[k]} : pp[p] = ph[p]
  BY <1>1
<1>3. /\ Len(l) \in Nat /\ Len(m) = Len(l) - 1
      /\ \A j \in 1..(Len(l) - 1) : m[j] = IF j < k THEN l[j] ELSE l[j + 1]
  BY RemoveAtProperties, LenProperties
<1>4. \A i, j \in 1..Len(l) : l[i] = l[j] => i = j
  BY DEF Locked
<1>5. \A i \in 1..Len(l) : l[i] \in Ops /\ l[i] # h /\ ph[l[i]] = "queued"
  BY ElementOfSeq DEF Locked
<1>. HIDE DEF pp, m
<1>6. \A j \in 1..(Len(l) - 1) : \E i \in 1..Len(l) \ {k} : m[j] = l[i]
  <2>. TAKE j \in 1..(Len(l) - 1)
  <2>1. CASE j < k
    <3>1. j \in 1..Len(l) \ {k} /\ m[j] = l[j]
      BY <1>3, <2>1
    <3>. QED
      BY <3>1
  <2>2. CASE ~ (j < k)
    <3>1. j + 1 \in 1..Len(l) \ {k} /\ m[j] = l[j + 1]
      BY <1>3, <2>2
    <3>. QED
      BY <3>1
  <2>. QED
    BY <2>1, <2>2
<1>7. \A j \in 1..Len(m) : pp[m[j]] = "queued" /\ m[j] # h
  BY <1>2, <1>3, <1>4, <1>5, <1>6
<1>8. \A i, j \in 1..Len(m) : m[i] = m[j] => i = j
  <2>. SUFFICES ASSUME NEW i \in 1..(Len(l) - 1), NEW j \in 1..(Len(l) - 1), m[i] = m[j]
                PROVE  i = j
    BY <1>3
  <2>. DEFINE f(n) == IF n < k THEN n ELSE n + 1
  <2>1. f(i) \in 1..Len(l) /\ f(j) \in 1..Len(l)
    BY <1>3
  <2>2. m[i] = l[f(i)] /\ m[j] = l[f(j)]
    BY <1>3
  <2>3. f(i) = f(j)
    BY <1>4, <2>1, <2>2
  <2>. QED
    BY <2>3
<1>9. ph[h] \in Holding /\ pp[h] = ph[h]
  BY <1>1, <1>2 DEF Locked
<1>10. \A p \in Ops : pp[p] \in {"ready", "awaiting", "aborting"} => p = h
  BY <1>1, <1>2 DEF Locked
<1>11. Locked(pp, h, m)
  BY <1>1, <1>7, <1>8, <1>9, <1>10 DEF Locked
<1>. QED
  BY <1>11 DEF pp, m

-----------------------------------------------------------------------------
(* The connection. *)

FtpTypeOK ==
    /\ kind \in [Ops -> DOMAIN Script]
    /\ phase \in [Ops -> Phases]
    /\ rest \in [Ops -> Seq(Moves)]
    /\ holder \in Ops \cup {Nobody}
    /\ line \in Seq(Ops)
    /\ answers \in Seq([to : Ops, good : BOOLEAN])

Courses == \A o \in Ops : Fits(phase[o], rest[o])

(* What the server has said and takes itself to be doing is what the one   *)
(* that has the lock knows of.                                             *)
Conversation ==
    /\ holder = Nobody => answers = <<>> /\ serving = Nobody
    /\ holder # Nobody =>
          /\ phase[holder] = "queued" => answers = <<>> /\ serving = Nobody
          /\ phase[holder] = "ready" =>
                /\ answers = <<>>
                /\ Head(rest[holder]) \in {"transfer", "closing"} => serving = holder
                /\ Head(rest[holder]) \notin {"transfer", "closing"} => serving = Nobody
          /\ phase[holder] = "aborting" => answers = <<>> /\ serving = holder
          /\ phase[holder] = "awaiting" =>
                \E good \in BOOLEAN :
                   /\ answers = <<Answer(holder, good)>>
                   /\ (good /\ Len(rest[holder]) > 1 /\ rest[holder][2] = "transfer")
                         => serving = holder
                   /\ ~ (good /\ Len(rest[holder]) > 1 /\ rest[holder][2] = "transfer")
                         => serving = Nobody

FtpInv ==
    /\ FtpTypeOK
    /\ Courses
    /\ Locked(phase, holder, line)
    /\ strays = {} => misled = {} /\ Conversation

FtpStep(o) ==
    \/ Begin(o) \/ Got(o) \/ Say(o) \/ Hear(o) \/ Transferred(o) \/ Again(o)
    \/ BreakOff(o) \/ Aborted(o) \/ Drop(o)
    \/ \E whole \in BOOLEAN : Close(o, whole)

LEMMA FtpStarts == FtpInit => FtpInv
<1>. SUFFICES ASSUME FtpInit PROVE FtpInv
  OBVIOUS
<1>1. \A o \in Ops : kind[o] \in DOMAIN Script /\ rest[o] = Script[kind[o]] /\ phase[o] = "idle"
  BY DEF FtpInit
<1>2. Courses
  BY <1>1, ScriptsAreWellMade DEF Courses
<1>3. FtpTypeOK
  <2>1. \A o \in Ops : rest[o] \in Seq(Moves)
    BY <1>2 DEF Courses, Fits, WellMade
  <2>2. rest \in [Ops -> Seq(Moves)]
    BY <2>1 DEF FtpInit
  <2>. QED
    BY <2>2 DEF FtpInit, FtpTypeOK, Phases
<1>4. Locked(phase, holder, line)
  <2>1. holder = Nobody /\ line = <<>> /\ Len(line) = 0
    BY DEF FtpInit
  <2>2. \A o \in Ops : phase[o] \notin {"ready", "awaiting", "aborting"}
    BY <1>1
  <2>. QED
    BY <2>1, <2>2 DEF Locked
<1>5. misled = {} /\ Conversation
  BY DEF FtpInit, Conversation
<1>. QED
  BY <1>2, <1>3, <1>4, <1>5 DEF FtpInv

(* One operation goes from phase to phase, with as much to do as fits it. *)
LEMMA CourseSame ==
    ASSUME FtpTypeOK, Courses, NEW o \in Ops, NEW to \in Phases, Step(o, to),
           UNCHANGED rest, Fits(to, rest[o])
    PROVE  /\ Courses' /\ phase' \in [Ops -> Phases] /\ rest' \in [Ops -> Seq(Moves)]
           /\ phase'[o] = to /\ \A p \in Ops \ {o} : phase'[p] = phase[p]
<1>1. phase' \in [Ops -> Phases] /\ phase'[o] = to /\ \A p \in Ops \ {o} : phase'[p] = phase[p]
  BY DEF FtpTypeOK, Step
<1>2. rest' = rest /\ rest \in [Ops -> Seq(Moves)]
  BY DEF FtpTypeOK
<1>3. \A p \in Ops : Fits(phase'[p], rest'[p])
  BY <1>1, <1>2 DEF Courses
<1>. QED
  BY <1>1, <1>2, <1>3 DEF Courses

LEMMA CourseOn ==
    ASSUME FtpTypeOK, Courses, NEW o \in Ops, NEW to \in Phases, Step(o, to),
           GoOn(o), Fits(to, Tail(rest[o]))
    PROVE  /\ Courses' /\ phase' \in [Ops -> Phases] /\ rest' \in [Ops -> Seq(Moves)]
           /\ phase'[o] = to /\ \A p \in Ops \ {o} : phase'[p] = phase[p]
           /\ rest'[o] = Tail(rest[o]) /\ \A p \in Ops \ {o} : rest'[p] = rest[p]
<1>1. phase' \in [Ops -> Phases] /\ phase'[o] = to /\ \A p \in Ops \ {o} : phase'[p] = phase[p]
  BY DEF FtpTypeOK, Step
<1>2. rest'[o] = Tail(rest[o]) /\ \A p \in Ops \ {o} : rest'[p] = rest[p]
  BY DEF FtpTypeOK, GoOn
<1>3. \A p \in Ops : Fits(phase'[p], rest'[p])
  BY <1>1, <1>2 DEF Courses
<1>4. rest' \in [Ops -> Seq(Moves)]
  <2>1. Tail(rest[o]) \in Seq(Moves)
    BY DEF Fits, WellMade
  <2>. QED
    BY <2>1 DEF FtpTypeOK, GoOn
<1>. QED
  BY <1>1, <1>2, <1>3, <1>4 DEF Courses

(* Letting go of the lock: whoever has it next has only waited for it. *)
LEMMA LettingGo ==
    ASSUME FtpTypeOK, Locked(phase, holder, line), NEW o \in Ops, holder = o,
           NEW to \in {"done", "failed", "over"}, Step(o, to), Release
    PROVE  /\ Locked(phase', holder', line')
           /\ holder' \in Ops \cup {Nobody} /\ line' \in Seq(Ops)
           /\ holder' # Nobody => phase'[holder'] = "queued"
<1>1. phase' = [phase EXCEPT ![o] = to] /\ phase \in [Ops -> Phases] /\ line \in Seq(Ops)
  BY DEF FtpTypeOK, Step
<1>2. CASE line = <<>>
  <2>1. holder' = Nobody /\ line' = line
    BY <1>2 DEF Release
  <2>. QED
    BY <1>1, <1>2, <2>1, HandingOver
<1>3. CASE line # <<>>
  <2>1. holder' = Head(line) /\ line' = Tail(line)
    BY <1>3 DEF Release
  <2>2. Locked(phase', holder', line')
    BY <1>1, <1>3, <2>1, HandingOver
  <2>3. Head(line) \in Ops /\ Tail(line) \in Seq(Ops)
    BY <1>1, <1>3
  <2>4. 1 \in 1..Len(line) /\ Head(line) = line[1]
    BY <1>1, <1>3
  <2>5. phase[Head(line)] = "queued" /\ Head(line) # o
    BY <2>4 DEF Locked
  <2>. QED
    BY <1>1, <2>1, <2>2, <2>3, <2>5
<1>. QED
  BY <1>2, <1>3

LEMMA QuietAfter ==
    ASSUME (holder' # Nobody => phase'[holder'] = "queued"), answers' = <<>>, serving' = Nobody
    PROVE  Conversation'
BY DEF Conversation

(* Whoever is past the lock is the one the conversation is about. *)
LEMMA HolderSpeaks ==
    ASSUME FtpInv, NEW o \in Ops, phase[o] \in {"ready", "awaiting", "aborting"}
    PROVE  /\ holder = o /\ o # Nobody /\ rest[o] # <<>> /\ WellMade(rest[o])
           /\ phase \in [Ops -> Phases] /\ line \in Seq(Ops)
<1>1. holder = o
  BY DEF FtpInv, Locked
<1>2. Fits(phase[o], rest[o])
  BY DEF FtpInv, Courses
<1>. QED
  BY <1>1, <1>2, FtpAssumption DEF FtpInv, FtpTypeOK, Fits

LEMMA BeginKeeps ==
    ASSUME FtpInv, NEW o \in Ops, Begin(o)
    PROVE  FtpInv'
<1>1. FtpTypeOK /\ Courses /\ Step(o, "queued") /\ UNCHANGED rest /\ phase[o] = "idle"
  BY DEF Begin, FtpInv
<1>2. Fits("queued", rest[o])
  BY <1>1 DEF Courses, Fits
<1>3. /\ Courses' /\ phase' \in [Ops -> Phases] /\ rest' \in [Ops -> Seq(Moves)]
      /\ phase'[o] = "queued" /\ \A p \in Ops \ {o} : phase'[p] = phase[p]
  BY <1>1, <1>2, CourseSame DEF Phases
<1>4. /\ Locked(phase, holder, line) /\ phase \in [Ops -> Phases]
      /\ holder \in Ops \cup {Nobody} /\ line \in Seq(Ops)
  BY DEF FtpInv, FtpTypeOK
<1>5. phase' = [phase EXCEPT ![o] = "queued"] /\ Want(o)
  BY DEF Begin, Step
<1>6. CASE holder = Nobody
  <2>1. holder' = o /\ line' = line
    BY <1>5, <1>6 DEF Want
  <2>2. Locked(phase', holder', line')
    BY <1>1, <1>4, <1>5, <1>6, <2>1, Wanting
  <2>3. FtpTypeOK'
    BY <1>3, <1>4, <2>1 DEF FtpInv, FtpTypeOK, Begin, channel
  <2>4. strays' = {} => misled' = {} /\ Conversation'
    BY <1>3, <1>6, <2>1 DEF FtpInv, Conversation, Begin, channel
  <2>. QED
    BY <1>3, <2>2, <2>3, <2>4 DEF FtpInv
<1>7. CASE holder # Nobody
  <2>1. holder' = holder /\ line' = Append(line, o) /\ holder \in Ops
    BY <1>4, <1>5, <1>7 DEF Want
  <2>2. Locked(phase', holder', line')
    BY <1>1, <1>4, <1>5, <1>7, <2>1, Wanting
  <2>3. FtpTypeOK'
    <3>1. line' \in Seq(Ops)
      BY <1>4, <2>1
    <3>. QED
      BY <1>3, <1>4, <2>1, <3>1 DEF FtpInv, FtpTypeOK, Begin, channel
  <2>4. holder # o
    BY <1>1, <1>4, <1>7 DEF Locked, Holding
  <2>5. strays' = {} => misled' = {} /\ Conversation'
    BY <1>1, <1>3, <2>1, <2>4 DEF FtpInv, Conversation, Begin, channel
  <2>. QED
    BY <1>3, <2>2, <2>3, <2>5 DEF FtpInv
<1>. QED
  BY <1>6, <1>7

LEMMA GotKeeps ==
    ASSUME FtpInv, NEW o \in Ops, Got(o)
    PROVE  FtpInv'
<1>1. FtpTypeOK /\ Courses /\ Step(o, "ready") /\ UNCHANGED rest /\ phase[o] = "queued" /\ holder = o
  BY DEF Got, FtpInv
<1>2. Fits("ready", rest[o]) /\ Head(rest[o]) \in {"command", "asking"}
  BY <1>1 DEF Courses, Fits
<1>3. /\ Courses' /\ phase' \in [Ops -> Phases] /\ rest' \in [Ops -> Seq(Moves)]
      /\ phase'[o] = "ready" /\ \A p \in Ops \ {o} : phase'[p] = phase[p]
  BY <1>1, <1>2, CourseSame DEF Phases
<1>4. Locked(phase', holder', line')
  <2>1. holder' = holder /\ line' = line /\ line \in Seq(Ops) /\ phase \in [Ops -> Phases]
    BY DEF Got, lock, FtpInv, FtpTypeOK
  <2>2. Locked(phase, o, line) /\ "ready" \in Holding
    BY <1>1 DEF FtpInv, Holding
  <2>3. Locked([phase EXCEPT ![o] = "ready"], o, line)
    BY <2>1, <2>2, KeepingIt
  <2>. QED
    BY <1>1, <2>1, <2>3 DEF Step
<1>5. FtpTypeOK'
  BY <1>3 DEF FtpInv, FtpTypeOK, Got, lock, channel
<1>6. strays' = {} => misled' = {} /\ Conversation'
  <2>1. o # Nobody /\ holder' = holder /\ rest' = rest /\ answers' = answers /\ serving' = serving
        /\ strays' = strays /\ misled' = misled
    BY <1>1, FtpAssumption DEF Got, lock, channel
  <2>. QED
    BY <1>1, <1>2, <1>3, <2>1 DEF FtpInv, Conversation
<1>. QED
  BY <1>3, <1>4, <1>5, <1>6 DEF FtpInv

(* Going from one phase to the next with the lock in hand. *)
LEMMA KeepsTheLock ==
    ASSUME FtpInv, NEW o \in Ops, phase[o] \in {"ready", "awaiting", "aborting"},
           NEW to \in Holding, Step(o, to), UNCHANGED lock
    PROVE  Locked(phase', holder', line') /\ holder' = o /\ line' \in Seq(Ops)
<1>1. /\ holder = o /\ holder' = holder /\ line' = line /\ line \in Seq(Ops)
      /\ phase \in [Ops -> Phases]
  BY HolderSpeaks DEF lock
<1>2. Locked(phase, o, line)
  BY <1>1 DEF FtpInv
<1>3. Locked([phase EXCEPT ![o] = to], o, line)
  BY <1>1, <1>2, KeepingIt
<1>. QED
  BY <1>1, <1>3 DEF Step

LEMMA SayKeeps ==
    ASSUME FtpInv, NEW o \in Ops, Say(o)
    PROVE  FtpInv'
<1>1. /\ phase[o] = "ready" /\ Step(o, "awaiting") /\ UNCHANGED rest /\ UNCHANGED lock
      /\ Head(rest[o]) \in {"command", "asking"}
      /\ strays' = strays /\ misled' = misled /\ kind' = kind
  BY DEF Say, Doing
<1>2. FtpTypeOK /\ Courses
  BY DEF FtpInv
<1>3. /\ holder = o /\ o # Nobody /\ rest[o] # <<>> /\ WellMade(rest[o])
  BY <1>1, HolderSpeaks
<1>4. Fits("awaiting", rest[o])
  BY <1>1, <1>3 DEF Fits
<1>5. /\ Courses' /\ phase' \in [Ops -> Phases] /\ rest' \in [Ops -> Seq(Moves)]
      /\ phase'[o] = "awaiting"
  BY <1>1, <1>2, <1>4, CourseSame DEF Phases
<1>6. Locked(phase', holder', line') /\ holder' = o /\ line' \in Seq(Ops)
  BY <1>1, KeepsTheLock DEF Holding
<1>7. PICK good \in BOOLEAN :
          /\ answers' = Append(answers, Answer(o, good))
          /\ serving' = IF good /\ Len(rest[o]) > 1 /\ rest[o][2] = "transfer" THEN o ELSE serving
  BY DEF Say
<1>8. FtpTypeOK'
  <2>1. answers' \in Seq([to : Ops, good : BOOLEAN])
    BY <1>2, <1>7 DEF FtpTypeOK, Answer
  <2>. QED
    BY <1>1, <1>2, <1>5, <1>6, <2>1 DEF FtpTypeOK
<1>9. strays' = {} => misled' = {} /\ Conversation'
  <2>. SUFFICES ASSUME strays = {} PROVE misled' = {} /\ Conversation'
    BY <1>1
  <2>1. misled = {} /\ answers = <<>> /\ serving = Nobody
    BY <1>1, <1>3 DEF FtpInv, Conversation
  <2>2. answers' = <<Answer(o, good)>>
    BY <1>7, <2>1
  <2>3. /\ (good /\ Len(rest[o]) > 1 /\ rest[o][2] = "transfer") => serving' = o
        /\ ~ (good /\ Len(rest[o]) > 1 /\ rest[o][2] = "transfer") => serving' = Nobody
    BY <1>7, <2>1
  <2>. QED
    BY <1>1, <1>3, <1>5, <1>6, <2>1, <2>2, <2>3 DEF Conversation
<1>. QED
  BY <1>5, <1>6, <1>8, <1>9 DEF FtpInv

LEMMA CloseKeeps ==
    ASSUME FtpInv, NEW o \in Ops, NEW whole \in BOOLEAN, Close(o, whole)
    PROVE  FtpInv'
<1>1. /\ phase[o] = "ready" /\ Step(o, "awaiting") /\ UNCHANGED rest /\ UNCHANGED lock
      /\ Head(rest[o]) = "closing"
      /\ strays' = strays /\ misled' = misled /\ kind' = kind
      /\ answers' = IF serving = o THEN Append(answers, Answer(o, whole)) ELSE answers
      /\ serving' = IF serving = o THEN Nobody ELSE serving
  BY DEF Close, Doing
<1>2. FtpTypeOK /\ Courses
  BY DEF FtpInv
<1>3. /\ holder = o /\ o # Nobody /\ rest[o] # <<>> /\ WellMade(rest[o])
  BY <1>1, HolderSpeaks
<1>4. Fits("awaiting", rest[o])
  BY <1>1, <1>3 DEF Fits
<1>5. /\ Courses' /\ phase' \in [Ops -> Phases] /\ rest' \in [Ops -> Seq(Moves)]
      /\ phase'[o] = "awaiting"
  BY <1>1, <1>2, <1>4, CourseSame DEF Phases
<1>6. Locked(phase', holder', line') /\ holder' = o /\ line' \in Seq(Ops)
  BY <1>1, KeepsTheLock DEF Holding
<1>7. FtpTypeOK'
  <2>1. Answer(o, whole) \in [to : Ops, good : BOOLEAN]
    BY DEF Answer
  <2>2. answers' \in Seq([to : Ops, good : BOOLEAN])
    <3>1. answers \in Seq([to : Ops, good : BOOLEAN])
      BY <1>2 DEF FtpTypeOK
    <3>2. Append(answers, Answer(o, whole)) \in Seq([to : Ops, good : BOOLEAN])
      BY <2>1, <3>1, AppendProperties
    <3>. QED
      BY <1>1, <3>1, <3>2
  <2>. QED
    BY <1>1, <1>2, <1>5, <1>6, <2>2 DEF FtpTypeOK
<1>8. strays' = {} => misled' = {} /\ Conversation'
  <2>. SUFFICES ASSUME strays = {} PROVE misled' = {} /\ Conversation'
    BY <1>1
  <2>1. misled = {} /\ answers = <<>> /\ serving = o
    BY <1>1, <1>3 DEF FtpInv, Conversation
  <2>2. answers' = <<Answer(o, whole)>> /\ serving' = Nobody
    BY <1>1, <2>1
  <2>3. ~ (Len(rest[o]) > 1 /\ rest[o][2] = "transfer")
    BY <1>1, <1>3, GoingOn DEF Follows
  <2>. QED
    BY <1>1, <1>3, <1>5, <1>6, <2>1, <2>2, <2>3 DEF Conversation
<1>. QED
  BY <1>5, <1>6, <1>7, <1>8 DEF FtpInv

LEMMA TransferredKeeps ==
    ASSUME FtpInv, NEW o \in Ops, Transferred(o)
    PROVE  FtpInv'
<1>1. /\ phase[o] = "ready" /\ GoOn(o) /\ UNCHANGED lock /\ UNCHANGED phase
      /\ Head(rest[o]) = "transfer"
      /\ strays' = strays /\ misled' = misled /\ kind' = kind
      /\ answers' = answers /\ serving' = serving
  BY DEF Transferred, Doing, channel
<1>2. FtpTypeOK /\ Courses /\ Locked(phase, holder, line)
  BY DEF FtpInv
<1>3. /\ holder = o /\ o # Nobody /\ rest[o] # <<>> /\ WellMade(rest[o])
  BY <1>1, HolderSpeaks
<1>4. WellMade(Tail(rest[o])) /\ Tail(rest[o]) # <<>> /\ Head(Tail(rest[o])) = "closing"
  BY <1>1, <1>3, GoingOn DEF Follows
<1>5. Step(o, "ready")
  BY <1>1, <1>2 DEF Step, FtpTypeOK
<1>6. Fits("ready", Tail(rest[o]))
  BY <1>4 DEF Fits
<1>7. /\ Courses' /\ phase' \in [Ops -> Phases] /\ rest' \in [Ops -> Seq(Moves)]
      /\ rest'[o] = Tail(rest[o])
  BY <1>1, <1>2, <1>5, <1>6, CourseOn DEF Phases
<1>8. Locked(phase', holder', line') /\ holder' = o /\ line' = line
  BY <1>1, <1>2, <1>3 DEF lock
<1>9. FtpTypeOK'
  BY <1>1, <1>2, <1>3, <1>7, <1>8 DEF FtpTypeOK
<1>10. strays' = {} => misled' = {} /\ Conversation'
  BY <1>1, <1>3, <1>4, <1>7, <1>8 DEF FtpInv, Conversation
<1>. QED
  BY <1>7, <1>8, <1>9, <1>10 DEF FtpInv

LEMMA AgainKeeps ==
    ASSUME FtpInv, NEW o \in Ops, Again(o)
    PROVE  FtpInv'
<1>1. /\ phase[o] = "ready" /\ GoOn(o) /\ Step(o, "queued")
      /\ Head(rest[o]) = "again"
      /\ strays' = strays /\ misled' = misled /\ kind' = kind
      /\ answers' = answers /\ serving' = serving
  BY DEF Again, Doing, channel
<1>2. FtpTypeOK /\ Courses /\ Locked(phase, holder, line)
  BY DEF FtpInv
<1>3. /\ holder = o /\ o # Nobody /\ rest[o] # <<>> /\ WellMade(rest[o])
      /\ phase \in [Ops -> Phases] /\ line \in Seq(Ops)
  BY <1>1, HolderSpeaks
<1>4. WellMade(Tail(rest[o])) /\ Tail(rest[o]) # <<>> /\ Head(Tail(rest[o])) = "command"
  <2>1. /\ WellMade(Tail(rest[o])) /\ Len(rest[o]) > 1 /\ Tail(rest[o]) # <<>>
        /\ Head(Tail(rest[o])) \in Follows["again"]
    BY <1>1, <1>3, GoingOn
  <2>. QED
    BY <2>1 DEF Follows
<1>5. Fits("queued", Tail(rest[o]))
  BY <1>4 DEF Fits
<1>6. /\ Courses' /\ phase' \in [Ops -> Phases] /\ rest' \in [Ops -> Seq(Moves)]
      /\ phase'[o] = "queued" /\ \A p \in Ops \ {o} : phase'[p] = phase[p]
  BY <1>1, <1>2, <1>5, CourseOn DEF Phases
<1>7. /\ Locked(phase', holder', line')
      /\ holder' \in Ops /\ line' \in Seq(Ops) /\ phase'[holder'] = "queued"
  <2>1. CASE line = <<>>
    <3>1. holder' = o /\ line' = line
      BY <1>3, <2>1 DEF Again, lock
    <3>2. Locked([phase EXCEPT ![o] = "queued"], o, line)
      BY <1>2, <1>3, KeepingIt DEF Holding
    <3>. QED
      BY <1>1, <1>3, <1>6, <3>1, <3>2 DEF Step
  <2>2. CASE line # <<>>
    <3>1. holder' = Head(line) /\ line' = Append(Tail(line), o)
      BY <2>2 DEF Again
    <3>2. Locked([phase EXCEPT ![o] = "queued"], Head(line), Append(Tail(line), o))
      BY <1>2, <1>3, <2>2, TakingTurns
    <3>3. 1 \in 1..Len(line) /\ Head(line) = line[1] /\ Head(line) \in Ops /\ Tail(line) \in Seq(Ops)
      BY <1>3, <2>2
    <3>4. phase[Head(line)] = "queued" /\ Head(line) # o
      BY <1>2, <1>3, <3>3 DEF Locked
    <3>5. Append(Tail(line), o) \in Seq(Ops)
      BY <3>3
    <3>. QED
      BY <1>1, <1>6, <3>1, <3>2, <3>3, <3>4, <3>5 DEF Step
  <2>. QED
    BY <2>1, <2>2
<1>8. FtpTypeOK'
  BY <1>1, <1>2, <1>6, <1>7 DEF FtpTypeOK
<1>9. strays' = {} => misled' = {} /\ Conversation'
  <2>. SUFFICES ASSUME strays = {} PROVE misled' = {} /\ Conversation'
    BY <1>1
  <2>1. misled = {} /\ answers = <<>> /\ serving = Nobody
    BY <1>1, <1>3 DEF FtpInv, Conversation
  <2>2. holder' # Nobody
    BY <1>7, FtpAssumption
  <2>. QED
    BY <1>1, <1>7, <2>1, <2>2 DEF Conversation
<1>. QED
  BY <1>6, <1>7, <1>8, <1>9 DEF FtpInv

(* An operation that is over has let go of the lock; what it leaves behind *)
(* does not matter here, for it is told.                                   *)
LEMMA EndKeeps ==
    ASSUME FtpInv, NEW o \in Ops, phase[o] \in {"ready", "awaiting", "aborting"},
           NEW to \in {"failed", "over"}, End(o, to), UNCHANGED rest, UNCHANGED kind,
           answers' \in Seq([to : Ops, good : BOOLEAN]),
           strays' = {} => misled' = {} /\ answers' = <<>> /\ serving' = Nobody
    PROVE  FtpInv'
<1>1. FtpTypeOK /\ Courses /\ Locked(phase, holder, line) /\ Step(o, to) /\ Release
  BY DEF FtpInv, End
<1>2. holder = o /\ WellMade(rest[o])
  BY HolderSpeaks
<1>3. Fits(to, rest[o])
  BY <1>2 DEF Fits
<1>4. Courses' /\ phase' \in [Ops -> Phases] /\ rest' \in [Ops -> Seq(Moves)]
  BY <1>1, <1>3, CourseSame DEF Phases
<1>5. /\ Locked(phase', holder', line')
      /\ holder' \in Ops \cup {Nobody} /\ line' \in Seq(Ops)
      /\ holder' # Nobody => phase'[holder'] = "queued"
  BY <1>1, <1>2, LettingGo
<1>6. FtpTypeOK'
  BY <1>1, <1>4, <1>5 DEF FtpTypeOK
<1>7. strays' = {} => misled' = {} /\ Conversation'
  BY <1>5, QuietAfter
<1>. QED
  BY <1>4, <1>5, <1>6, <1>7 DEF FtpInv

LEMMA LeaveUnreadKeeps ==
    ASSUME FtpInv, NEW o \in Ops, phase[o] \in {"ready", "awaiting", "aborting"},
           LeaveUnread(o), UNCHANGED rest, UNCHANGED kind
    PROVE  FtpInv'
<1>1. End(o, "over") /\ strays' # {}
  BY DEF LeaveUnread
<1>2. answers' \in Seq([to : Ops, good : BOOLEAN])
  <2>1. Answer(o, FALSE) \in [to : Ops, good : BOOLEAN] /\ answers \in Seq([to : Ops, good : BOOLEAN])
    BY DEF Answer, FtpInv, FtpTypeOK
  <2>2. Append(answers, Answer(o, FALSE)) \in Seq([to : Ops, good : BOOLEAN])
    BY <2>1, AppendProperties
  <2>. QED
    BY <2>1, <2>2 DEF LeaveUnread, ServerStops
<1>. QED
  BY <1>1, <1>2, EndKeeps

LEMMA StartAbortingKeeps ==
    ASSUME FtpInv, NEW o \in Ops, phase[o] = "ready", Doing(o, "transfer"),
           StartAborting(o), UNCHANGED <<kind, rest, misled>>
    PROVE  FtpInv'
<1>1. /\ Step(o, "aborting") /\ UNCHANGED lock /\ rest' = rest /\ kind' = kind
      /\ answers' = answers /\ serving' = serving /\ strays' = strays /\ misled' = misled
      /\ Head(rest[o]) = "transfer"
  BY DEF StartAborting, channel, Doing
<1>2. FtpTypeOK /\ Courses
  BY DEF FtpInv
<1>3. holder = o /\ o # Nobody /\ rest[o] # <<>> /\ WellMade(rest[o])
  BY HolderSpeaks
<1>4. Fits("aborting", rest[o])
  BY <1>3 DEF Fits
<1>5. /\ Courses' /\ phase' \in [Ops -> Phases] /\ rest' \in [Ops -> Seq(Moves)]
      /\ phase'[o] = "aborting"
  BY <1>1, <1>2, <1>4, CourseSame DEF Phases
<1>6. Locked(phase', holder', line') /\ holder' = o /\ line' \in Seq(Ops)
  BY <1>1, KeepsTheLock DEF Holding
<1>7. FtpTypeOK'
  BY <1>1, <1>2, <1>5, <1>6 DEF FtpTypeOK
<1>8. strays' = {} => misled' = {} /\ Conversation'
  <2>1. strays = {} => misled = {} /\ answers = <<>> /\ serving = o
    BY <1>1, <1>3 DEF FtpInv, Conversation
  <2>. QED
    BY <1>1, <1>3, <1>5, <1>6, <2>1 DEF Conversation
<1>. QED
  BY <1>5, <1>6, <1>7, <1>8 DEF FtpInv

LEMMA BreakOffKeeps ==
    ASSUME FtpInv, NEW o \in Ops, BreakOff(o)
    PROVE  FtpInv'
BY StartAbortingKeeps, LeaveUnreadKeeps DEF BreakOff

LEMMA AbortedKeeps ==
    ASSUME FtpInv, NEW o \in Ops, Aborted(o)
    PROVE  FtpInv'
<1>1. /\ phase[o] = "aborting" /\ End(o, "over") /\ rest' = rest /\ kind' = kind
      /\ strays' = strays /\ misled' = misled
      /\ answers' = IF answers = <<>> THEN answers ELSE Append(Tail(answers), Answer(o, FALSE))
      /\ serving' = IF serving = o THEN Nobody ELSE serving
  BY DEF Aborted
<1>2. answers' \in Seq([to : Ops, good : BOOLEAN])
  <2>1. Answer(o, FALSE) \in [to : Ops, good : BOOLEAN] /\ answers \in Seq([to : Ops, good : BOOLEAN])
    BY DEF Answer, FtpInv, FtpTypeOK
  <2>2. answers # <<>> => Append(Tail(answers), Answer(o, FALSE)) \in Seq([to : Ops, good : BOOLEAN])
    <3>. SUFFICES ASSUME answers # <<>>
                  PROVE  Append(Tail(answers), Answer(o, FALSE)) \in Seq([to : Ops, good : BOOLEAN])
      OBVIOUS
    <3>1. Tail(answers) \in Seq([to : Ops, good : BOOLEAN])
      BY <2>1, HeadTailProperties
    <3>. QED
      BY <2>1, <3>1, AppendProperties
  <2>. QED
    BY <1>1, <2>1, <2>2
<1>3. strays' = {} => misled' = {} /\ answers' = <<>> /\ serving' = Nobody
  <2>1. holder = o /\ o # Nobody
    BY <1>1, HolderSpeaks
  <2>. QED
    BY <1>1, <2>1 DEF FtpInv, Conversation
<1>. QED
  BY <1>1, <1>2, <1>3, EndKeeps

LEMMA DropInLineKeeps ==
    ASSUME FtpInv, NEW o \in Ops, DropInLine(o), UNCHANGED <<kind, rest, misled>>
    PROVE  FtpInv'
<1>1. /\ phase[o] = "queued" /\ Step(o, "over") /\ rest' = rest /\ kind' = kind
      /\ strays' = strays /\ misled' = misled /\ answers' = answers /\ serving' = serving
  BY DEF DropInLine, channel
<1>2. /\ FtpTypeOK /\ Courses /\ Locked(phase, holder, line) /\ o # Nobody
      /\ phase \in [Ops -> Phases] /\ line \in Seq(Ops) /\ holder \in Ops \cup {Nobody}
  BY FtpAssumption DEF FtpInv, FtpTypeOK
<1>3. Fits("over", rest[o])
  BY <1>2 DEF Courses, Fits
<1>4. /\ Courses' /\ phase' \in [Ops -> Phases] /\ rest' \in [Ops -> Seq(Moves)]
      /\ \A p \in Ops \ {o} : phase'[p] = phase[p]
  BY <1>1, <1>2, <1>3, CourseSame DEF Phases
<1>5. CASE holder = o
  <2>1. Release
    BY <1>5 DEF DropInLine
  <2>2. /\ Locked(phase', holder', line')
        /\ holder' \in Ops \cup {Nobody} /\ line' \in Seq(Ops)
        /\ holder' # Nobody => phase'[holder'] = "queued"
    BY <1>1, <1>2, <1>5, <2>1, LettingGo
  <2>3. FtpTypeOK'
    BY <1>1, <1>2, <1>4, <2>2 DEF FtpTypeOK
  <2>4. strays = {} => misled = {} /\ answers = <<>> /\ serving = Nobody
    BY <1>1, <1>2, <1>5 DEF FtpInv, Conversation
  <2>5. strays' = {} => misled' = {} /\ Conversation'
    BY <1>1, <2>2, <2>4, QuietAfter
  <2>. QED
    BY <1>4, <2>2, <2>3, <2>5 DEF FtpInv
<1>6. CASE holder # o
  <2>1. PICK i \in DOMAIN line : line[i] = o /\ line' = RemoveAt(line, i) /\ holder' = holder
    BY <1>6 DEF DropInLine
  <2>2. i \in 1..Len(line)
    BY <1>2
  <2>3. Locked([phase EXCEPT ![line[i]] = "over"], holder, RemoveAt(line, i))
    BY <1>2, <2>2, LeavingTheLine
  <2>4. Locked(phase', holder', line')
    BY <1>1, <2>1, <2>3 DEF Step
  <2>5. line' \in Seq(Ops)
    BY <1>2, <2>1, <2>2, RemoveAtProperties
  <2>6. FtpTypeOK'
    BY <1>1, <1>2, <1>4, <2>1, <2>5 DEF FtpTypeOK
  <2>7. holder # Nobody => phase'[holder] = phase[holder]
    BY <1>2, <1>4, <1>6
  <2>8. strays' = {} => misled' = {} /\ Conversation'
    BY <1>1, <2>1, <2>7 DEF FtpInv, Conversation
  <2>. QED
    BY <1>4, <2>4, <2>6, <2>8 DEF FtpInv
<1>. QED
  BY <1>5, <1>6

LEMMA DropKeeps ==
    ASSUME FtpInv, NEW o \in Ops, Drop(o)
    PROVE  FtpInv'
<1>1. UNCHANGED <<kind, rest, misled>>
  BY DEF Drop
<1>2. CASE DropInLine(o)
  BY <1>1, <1>2, DropInLineKeeps
<1>3. CASE DropWaiting(o)
  BY <1>1, <1>3, LeaveUnreadKeeps DEF DropWaiting
<1>4. CASE DropMoving(o)
  BY <1>1, <1>4, StartAbortingKeeps, LeaveUnreadKeeps DEF DropMoving
<1>. QED
  BY <1>2, <1>3, <1>4 DEF Drop

(* Hearing an answer: as long as everybody is in step it is one's own. *)
LEMMA HearKeeps ==
    ASSUME FtpInv, NEW o \in Ops, Hear(o)
    PROVE  FtpInv'
<1>. DEFINE said == Head(answers)
            left == Tail(answers)
<1>1. /\ phase[o] = "awaiting" /\ answers # <<>>
      /\ misled' = IF said.to = o THEN misled ELSE misled \cup {o}
      /\ Believe(o, said.good)
      /\ strays' = strays /\ kind' = kind
  BY DEF Hear
<1>2. /\ FtpTypeOK /\ Courses /\ Locked(phase, holder, line)
      /\ answers \in Seq([to : Ops, good : BOOLEAN])
      /\ holder = o /\ o # Nobody /\ rest[o] # <<>> /\ WellMade(rest[o])
      /\ phase \in [Ops -> Phases] /\ rest \in [Ops -> Seq(Moves)]
  BY <1>1, HolderSpeaks DEF FtpInv, FtpTypeOK
<1>3. Head(rest[o]) \in {"command", "asking", "closing"}
  BY <1>1, <1>2 DEF Courses, Fits
<1>4. /\ said \in [to : Ops, good : BOOLEAN] /\ left \in Seq([to : Ops, good : BOOLEAN])
  BY <1>1, <1>2, HeadTailProperties
<1>5. /\ phase'[o] = "failed" /\ serving = o
            => answers' = Append(left, Answer(o, FALSE)) /\ serving' = Nobody
      /\ ~ (phase'[o] = "failed" /\ serving = o) => answers' = left /\ serving' = serving
  BY DEF Hear
<1>6. answers' \in Seq([to : Ops, good : BOOLEAN])
  <2>1. Answer(o, FALSE) \in [to : Ops, good : BOOLEAN]
    BY DEF Answer
  <2>2. Append(left, Answer(o, FALSE)) \in Seq([to : Ops, good : BOOLEAN])
    BY <1>4, <2>1, AppendProperties
  <2>. QED
    BY <1>4, <1>5, <2>2
<1>7. ASSUME strays = {}
      PROVE  /\ misled' = {} /\ left = <<>> /\ said.good \in BOOLEAN
             /\ (said.good /\ Len(rest[o]) > 1 /\ rest[o][2] = "transfer") => serving = o
             /\ ~ (said.good /\ Len(rest[o]) > 1 /\ rest[o][2] = "transfer") => serving = Nobody
  <2>1. misled = {} /\ Conversation
    BY <1>7 DEF FtpInv
  <2>2. PICK good \in BOOLEAN :
                 /\ answers = <<Answer(o, good)>>
                 /\ (good /\ Len(rest[o]) > 1 /\ rest[o][2] = "transfer") => serving = o
                 /\ ~ (good /\ Len(rest[o]) > 1 /\ rest[o][2] = "transfer") => serving = Nobody
    BY <1>1, <1>2, <2>1 DEF Conversation
  <2>3. said = Answer(o, good) /\ left = <<>>
    BY <2>2
  <2>4. said.to = o /\ said.good = good
    BY <2>3 DEF Answer
  <2>. QED
    BY <1>1, <2>1, <2>2, <2>3, <2>4
<1>. HIDE DEF said, left
<1>8. CASE said.good \/ Head(rest[o]) = "asking"
  <2>1. GoOn(o) /\ IF Len(rest[o]) = 1 THEN End(o, "done") ELSE Step(o, "ready") /\ UNCHANGED lock
    BY <1>1, <1>2, <1>8 DEF Believe, Doing
  <2>2. /\ WellMade(Tail(rest[o])) /\ Len(rest[o]) \in Nat /\ Len(rest[o]) > 0
        /\ Tail(rest[o]) = <<>> <=> Len(rest[o]) = 1
        /\ Len(rest[o]) > 1 => /\ Head(Tail(rest[o])) = rest[o][2]
                               /\ rest[o][2] \in Follows[Head(rest[o])]
        /\ Head(rest[o]) = "asking" => Len(rest[o]) > 1
    BY <1>2, GoingOn
  <2>3. CASE Len(rest[o]) = 1
    <3>1. Step(o, "done") /\ Release
      BY <2>1, <2>3 DEF End
    <3>2. Fits("done", Tail(rest[o]))
      BY <2>2, <2>3 DEF Fits
    <3>3. /\ Courses' /\ phase' \in [Ops -> Phases] /\ rest' \in [Ops -> Seq(Moves)]
          /\ phase'[o] = "done"
      BY <1>2, <2>1, <3>1, <3>2, CourseOn DEF Phases
    <3>4. /\ Locked(phase', holder', line')
          /\ holder' \in Ops \cup {Nobody} /\ line' \in Seq(Ops)
          /\ holder' # Nobody => phase'[holder'] = "queued"
      BY <1>2, <3>1, LettingGo
    <3>5. FtpTypeOK'
      BY <1>1, <1>2, <1>6, <3>3, <3>4 DEF FtpTypeOK
    <3>6. strays' = {} => misled' = {} /\ Conversation'
      <4>. SUFFICES ASSUME strays = {} PROVE misled' = {} /\ Conversation'
        BY <1>1
      <4>1. misled' = {} /\ answers' = <<>> /\ serving' = Nobody
        BY <1>5, <1>7, <2>2, <2>3, <3>3
      <4>. QED
        BY <3>4, <4>1, QuietAfter
    <3>. QED
      BY <3>3, <3>4, <3>5, <3>6 DEF FtpInv
  <2>4. CASE Len(rest[o]) # 1
    <3>1. Step(o, "ready") /\ UNCHANGED lock /\ Len(rest[o]) > 1 /\ Tail(rest[o]) # <<>>
      BY <2>1, <2>2, <2>4
    <3>2. Fits("ready", Tail(rest[o]))
      BY <2>2, <3>1 DEF Fits
    <3>3. /\ Courses' /\ phase' \in [Ops -> Phases] /\ rest' \in [Ops -> Seq(Moves)]
          /\ phase'[o] = "ready" /\ rest'[o] = Tail(rest[o])
      BY <1>2, <2>1, <3>1, <3>2, CourseOn DEF Phases
    <3>4. Locked(phase', holder', line') /\ holder' = o /\ line' \in Seq(Ops)
      BY <1>1, <3>1, KeepsTheLock DEF Holding
    <3>5. FtpTypeOK'
      BY <1>1, <1>2, <1>6, <3>3, <3>4 DEF FtpTypeOK
    <3>6. strays' = {} => misled' = {} /\ Conversation'
      <4>. SUFFICES ASSUME strays = {} PROVE misled' = {} /\ Conversation'
        BY <1>1
      <4>1. misled' = {} /\ answers' = <<>> /\ serving' = serving
        BY <1>5, <1>7, <3>3
      <4>2. Head(rest'[o]) = rest[o][2] /\ rest[o][2] \in {"command", "transfer", "again"}
        BY <1>3, <2>2, <3>1, <3>3 DEF Follows
      <4>3. rest[o][2] = "transfer" => said.good
        BY <1>8, <2>2, <3>1 DEF Follows
      <4>4. /\ rest[o][2] = "transfer" => serving = o
            /\ rest[o][2] # "transfer" => serving = Nobody
        BY <1>7, <3>1, <4>3
      <4>. QED
        BY <1>2, <3>3, <3>4, <4>1, <4>2, <4>4 DEF Conversation
    <3>. QED
      BY <3>3, <3>4, <3>5, <3>6 DEF FtpInv
  <2>. QED
    BY <2>3, <2>4
<1>9. CASE ~ (said.good \/ Head(rest[o]) = "asking")
  <2>1. End(o, "failed") /\ UNCHANGED rest
    BY <1>1, <1>2, <1>9 DEF Believe, Doing
  <2>2. strays' = {} => misled' = {} /\ answers' = <<>> /\ serving' = Nobody
    <3>. SUFFICES ASSUME strays = {}
                  PROVE  misled' = {} /\ answers' = <<>> /\ serving' = Nobody
      BY <1>1
    <3>1. serving = Nobody
      BY <1>7, <1>9
    <3>. QED
      BY <1>2, <1>5, <1>7, <3>1
  <2>. QED
    BY <1>1, <1>6, <2>1, <2>2, EndKeeps
<1>. QED
  BY <1>8, <1>9

LEMMA FtpStepKeeps ==
    ASSUME FtpInv, NEW o \in Ops, FtpStep(o)
    PROVE  FtpInv'
<1>1. CASE \E whole \in BOOLEAN : Close(o, whole)
  BY <1>1, CloseKeeps
<1>. QED
  BY <1>1, BeginKeeps, GotKeeps, SayKeeps, HearKeeps, TransferredKeeps, AgainKeeps,
     BreakOffKeeps, AbortedKeeps, DropKeeps DEF FtpStep

LEMMA FtpStays ==
    ASSUME FtpInv, UNCHANGED ftp
    PROVE  FtpInv'
<1>1. /\ kind' = kind /\ phase' = phase /\ rest' = rest /\ holder' = holder /\ line' = line
      /\ answers' = answers /\ serving' = serving /\ strays' = strays /\ misled' = misled
  BY DEF ftp, lock, channel
<1>. QED
  BY <1>1 DEF FtpInv, FtpTypeOK, Courses, Conversation

-----------------------------------------------------------------------------
(* Steps of the whole are steps of the connection. *)

LEMMA StepsOfTheConnection ==
    ASSUME [Next]_vars
    PROVE  (\E o \in Ops : FtpStep(o)) \/ UNCHANGED ftp
<1>1. \A o \in Ops : (o = Carried => AllSent) \in BOOLEAN
  OBVIOUS
<1>2. ASSUME NEW o \in Ops, Begin(o) \/ Talk(o)
      PROVE  FtpStep(o)
  BY <1>1, <1>2 DEF Talk, FtpStep
<1>3. ASSUME NEW o \in Ops, LetGo(o)
      PROVE  FtpStep(o) \/ UNCHANGED ftp
  BY <1>3 DEF LetGo, FtpStep
<1>4. ASSUME Carrying
      PROVE  FtpStep(Carried) \/ UNCHANGED ftp
  <2>1. CASE AskAhead \/ HandOn \/ Chunk
    BY <2>1 DEF AskAhead, HandOn, Chunk
  <2>2. CASE ReadFails \/ BodyEnds
    BY <2>2 DEF ReadFails, BodyEnds, FtpStep
  <2>3. CASE FirstPacket \/ WholePacket \/ Packed
    BY <2>3 DEF FirstPacket, WholePacket, Packed
  <2>4. CASE WriteFails \/ DownloadEnds \/ DownloadBreaks
    BY <2>4 DEF WriteFails, DownloadEnds, DownloadBreaks, FtpStep
  <2>5. CASE SourceEnded \/ Leftover
    BY <2>5 DEF SourceEnded, Leftover
  <2>6. CASE \E i \in DOMAIN air : SftpAnswers(i)
    BY <2>6 DEF SftpAnswers
  <2>. QED
    BY <1>4, <2>1, <2>2, <2>3, <2>4, <2>5, <2>6 DEF Carrying
<1>5. Carried \in Ops
  BY CarryAssumption
<1>6. CASE UNCHANGED vars
  BY <1>6 DEF vars
<1>. QED
  BY <1>2, <1>3, <1>4, <1>5, <1>6 DEF Next

(* The invariant of the connection holds for any operations, of any kinds,  *)
(* on the one connection of ftp.rs.                                        *)
THEOREM FtpAlwaysInv == Spec => []FtpInv
<1>1. Init => FtpInv
  BY FtpStarts DEF Init
<1>2. FtpInv /\ [Next]_vars => FtpInv'
  BY StepsOfTheConnection, FtpStepKeeps, FtpStays
<1>. QED
  BY <1>1, <1>2, PTL DEF Spec

LEMMA InvIsInStep == FtpInv => InStep
BY DEF FtpInv, InStep, Conversation

(* As long as nobody was dropped while it waited for an answer and no      *)
(* upload or listing broke off, everyone on the connection reads its own   *)
(* answer, and whoever gets the lock next finds nothing unread.  (Once     *)
(* somebody has left an answer unread nothing is claimed: the code goes on *)
(* with that connection, ftp.rs write.)                                    *)
THEOREM AlwaysInStep == Spec => []InStep
<1>. QED
  BY FtpAlwaysInv, InvIsInStep, PTL

-----------------------------------------------------------------------------
(* What the steps mean for the operation that carries. *)

(* What one does that says neither command nor answer to another: what was *)
(* said to the one that carries has moved up, at most.                     *)
MovedUp(before, bs) ==
    \E k \in {0, 1} :
       \A i \in 1..Len(bs) :
          bs[i].to = Carried => i + k \in 1..Len(before) /\ bs[i] = before[i + k]

Sayings == [to : Ops, good : BOOLEAN]

LEMMA MovedUpSame ==
    ASSUME NEW R, NEW before \in Seq(R)
    PROVE  MovedUp(before, before)
<1>1. \A i \in 1..Len(before) : i + 0 \in 1..Len(before) /\ before[i] = before[i + 0]
  OBVIOUS
<1>. QED
  BY <1>1 DEF MovedUp

LEMMA MovedUpAppend ==
    ASSUME NEW R, NEW before \in Seq(R), NEW a \in R, a.to # Carried
    PROVE  MovedUp(before, Append(before, a))
<1>. DEFINE bs == Append(before, a)
<1>1. /\ Len(before) \in Nat /\ Len(bs) = Len(before) + 1 /\ bs[Len(bs)] = a
      /\ \A i \in 1..Len(before) : bs[i] = before[i]
  BY AppendProperties
<1>. HIDE DEF bs
<1>2. ASSUME NEW i \in 1..Len(bs), bs[i].to = Carried
      PROVE  i + 0 \in 1..Len(before) /\ bs[i] = before[i + 0]
  <2>1. i # Len(bs)
    BY <1>1, <1>2
  <2>2. i \in 1..Len(before) /\ i + 0 = i
    BY <1>1, <2>1
  <2>. QED
    BY <1>1, <2>2
<1>3. MovedUp(before, bs)
  BY <1>2 DEF MovedUp
<1>. QED
  BY <1>3 DEF bs

LEMMA MovedUpTail ==
    ASSUME NEW R, NEW before \in Seq(R), before # <<>>
    PROVE  MovedUp(before, Tail(before))
<1>1. /\ Len(before) \in Nat /\ Len(Tail(before)) = Len(before) - 1
      /\ \A i \in 1..Len(Tail(before)) : Tail(before)[i] = before[i + 1]
  BY HeadTailProperties
<1>2. ASSUME NEW i \in 1..Len(Tail(before))
      PROVE  i + 1 \in 1..Len(before) /\ Tail(before)[i] = before[i + 1]
  BY <1>1
<1>. QED
  BY <1>2 DEF MovedUp

LEMMA MovedUpTailAppend ==
    ASSUME NEW R, NEW before \in Seq(R), before # <<>>, NEW a \in R, a.to # Carried
    PROVE  MovedUp(before, Append(Tail(before), a))
<1>. DEFINE t == Tail(before)
            bs == Append(t, a)
<1>1. /\ Len(before) \in Nat /\ t \in Seq(R) /\ Len(t) = Len(before) - 1
      /\ \A i \in 1..Len(t) : t[i] = before[i + 1]
  BY HeadTailProperties
<1>. HIDE DEF t
<1>2. /\ Len(bs) = Len(t) + 1 /\ bs[Len(bs)] = a
      /\ \A i \in 1..Len(t) : bs[i] = t[i]
  BY <1>1, AppendProperties
<1>. HIDE DEF bs
<1>3. ASSUME NEW i \in 1..Len(bs), bs[i].to = Carried
      PROVE  i + 1 \in 1..Len(before) /\ bs[i] = before[i + 1]
  <2>1. i # Len(bs)
    BY <1>2, <1>3
  <2>2. i \in 1..Len(t)
    BY <1>1, <1>2, <2>1
  <2>3. i + 1 \in 1..Len(before)
    BY <1>1, <2>2
  <2>. QED
    BY <1>1, <1>2, <2>2, <2>3
<1>4. MovedUp(before, bs)
  BY <1>3 DEF MovedUp
<1>. QED
  BY <1>4 DEF bs, t

(* Nothing of the one that carries has changed. *)
StillSame ==
    /\ kind' = kind
    /\ phase'[Carried] = phase[Carried]
    /\ rest'[Carried] = rest[Carried]
    /\ Carried \in misled' <=> Carried \in misled
    /\ MovedUp(answers, answers')

LEMMA OthersSteps ==
    ASSUME FtpInv, NEW o \in Ops, o # Carried, FtpStep(o)
    PROVE  StillSame
<1>1. /\ kind' = kind
      /\ phase \in [Ops -> Phases] /\ rest \in [Ops -> Seq(Moves)] /\ Carried \in Ops
      /\ answers \in Seq(Sayings)
      /\ \A good \in BOOLEAN : Answer(o, good) \in Sayings /\ Answer(o, good).to # Carried
  BY CarryAssumption DEF FtpInv, FtpTypeOK, Sayings, Answer, FtpStep, Begin, Got, Say, Hear,
     Transferred, Again, BreakOff, Aborted, Drop, Close
<1>2. /\ MovedUp(answers, answers)
      /\ \A good \in BOOLEAN : MovedUp(answers, Append(answers, Answer(o, good)))
      /\ answers # <<>> => MovedUp(answers, Tail(answers))
      /\ answers # <<>> =>
            \A good \in BOOLEAN : MovedUp(answers, Append(Tail(answers), Answer(o, good)))
  BY <1>1, MovedUpSame, MovedUpAppend, MovedUpTail, MovedUpTailAppend
<1>3. ASSUME LeaveUnread(o), UNCHANGED <<rest, misled>>
      PROVE  StillSame
  BY <1>1, <1>2, <1>3 DEF StillSame, LeaveUnread, End, Step, ServerStops
<1>4. ASSUME StartAborting(o), UNCHANGED <<rest, misled>>
      PROVE  StillSame
  BY <1>1, <1>2, <1>4 DEF StillSame, StartAborting, Step, channel
<1>5. CASE Begin(o) \/ Got(o) \/ Transferred(o) \/ Again(o)
  BY <1>1, <1>2, <1>5 DEF StillSame, Begin, Got, Transferred, Again, Step, GoOn, channel
<1>6. CASE Say(o)
  BY <1>1, <1>2, <1>6 DEF StillSame, Say, Step
<1>7. CASE Hear(o)
  <2>1. phase'[Carried] = phase[Carried] /\ rest'[Carried] = rest[Carried]
    BY <1>1, <1>7 DEF Hear, Believe, End, Step, GoOn
  <2>2. Carried \in misled' <=> Carried \in misled
    BY <1>7 DEF Hear
  <2>3. MovedUp(answers, answers')
    BY <1>2, <1>7 DEF Hear
  <2>. QED
    BY <1>1, <2>1, <2>2, <2>3 DEF StillSame
<1>8. CASE \E whole \in BOOLEAN : Close(o, whole)
  BY <1>1, <1>2, <1>8 DEF StillSame, Close, Step
<1>9. CASE BreakOff(o)
  BY <1>3, <1>4, <1>9 DEF BreakOff
<1>10. CASE Aborted(o)
  BY <1>1, <1>2, <1>10 DEF StillSame, Aborted, End, Step
<1>11. CASE Drop(o)
  <2>1. CASE DropInLine(o)
    BY <1>1, <1>2, <1>11, <2>1 DEF StillSame, Drop, DropInLine, Step, channel
  <2>2. CASE DropWaiting(o) \/ DropMoving(o)
    BY <1>3, <1>4, <1>11, <2>2 DEF Drop, DropWaiting, DropMoving
  <2>. QED
    BY <1>11, <2>1, <2>2 DEF Drop
<1>. QED
  BY <1>5, <1>6, <1>7, <1>8, <1>9, <1>10, <1>11 DEF FtpStep

(* What its own steps do: it stops, it waits, it says something, it is     *)
(* told something, or it goes on.                                          *)
Stops ==
    /\ kind' = kind /\ rest'[Carried] = rest[Carried]
    /\ phase'[Carried] \in {"failed", "over", "aborting"}

Waits ==
    /\ kind' = kind /\ rest'[Carried] = rest[Carried]
    /\ phase[Carried] \in {"idle", "queued"} /\ phase'[Carried] \in {"queued", "ready"}
    /\ answers' = answers /\ misled' = misled

Speaks ==
    /\ kind' = kind /\ rest'[Carried] = rest[Carried]
    /\ phase[Carried] = "ready" /\ phase'[Carried] = "awaiting"
    /\ Head(rest[Carried]) # "transfer"
    /\ misled' = misled
    /\ \E good \in BOOLEAN :
          /\ answers' \in {answers, Append(answers, Answer(Carried, good))}
          /\ Head(rest[Carried]) = "closing" /\ good => AllSent

IsTold ==
    /\ kind' = kind /\ rest'[Carried] = Tail(rest[Carried])
    /\ phase[Carried] = "awaiting" /\ answers # <<>>
    /\ phase'[Carried] = IF Len(rest[Carried]) = 1 THEN "done" ELSE "ready"
    /\ Head(answers).good \/ Head(rest[Carried]) = "asking"
    /\ answers' = Tail(answers)
    /\ Carried \notin misled' => Carried \notin misled /\ Head(answers).to = Carried

GoesOn ==
    /\ kind' = kind /\ rest'[Carried] = Tail(rest[Carried])
    /\ phase[Carried] = "ready" /\ phase'[Carried] = "queued"
    /\ Head(rest[Carried]) = "again"
    /\ answers' = answers /\ misled' = misled

LEMMA OwnTalk ==
    ASSUME FtpInv, Begin(Carried) \/ Talk(Carried)
    PROVE  /\ phase[Carried] # "done" /\ ~ Moving
           /\ Stops \/ Waits \/ Speaks \/ IsTold \/ GoesOn
<1>. DEFINE C == Carried
<1>1. /\ C \in Ops /\ phase \in [Ops -> Phases] /\ rest \in [Ops -> Seq(Moves)]
      /\ answers \in Seq(Sayings)
  BY CarryAssumption DEF FtpInv, FtpTypeOK, Sayings
<1>2. CASE Begin(C) \/ Got(C)
  <2>1. Waits
    BY <1>1, <1>2 DEF Waits, Begin, Got, Step, channel
  <2>. QED
    BY <2>1 DEF Waits, Moving
<1>3. CASE Say(C)
  <2>1. Head(rest[C]) \in {"asking", "command"} /\ phase[C] = "ready"
    BY <1>3 DEF Say, Doing
  <2>2. PICK good \in BOOLEAN : answers' = Append(answers, Answer(C, good))
    BY <1>3 DEF Say
  <2>3. Speaks
    BY <1>1, <1>3, <2>1, <2>2 DEF Speaks, Say, Step
  <2>. QED
    BY <2>1, <2>3 DEF Moving, Doing
<1>4. CASE Close(C, C = Carried => AllSent)
  <2>1. Head(rest[C]) = "closing" /\ phase[C] = "ready"
    BY <1>4 DEF Close, Doing
  <2>2. PICK good \in BOOLEAN : good = AllSent
    BY DEF AllSent
  <2>3. answers' \in {answers, Append(answers, Answer(C, good))}
    BY <1>4, <2>2 DEF Close
  <2>4. Speaks
    BY <1>1, <1>4, <2>1, <2>2, <2>3 DEF Speaks, Close, Step
  <2>. QED
    BY <2>1, <2>4 DEF Moving, Doing
<1>5. CASE Hear(C)
  <2>1. phase[C] = "awaiting" /\ answers # <<>>
    BY <1>5 DEF Hear
  <2>2. Fits("awaiting", rest[C])
    BY <1>1, <2>1 DEF FtpInv, Courses
  <2>3. rest[C] # <<>>
    BY <2>2 DEF Fits
  <2>4. CASE Head(answers).good \/ Head(rest[C]) = "asking"
    <3>1. GoOn(C) /\ IF Len(rest[C]) = 1 THEN End(C, "done") ELSE Step(C, "ready") /\ UNCHANGED lock
      BY <1>5, <2>3, <2>4 DEF Hear, Believe, Doing
    <3>2. /\ rest'[C] = Tail(rest[C])
          /\ phase'[C] = IF Len(rest[C]) = 1 THEN "done" ELSE "ready"
      BY <1>1, <3>1 DEF GoOn, End, Step
    <3>3. answers' = Tail(answers)
      BY <1>5, <3>2 DEF Hear
    <3>4. Carried \notin misled' => Carried \notin misled /\ Head(answers).to = Carried
      BY <1>5 DEF Hear
    <3>5. IsTold
      BY <1>5, <2>1, <2>4, <3>2, <3>3, <3>4 DEF IsTold, Hear
    <3>. QED
      BY <2>1, <3>5 DEF Moving
  <2>5. CASE ~ (Head(answers).good \/ Head(rest[C]) = "asking")
    <3>1. End(C, "failed") /\ UNCHANGED rest
      BY <1>5, <2>3, <2>5 DEF Hear, Believe, Doing
    <3>2. Stops
      BY <1>1, <1>5, <3>1 DEF Stops, End, Step, Hear
    <3>. QED
      BY <2>1, <3>2 DEF Moving
  <2>. QED
    BY <2>4, <2>5
<1>6. CASE Again(C)
  <2>1. GoesOn
    BY <1>1, <1>6 DEF GoesOn, Again, Step, GoOn, Doing, channel
  <2>. QED
    BY <2>1 DEF GoesOn, Moving, Doing
<1>7. CASE Aborted(C)
  <2>1. Stops
    BY <1>1, <1>7 DEF Stops, Aborted, End, Step
  <2>. QED
    BY <1>7, <2>1 DEF Aborted, Moving
<1>. QED
  BY <1>2, <1>3, <1>4, <1>5, <1>6, <1>7 DEF Talk

LEMMA OwnStop ==
    ASSUME FtpInv, Drop(Carried) \/ BreakOff(Carried)
    PROVE  Stops /\ phase[Carried] # "done"
<1>. DEFINE C == Carried
<1>1. C \in Ops /\ phase \in [Ops -> Phases]
  BY CarryAssumption DEF FtpInv, FtpTypeOK
<1>2. kind' = kind /\ rest' = rest
  BY DEF Drop, BreakOff
<1>3. ASSUME LeaveUnread(C) \/ StartAborting(C) \/ DropInLine(C)
      PROVE  phase'[C] \in {"failed", "over", "aborting"}
  BY <1>1, <1>3 DEF LeaveUnread, StartAborting, DropInLine, End, Step
<1>4. /\ LeaveUnread(C) \/ StartAborting(C) \/ DropInLine(C)
      /\ phase[C] \in {"ready", "queued", "awaiting"}
  BY DEF Drop, BreakOff, DropWaiting, DropMoving, DropInLine
<1>. QED
  BY <1>2, <1>3, <1>4 DEF Stops

-----------------------------------------------------------------------------
(* The file. *)

Blocks == [at : Nat, n : Nat, state : {"asked", "good", "broken"}]

CarryTypeOK ==
    /\ listed \in Nat /\ length \in Nat /\ takes \in Nat /\ takes <= MAX_PACKET
    /\ offset \in Nat
    /\ air \in Seq(Blocks)
    /\ arrived \in Seq(Nat) /\ pending \in Seq(Nat) /\ writes \in Seq(Seq(Nat))
    /\ packet \in Nat \cup {Unknown}
    /\ landing \in {"open", "packing", "ending", "done", "failed"}

HasTransfer(s) == \E i \in 1..Len(s) : s[i] = "transfer"

(* Whatever carries a file ends with the answer to all of it. *)
EndsWithClosing ==
    /\ kind[Carried] \in {"read", "write"}
    /\ rest[Carried] # <<>> => rest[Carried][Len(rest[Carried])] = "closing"

(* The reads that are asked for follow each other without a gap, from what *)
(* has arrived to how far has been asked, and one that was answered is of  *)
(* something that is there.                                                *)
Reads ==
    /\ offset <= listed
    /\ \A i \in 1..Len(air) :
          /\ air[i].state = "good" => air[i].at + air[i].n <= length
          /\ air[i].at + air[i].n = IF i = Len(air) THEN offset ELSE air[i + 1].at
    /\ FromSftp => Len(arrived) = IF air = <<>> THEN offset ELSE air[1].at
    /\ FromSftp /\ ~ HasTransfer(rest[Carried]) => offset = listed /\ air = <<>>

Arrivals == arrived = Units(0, Len(arrived)) /\ Len(arrived) <= length

(* What was said to the one that carries, while it has heard nothing that  *)
(* was said to another: nothing until it asks, one answer when it has, and *)
(* the last of a download is good only when all of it was sent.            *)
OwnAnswers ==
    Carried \notin misled =>
       /\ phase[Carried] \in {"idle", "queued", "ready"} =>
             \A i \in 1..Len(answers) : answers[i].to # Carried
       /\ phase[Carried] = "awaiting" =>
             \A i, j \in 1..Len(answers) :
                answers[i].to = Carried /\ answers[j].to = Carried => i = j
       /\ phase[Carried] = "awaiting" /\ Head(rest[Carried]) = "closing" =>
             \A i \in 1..Len(answers) :
                answers[i].to = Carried /\ answers[i].good => AllSent
       /\ phase[Carried] = "done" => AllSent

(* What has arrived has been written or is about to be, in packets of what *)
(* the server takes until the file has ended.                              *)
Landing ==
    /\ ~ FromSftp => Written \o pending = arrived
    /\ landing = "done" => pending = <<>>
    /\ landing = "packing" => Moving /\ ~ FromSftp
    /\ landing \in {"ending", "done"} => phase[Carried] = "done" /\ ~ FromSftp
    /\ packet # Unknown => packet = takes
    /\ landing # "done" => \A i \in 1..Len(writes) : Len(writes[i]) = takes
    /\ PacketsAreWhole

CarryInv ==
    /\ FtpInv
    /\ CarryTypeOK
    /\ EndsWithClosing
    /\ Reads
    /\ Arrivals
    /\ OwnAnswers
    /\ Landing

LEMMA UnitsProperties ==
    ASSUME NEW a \in Nat, NEW n \in Nat
    PROVE  /\ Units(a, n) \in Seq(Nat) /\ Len(Units(a, n)) = n
           /\ \A i \in 1..n : Units(a, n)[i] = a + i
           /\ Units(0, a) \o Units(a, n) = Units(0, a + n)
<1>1. /\ Units(a, n) \in Seq(Nat) /\ Len(Units(a, n)) = n
      /\ \A i \in 1..n : Units(a, n)[i] = a + i
  BY DEF Units
<1>2. /\ Units(0, a) \in Seq(Nat) /\ Len(Units(0, a)) = a
      /\ \A i \in 1..a : Units(0, a)[i] = i
  BY DEF Units
<1>3. a + n \in Nat
  OBVIOUS
<1>4. /\ Units(0, a + n) \in Seq(Nat) /\ Len(Units(0, a + n)) = a + n
      /\ \A i \in 1..(a + n) : Units(0, a + n)[i] = i
  BY <1>3 DEF Units
<1>. DEFINE both == Units(0, a) \o Units(a, n)
<1>5. /\ both \in Seq(Nat) /\ Len(both) = a + n
      /\ \A i \in 1..(a + n) :
            both[i] = IF i <= a THEN Units(0, a)[i] ELSE Units(a, n)[i - a]
  <2>. DEFINE u == Units(0, a)
              v == Units(a, n)
  <2>1. u \in Seq(Nat) /\ v \in Seq(Nat) /\ Len(u) = a /\ Len(v) = n
    BY <1>1, <1>2
  <2>. HIDE DEF u, v
  <2>2. /\ u \o v \in Seq(Nat) /\ Len(u \o v) = Len(u) + Len(v)
        /\ \A i \in 1..(Len(u) + Len(v)) :
              (u \o v)[i] = IF i <= Len(u) THEN u[i] ELSE v[i - Len(u)]
    BY <2>1, ConcatProperties
  <2>3. /\ u \o v \in Seq(Nat) /\ Len(u \o v) = a + n
        /\ \A i \in 1..(a + n) :
              (u \o v)[i] = IF i <= a THEN u[i] ELSE v[i - a]
    BY <2>1, <2>2
  <2>. QED
    BY <2>3 DEF u, v
<1>6. \A i \in 1..(a + n) : both[i] = i
  <2>. TAKE i \in 1..(a + n)
  <2>1. CASE i <= a
    BY <1>2, <1>5, <2>1
  <2>2. CASE ~ (i <= a)
    <3>1. i - a \in 1..n /\ a + (i - a) = i
      BY <2>2
    <3>. QED
      BY <1>1, <1>5, <2>2, <3>1
  <2>. QED
    BY <2>1, <2>2
<1>. HIDE DEF both
<1>7. both = Units(0, a + n)
  BY <1>4, <1>5, <1>6, SeqEqual
<1>. QED
  BY <1>1, <1>7 DEF both

LEMMA CarryStarts == Init => CarryInv
<1>. SUFFICES ASSUME Init PROVE CarryInv
  OBVIOUS
<1>1. FtpInv
  BY FtpStarts DEF Init
<1>2. CarryTypeOK
  BY CarryAssumption DEF Init, CarryTypeOK
<1>3. EndsWithClosing
  <2>1. kind[Carried] \in {"read", "write"}
    BY CarryAssumption DEF Init, FtpInit
  <2>2. rest[Carried] = Script[kind[Carried]]
    BY CarryAssumption DEF Init, FtpInit
  <2>3. CASE kind[Carried] = "read"
    <3>1. rest[Carried] = <<"asking", "command", "transfer", "closing">>
      BY <2>2, <2>3 DEF Script
    <3>. QED
      BY <2>1, <3>1 DEF EndsWithClosing
  <2>4. CASE kind[Carried] = "write"
    <3>1. rest[Carried] = <<"command", "transfer", "closing">>
      BY <2>2, <2>4 DEF Script
    <3>. QED
      BY <2>1, <3>1 DEF EndsWithClosing
  <2>. QED
    BY <2>1, <2>3, <2>4
<1>4. Reads
  <2>1. FromSftp => HasTransfer(rest[Carried])
    <3>. SUFFICES ASSUME FromSftp PROVE HasTransfer(rest[Carried])
      OBVIOUS
    <3>1. rest[Carried] = <<"command", "transfer", "closing">>
      BY CarryAssumption DEF Init, FtpInit, FromSftp, Script
    <3>2. 2 \in 1..Len(rest[Carried]) /\ rest[Carried][2] = "transfer"
      BY <3>1
    <3>. QED
      BY <3>2 DEF HasTransfer
  <2>2. offset = 0 /\ air = <<>> /\ arrived = <<>> /\ listed \in Nat
    BY <1>2 DEF Init, CarryTypeOK
  <2>. QED
    BY <2>1, <2>2 DEF Reads
<1>5. Arrivals
  <2>1. Units(0, 0) = <<>>
    BY DEF Units
  <2>. QED
    BY <1>2, <2>1 DEF Init, Arrivals, CarryTypeOK
<1>6. OwnAnswers
  BY CarryAssumption DEF Init, FtpInit, OwnAnswers
<1>7. Landing
  <2>1. FlattenSeq(<<>>) = <<>>
    BY DEF FlattenSeq
  <2>. QED
    BY <2>1 DEF Init, Landing, Written, PacketsAreWhole
<1>. QED
  BY <1>1, <1>2, <1>3, <1>4, <1>5, <1>6, <1>7 DEF CarryInv

(* Steps that leave the file alone. *)
NothingCarried ==
    /\ UNCHANGED <<sizes, reading, arrived, pending, packet, writes>>

LEMMA NothingCarriedIs ==
    ASSUME NothingCarried
    PROVE  /\ listed' = listed /\ length' = length /\ takes' = takes
           /\ offset' = offset /\ idle' = idle /\ air' = air
           /\ arrived' = arrived /\ pending' = pending /\ packet' = packet /\ writes' = writes
BY DEF NothingCarried, sizes, reading

LEMMA MovedUpKeeps ==
    ASSUME NEW said, NEW heard, MovedUp(said, heard), Len(said) \in Nat, Len(heard) \in Nat
    PROVE  /\ (\A i \in 1..Len(said) : said[i].to # Carried)
                 => \A i \in 1..Len(heard) : heard[i].to # Carried
           /\ (\A i, j \in 1..Len(said) : said[i].to = Carried /\ said[j].to = Carried => i = j)
                 => \A i, j \in 1..Len(heard) : heard[i].to = Carried /\ heard[j].to = Carried => i = j
           /\ \A P \in BOOLEAN :
                 (\A i \in 1..Len(said) : said[i].to = Carried /\ said[i].good => P)
                    => \A i \in 1..Len(heard) : heard[i].to = Carried /\ heard[i].good => P
<1>1. PICK k \in {0, 1} :
         \A i \in 1..Len(heard) :
            heard[i].to = Carried => i + k \in 1..Len(said) /\ heard[i] = said[i + k]
  BY DEF MovedUp
<1>2. (\A i \in 1..Len(said) : said[i].to # Carried)
         => \A i \in 1..Len(heard) : heard[i].to # Carried
  BY <1>1
<1>3. ASSUME \A i, j \in 1..Len(said) : said[i].to = Carried /\ said[j].to = Carried => i = j,
             NEW i \in 1..Len(heard), NEW j \in 1..Len(heard),
             heard[i].to = Carried, heard[j].to = Carried
      PROVE  i = j
  <2>1. /\ i + k \in 1..Len(said) /\ said[i + k].to = Carried
        /\ j + k \in 1..Len(said) /\ said[j + k].to = Carried
    BY <1>1, <1>3
  <2>2. i + k = j + k
    BY <1>3, <2>1
  <2>. QED
    BY <1>1, <2>2
<1>4. \A P \in BOOLEAN :
         (\A i \in 1..Len(said) : said[i].to = Carried /\ said[i].good => P)
            => \A i \in 1..Len(heard) : heard[i].to = Carried /\ heard[i].good => P
  BY <1>1
<1>. QED
  BY <1>2, <1>3, <1>4

LEMMA SameKeepsAnswers ==
    ASSUME CarryInv, FtpTypeOK', StillSame, arrived' = arrived, length' = length
    PROVE  OwnAnswers'
<1>1. /\ AllSent' = AllSent /\ AllSent \in BOOLEAN
  BY DEF StillSame, AllSent, FromSftp
<1>2. Len(answers) \in Nat /\ Len(answers') \in Nat
  BY DEF CarryInv, FtpInv, FtpTypeOK
<1>3. MovedUp(answers, answers')
  BY DEF StillSame
<1>. SUFFICES ASSUME Carried \notin misled
              PROVE  OwnAnswers'
  BY DEF StillSame, OwnAnswers
<1>4. /\ phase'[Carried] = phase[Carried] /\ rest'[Carried] = rest[Carried]
  BY DEF StillSame
<1>5. phase[Carried] \in {"idle", "queued", "ready"} =>
         \A i \in 1..Len(answers') : answers'[i].to # Carried
  BY <1>2, <1>3, MovedUpKeeps DEF CarryInv, OwnAnswers
<1>6. phase[Carried] = "awaiting" =>
         \A i, j \in 1..Len(answers') :
            answers'[i].to = Carried /\ answers'[j].to = Carried => i = j
  BY <1>2, <1>3, MovedUpKeeps DEF CarryInv, OwnAnswers
<1>7. phase[Carried] = "awaiting" /\ Head(rest[Carried]) = "closing" =>
         \A i \in 1..Len(answers') : answers'[i].to = Carried /\ answers'[i].good => AllSent
  BY <1>1, <1>2, <1>3, MovedUpKeeps DEF CarryInv, OwnAnswers
<1>8. phase[Carried] = "done" => AllSent
  BY DEF CarryInv, OwnAnswers
<1>. QED
  BY <1>1, <1>4, <1>5, <1>6, <1>7, <1>8 DEF OwnAnswers

(* Others' steps, and being let go of. *)
LEMMA QuietKeeps ==
    ASSUME CarryInv, FtpInv', NothingCarried,
           (landing' = "failed" /\ landing # "done") \/ landing' = landing,
           StillSame \/ (Stops /\ (landing' = "failed" \/ landing \in {"open", "failed"}))
    PROVE  CarryInv'
<1>1. /\ listed' = listed /\ length' = length /\ takes' = takes
      /\ offset' = offset /\ air' = air /\ arrived' = arrived
      /\ pending' = pending /\ packet' = packet /\ writes' = writes
  BY NothingCarriedIs
<1>2. kind' = kind /\ rest'[Carried] = rest[Carried] /\ (FromSftp' <=> FromSftp)
  BY DEF StillSame, Stops, FromSftp
<1>3. CarryTypeOK' /\ EndsWithClosing' /\ Reads' /\ Arrivals'
  BY <1>1, <1>2 DEF CarryInv, CarryTypeOK, EndsWithClosing, Reads, Arrivals
<1>4. OwnAnswers'
  <2>1. CASE StillSame
    BY <1>1, <2>1, SameKeepsAnswers DEF FtpInv
  <2>2. CASE Stops
    BY <2>2 DEF Stops, OwnAnswers
  <2>. QED
    BY <2>1, <2>2
<1>5. Landing'
  <2>1. (~ FromSftp' => Written' \o pending' = arrived') /\ PacketsAreWhole'
        /\ (packet' # Unknown => packet' = takes')
    BY <1>1, <1>2 DEF CarryInv, Landing, Written, PacketsAreWhole
  <2>2. CASE landing' = "failed" /\ landing # "done"
    BY <1>1, <2>1, <2>2 DEF CarryInv, Landing
  <2>3. CASE landing' = landing /\ (StillSame \/ landing \in {"open", "failed"})
    <3>1. landing = "packing" => Moving' /\ ~ FromSftp'
      BY <1>2, <2>3 DEF CarryInv, Landing, StillSame, Moving, Doing
    <3>2. landing \in {"ending", "done"} => phase'[Carried] = "done" /\ ~ FromSftp'
      BY <1>2, <2>3 DEF CarryInv, Landing, StillSame
    <3>. QED
      BY <1>1, <2>1, <2>3, <3>1, <3>2 DEF CarryInv, Landing
  <2>. QED
    BY <2>2, <2>3
<1>. QED
  BY <1>3, <1>4, <1>5 DEF CarryInv

LEMMA TailOfRest ==
    ASSUME NEW s \in Seq(Moves), s # <<>>
    PROVE  /\ Tail(s) # <<>> => Tail(s)[Len(Tail(s))] = s[Len(s)]
           /\ Head(s) # "transfer" /\ HasTransfer(s) => HasTransfer(Tail(s))
<1>1. /\ Len(s) \in Nat /\ Len(s) > 0 /\ Head(s) = s[1]
      /\ Tail(s) \in Seq(Moves) /\ Len(Tail(s)) = Len(s) - 1
      /\ \A i \in 1..Len(Tail(s)) : Tail(s)[i] = s[i + 1]
  BY HeadTailProperties
<1>2. ASSUME Tail(s) # <<>>
      PROVE  Tail(s)[Len(Tail(s))] = s[Len(s)]
  <2>1. Len(Tail(s)) > 0
    BY <1>1, <1>2
  <2>2. Len(Tail(s)) \in 1..Len(Tail(s)) /\ Len(Tail(s)) + 1 = Len(s)
    BY <1>1, <2>1
  <2>. QED
    BY <1>1, <2>2
<1>3. ASSUME Head(s) # "transfer", NEW i \in 1..Len(s), s[i] = "transfer"
      PROVE  HasTransfer(Tail(s))
  <2>1. i - 1 \in 1..Len(Tail(s)) /\ (i - 1) + 1 = i
    BY <1>1, <1>3
  <2>2. Tail(s)[i - 1] = "transfer"
    BY <1>1, <1>3, <2>1
  <2>. QED
    BY <2>1, <2>2 DEF HasTransfer
<1>. QED
  BY <1>2, <1>3 DEF HasTransfer

LEMMA OwnTalkKeeps ==
    ASSUME CarryInv, FtpInv', Begin(Carried) \/ Talk(Carried), Untouched
    PROVE  CarryInv'
<1>1. /\ listed' = listed /\ length' = length /\ takes' = takes
      /\ offset' = offset /\ idle' = idle /\ air' = air /\ arrived' = arrived
      /\ pending' = pending /\ packet' = packet /\ writes' = writes /\ landing' = landing
  BY DEF Untouched, sizes, reading, writing
<1>2. /\ phase[Carried] # "done" /\ ~ Moving
      /\ Stops \/ Waits \/ Speaks \/ IsTold \/ GoesOn
  BY OwnTalk DEF CarryInv
<1>3. landing \in {"open", "failed"}
  BY <1>2 DEF CarryInv, CarryTypeOK, Landing
<1>4. /\ Carried \in Ops /\ Fits(phase[Carried], rest[Carried]) /\ rest[Carried] \in Seq(Moves)
      /\ answers \in Seq(Sayings) /\ Len(answers) \in Nat
  BY CarryAssumption DEF CarryInv, FtpInv, FtpTypeOK, Courses, Sayings
<1>5. CASE Stops
  <2>1. NothingCarried
    BY <1>1 DEF NothingCarried, sizes, reading
  <2>. QED
    BY <1>1, <1>3, <1>5, <2>1, QuietKeeps
<1>6. ASSUME kind' = kind,
             \/ rest'[Carried] = rest[Carried]
             \/ /\ rest[Carried] # <<>> /\ Head(rest[Carried]) # "transfer"
                /\ rest'[Carried] = Tail(rest[Carried]),
             OwnAnswers'
      PROVE  CarryInv'
  <2>1. CarryTypeOK' /\ Arrivals'
    BY <1>1 DEF CarryInv, CarryTypeOK, Arrivals
  <2>2. EndsWithClosing'
    <3>1. rest'[Carried] # <<>> => rest'[Carried][Len(rest'[Carried])] = "closing"
      <4>1. CASE rest'[Carried] = rest[Carried]
        BY <4>1 DEF CarryInv, EndsWithClosing
      <4>2. CASE rest[Carried] # <<>> /\ rest'[Carried] = Tail(rest[Carried])
        BY <1>4, <4>2, TailOfRest DEF CarryInv, EndsWithClosing
      <4>. QED
        BY <1>6, <4>1, <4>2
    <3>. QED
      BY <1>6, <3>1 DEF CarryInv, EndsWithClosing
  <2>3. Reads'
    <3>1. HasTransfer(rest[Carried]) => HasTransfer(rest'[Carried])
      BY <1>4, <1>6, TailOfRest
    <3>2. FromSftp' <=> FromSftp
      BY <1>6 DEF FromSftp
    <3>3. HasTransfer(rest[Carried])' <=> HasTransfer(rest'[Carried])
      BY DEF HasTransfer
    <3>. QED
      BY <1>1, <3>1, <3>2, <3>3 DEF CarryInv, Reads
  <2>4. Landing'
    <3>1. FromSftp' <=> FromSftp
      BY <1>6 DEF FromSftp
    <3>. QED
      BY <1>1, <1>3, <3>1 DEF CarryInv, Landing, Written, PacketsAreWhole
  <2>. QED
    BY <1>6, <2>1, <2>2, <2>3, <2>4 DEF CarryInv
<1>7. CASE Waits
  <2>1. OwnAnswers'
    BY <1>7 DEF Waits, CarryInv, OwnAnswers
  <2>. QED
    BY <1>6, <1>7, <2>1 DEF Waits
<1>8. CASE GoesOn
  <2>1. OwnAnswers'
    BY <1>8 DEF GoesOn, CarryInv, OwnAnswers
  <2>2. rest[Carried] # <<>>
    BY <1>4, <1>8 DEF GoesOn, Fits
  <2>. QED
    BY <1>6, <1>8, <2>1, <2>2 DEF GoesOn
<1>9. CASE Speaks
  <2>1. AllSent' = AllSent
    BY <1>1, <1>9 DEF Speaks, AllSent, FromSftp
  <2>2. PICK good \in BOOLEAN :
           /\ answers' \in {answers, Append(answers, Answer(Carried, good))}
           /\ Head(rest[Carried]) = "closing" /\ good => AllSent
    BY <1>9 DEF Speaks
  <2>3. ASSUME Carried \notin misled
        PROVE  \A i \in 1..Len(answers) : answers[i].to # Carried
    BY <1>9, <2>3 DEF Speaks, CarryInv, OwnAnswers
  <2>4. Answer(Carried, good) \in Sayings /\ Answer(Carried, good).good = good
    BY <1>4 DEF Sayings, Answer
  <2>5. ASSUME Carried \notin misled, NEW i \in 1..Len(answers'), answers'[i].to = Carried
        PROVE  i = Len(answers') /\ answers'[i] = Answer(Carried, good)
    <3>1. answers' # answers
      BY <2>3, <2>5
    <3>. DEFINE a == Answer(Carried, good)
    <3>2. answers' = Append(answers, a)
      BY <2>2, <3>1
    <3>. HIDE DEF a
    <3>3. /\ Len(answers') = Len(answers) + 1
          /\ \A j \in 1..Len(answers) : answers'[j] = answers[j]
          /\ answers'[Len(answers')] = a
      BY <1>4, <2>4, <3>2, AppendProperties DEF a
    <3>4. i \notin 1..Len(answers)
      BY <2>3, <2>5, <3>3
    <3>5. i = Len(answers')
      BY <1>4, <3>3, <3>4
    <3>. QED
      BY <3>3, <3>5 DEF a
  <2>6. OwnAnswers'
    <3>. SUFFICES ASSUME Carried \notin misled
                  PROVE  OwnAnswers'
      BY <1>9 DEF Speaks, OwnAnswers
    <3>1. \A i, j \in 1..Len(answers') :
             answers'[i].to = Carried /\ answers'[j].to = Carried => i = j
      BY <2>5
    <3>2. Head(rest[Carried]) = "closing" =>
             \A i \in 1..Len(answers') : answers'[i].to = Carried /\ answers'[i].good => AllSent
      BY <2>2, <2>4, <2>5
    <3>. QED
      BY <1>9, <2>1, <3>1, <3>2 DEF Speaks, OwnAnswers
  <2>. QED
    BY <1>6, <1>9, <2>6 DEF Speaks
<1>10. CASE IsTold
  <2>1. AllSent' = AllSent
    BY <1>1, <1>10 DEF IsTold, AllSent, FromSftp
  <2>2. /\ rest[Carried] # <<>> /\ Head(rest[Carried]) \in {"command", "asking", "closing"}
        /\ phase[Carried] = "awaiting" /\ answers # <<>> /\ answers' = Tail(answers)
    BY <1>4, <1>10 DEF IsTold, Fits
  <2>3. OwnAnswers'
    <3>. SUFFICES ASSUME Carried \notin misled'
                  PROVE  OwnAnswers'
      BY DEF OwnAnswers
    <3>1. Carried \notin misled /\ Head(answers).to = Carried
      BY <1>10 DEF IsTold
    <3>2. /\ Len(answers) > 0 /\ Head(answers) = answers[1] /\ 1 \in 1..Len(answers)
          /\ Len(answers') = Len(answers) - 1
          /\ \A i \in 1..Len(answers') : answers'[i] = answers[i + 1]
      BY <1>4, <2>2, HeadTailProperties
    <3>3. \A i \in 1..Len(answers') : answers'[i].to # Carried
      <4>. SUFFICES ASSUME NEW i \in 1..Len(answers'), answers'[i].to = Carried PROVE FALSE
        OBVIOUS
      <4>1. i + 1 \in 1..Len(answers) /\ answers[i + 1].to = Carried /\ i + 1 # 1
        BY <1>4, <3>2
      <4>. QED
        BY <2>2, <3>1, <3>2, <4>1 DEF CarryInv, OwnAnswers
    <3>4. phase'[Carried] = "done" => AllSent
      <4>. SUFFICES ASSUME phase'[Carried] = "done" PROVE AllSent
        OBVIOUS
      <4>1. Len(rest[Carried]) = 1
        BY <1>10 DEF IsTold
      <4>2. Head(rest[Carried]) = rest[Carried][1] /\ rest[Carried][1] = "closing"
        BY <1>4, <2>2, <4>1 DEF CarryInv, EndsWithClosing
      <4>3. answers[1].good
        BY <1>10, <3>2, <4>2 DEF IsTold
      <4>. QED
        BY <2>2, <3>1, <3>2, <4>2, <4>3 DEF CarryInv, OwnAnswers
    <3>5. phase'[Carried] \in {"done", "ready"}
      BY <1>10 DEF IsTold
    <3>. QED
      BY <2>1, <3>3, <3>4, <3>5 DEF OwnAnswers
  <2>. QED
    BY <1>6, <1>10, <2>2, <2>3 DEF IsTold
<1>. QED
  BY <1>2, <1>5, <1>7, <1>8, <1>9, <1>10

(* The file has come or gone: an upload's blocks have all been handed on. *)
LEMMA TransferredKeepsFile ==
    ASSUME CarryInv, FtpInv', Transferred(Carried), Untouched, landing \in {"open", "failed"},
           FromSftp => offset = listed /\ air = <<>>
    PROVE  CarryInv'
<1>1. /\ listed' = listed /\ length' = length /\ takes' = takes
      /\ offset' = offset /\ idle' = idle /\ air' = air /\ arrived' = arrived
      /\ pending' = pending /\ packet' = packet /\ writes' = writes /\ landing' = landing
  BY DEF Untouched, sizes, reading, writing
<1>2. /\ kind' = kind /\ phase' = phase /\ answers' = answers /\ misled' = misled
      /\ rest'[Carried] = Tail(rest[Carried]) /\ rest[Carried] # <<>>
      /\ phase[Carried] = "ready" /\ rest[Carried] \in Seq(Moves)
  BY CarryAssumption DEF Transferred, GoOn, Doing, channel, CarryInv, FtpInv, FtpTypeOK
<1>3. FromSftp' <=> FromSftp
  BY <1>2 DEF FromSftp
<1>4. CarryTypeOK' /\ Arrivals'
  BY <1>1 DEF CarryInv, CarryTypeOK, Arrivals
<1>5. EndsWithClosing'
  BY <1>2, TailOfRest DEF CarryInv, EndsWithClosing
<1>6. Reads'
  BY <1>1, <1>3 DEF CarryInv, Reads
<1>7. OwnAnswers'
  BY <1>2 DEF CarryInv, OwnAnswers
<1>8. Landing'
  BY <1>1, <1>3 DEF CarryInv, Landing, Written, PacketsAreWhole
<1>. QED
  BY <1>4, <1>5, <1>6, <1>7, <1>8 DEF CarryInv

(* Steps of the file alone. *)
LEMMA FtpIs ==
    ASSUME UNCHANGED ftp
    PROVE  /\ kind' = kind /\ phase' = phase /\ rest' = rest /\ answers' = answers
           /\ misled' = misled /\ (FromSftp' <=> FromSftp) /\ (Moving' <=> Moving)
<1>1. /\ kind' = kind /\ phase' = phase /\ rest' = rest /\ answers' = answers
      /\ misled' = misled
  BY DEF ftp, channel
<1>. QED
  BY <1>1 DEF FromSftp, Moving, Doing

LEMMA FileAlone ==
    ASSUME CarryInv, UNCHANGED ftp, length' = length, Moving \/ arrived' = arrived
    PROVE  FtpInv' /\ EndsWithClosing' /\ OwnAnswers'
<1>1. /\ kind' = kind /\ phase' = phase /\ rest' = rest /\ answers' = answers
      /\ misled' = misled /\ (FromSftp' <=> FromSftp)
  BY FtpIs
<1>2. FtpInv' /\ EndsWithClosing'
  BY <1>1, FtpStays DEF CarryInv, EndsWithClosing
<1>3. OwnAnswers'
  <2>1. CASE Moving
    BY <1>1, <2>1 DEF CarryInv, OwnAnswers, Moving
  <2>2. CASE arrived' = arrived
    <3>1. AllSent' = AllSent
      BY <1>1, <2>2 DEF AllSent
    <3>. QED
      BY <1>1, <3>1 DEF CarryInv, OwnAnswers
  <2>. QED
    BY <2>1, <2>2
<1>. QED
  BY <1>2, <1>3

LEMMA AskAheadKeeps ==
    ASSUME CarryInv, AskAhead
    PROVE  CarryInv'
<1>1. /\ Moving /\ FromSftp /\ offset < listed /\ UNCHANGED ftp
      /\ listed' = listed /\ length' = length /\ takes' = takes /\ arrived' = arrived
      /\ pending' = pending /\ packet' = packet /\ writes' = writes /\ landing' = landing
  BY DEF AskAhead, sizes, writing
<1>. DEFINE n == Smaller(READ_BLOCK, listed - offset)
            b == Block(offset, n)
<1>2. air' = Append(air, b) /\ offset' = offset + n
  BY DEF AskAhead
<1>3. listed \in Nat /\ offset \in Nat /\ air \in Seq(Blocks) /\ arrived \in Seq(Nat)
  BY DEF CarryInv, CarryTypeOK
<1>4. n \in Nat /\ n > 0 /\ n <= listed - offset
  BY <1>1, <1>3, CarryAssumption DEF Smaller
<1>5. b \in Blocks /\ b.at = offset /\ b.n = n /\ b.state = "asked"
  BY <1>3, <1>4 DEF Block, Blocks
<1>. HIDE DEF b, n
<1>6. /\ air' \in Seq(Blocks) /\ Len(air) \in Nat /\ Len(air') = Len(air) + 1
      /\ \A i \in 1..Len(air) : air'[i] = air[i]
      /\ air'[Len(air) + 1] = b
  BY <1>2, <1>3, <1>5, AppendProperties
<1>7. offset' \in Nat /\ offset' <= listed
  BY <1>2, <1>3, <1>4
<1>8. CarryTypeOK'
  BY <1>1, <1>6, <1>7 DEF CarryInv, CarryTypeOK
<1>9. /\ kind' = kind /\ phase' = phase /\ rest' = rest /\ (FromSftp' <=> FromSftp) /\ (Moving' <=> Moving)
  BY <1>1, FtpIs
<1>10. Reads'
  <2>1. ASSUME NEW i \in 1..Len(air')
        PROVE  /\ air'[i].state = "good" => air'[i].at + air'[i].n <= length
               /\ air'[i].at + air'[i].n = IF i = Len(air') THEN offset' ELSE air'[i + 1].at
    <3>1. CASE i = Len(air')
      BY <1>2, <1>5, <1>6, <3>1
    <3>2. CASE i # Len(air')
      <4>1. i \in 1..Len(air)
        BY <1>6, <3>2
      <4>2. /\ air[i].state = "good" => air[i].at + air[i].n <= length
            /\ air[i].at + air[i].n = IF i = Len(air) THEN offset ELSE air[i + 1].at
        BY <4>1 DEF CarryInv, Reads
      <4>3. CASE i = Len(air)
        BY <1>5, <1>6, <3>2, <4>1, <4>2, <4>3
      <4>4. CASE i # Len(air)
        <5>1. i + 1 \in 1..Len(air)
          BY <1>6, <4>1, <4>4
        <5>. QED
          BY <1>6, <3>2, <4>1, <4>2, <4>4, <5>1
      <4>. QED
        BY <4>3, <4>4
    <3>. QED
      BY <3>1, <3>2
  <2>2. Len(arrived') = IF air' = <<>> THEN offset' ELSE air'[1].at
    <3>1. air' # <<>>
      BY <1>6
    <3>2. CASE air = <<>>
      <4>1. Len(air) = 0 /\ Len(arrived) = offset
        BY <1>1, <3>2 DEF CarryInv, Reads
      <4>. QED
        BY <1>1, <1>5, <1>6, <3>1, <4>1
    <3>3. CASE air # <<>>
      <4>1. 1 \in 1..Len(air)
        BY <1>3, <3>3
      <4>. QED
        BY <1>1, <1>6, <3>1, <3>3, <4>1 DEF CarryInv, Reads
    <3>. QED
      BY <3>2, <3>3
  <2>3. HasTransfer(rest'[Carried])
    <3>1. rest[Carried] \in Seq(Moves)
      BY CarryAssumption DEF CarryInv, FtpInv, FtpTypeOK
    <3>2. 1 \in 1..Len(rest[Carried]) /\ rest[Carried][1] = "transfer"
      BY <1>1, <3>1 DEF Moving, Doing
    <3>. QED
      BY <1>9, <3>2 DEF HasTransfer
  <2>4. HasTransfer(rest[Carried])'
    BY <2>3 DEF HasTransfer
  <2>. QED
    BY <1>1, <1>7, <2>1, <2>2, <2>4 DEF Reads
<1>11. Arrivals'
  BY <1>1 DEF CarryInv, Arrivals
<1>12. Landing'
  BY <1>1, <1>9 DEF CarryInv, Landing, Written, PacketsAreWhole
<1>13. FtpInv' /\ EndsWithClosing' /\ OwnAnswers'
  BY <1>1, FileAlone
<1>. QED
  BY <1>8, <1>10, <1>11, <1>12, <1>13 DEF CarryInv

LEMMA SftpAnswersKeeps ==
    ASSUME CarryInv, NEW k \in DOMAIN air, SftpAnswers(k)
    PROVE  CarryInv'
<1>1. /\ Moving /\ UNCHANGED ftp
      /\ listed' = listed /\ length' = length /\ takes' = takes /\ arrived' = arrived
      /\ offset' = offset
      /\ pending' = pending /\ packet' = packet /\ writes' = writes /\ landing' = landing
  BY DEF SftpAnswers, sizes, writing
<1>2. PICK state \in {"good", "broken"} :
          /\ state = "good" => air[k].at + air[k].n <= length
          /\ air' = [air EXCEPT ![k].state = state]
  BY DEF SftpAnswers
<1>3. air \in Seq(Blocks) /\ k \in 1..Len(air) /\ Len(air) \in Nat
  BY DEF CarryInv, CarryTypeOK
<1>4. /\ air' \in Seq(Blocks) /\ Len(air') = Len(air)
      /\ \A i \in 1..Len(air) :
            /\ air'[i].at = air[i].at /\ air'[i].n = air[i].n
            /\ air'[i].state = IF i = k THEN state ELSE air[i].state
  <2>. DEFINE b == [air[k] EXCEPT !.state = state]
  <2>1. air[k] \in Blocks
    BY <1>3, ElementOfSeq
  <2>2. b \in Blocks /\ b.at = air[k].at /\ b.n = air[k].n /\ b.state = state
    BY <2>1 DEF Blocks
  <2>3. air' = [air EXCEPT ![k] = b]
    BY <1>2
  <2>. HIDE DEF b
  <2>4. /\ air' \in Seq(Blocks) /\ Len(air') = Len(air)
        /\ \A i \in 1..Len(air) : air'[i] = IF i = k THEN b ELSE air[i]
    BY <1>3, <2>2, <2>3, ExceptSeq
  <2>. QED
    BY <2>2, <2>4
<1>5. CarryTypeOK'
  BY <1>1, <1>4 DEF CarryInv, CarryTypeOK
<1>6. /\ kind' = kind /\ phase' = phase /\ rest' = rest /\ (FromSftp' <=> FromSftp) /\ (Moving' <=> Moving)
  BY <1>1, FtpIs
<1>7. Reads'
  <2>1. ASSUME NEW i \in 1..Len(air')
        PROVE  /\ air'[i].state = "good" => air'[i].at + air'[i].n <= length
               /\ air'[i].at + air'[i].n = IF i = Len(air') THEN offset ELSE air'[i + 1].at
    <3>1. i \in 1..Len(air)
      BY <1>4
    <3>2. /\ air[i].state = "good" => air[i].at + air[i].n <= length
          /\ air[i].at + air[i].n = IF i = Len(air) THEN offset ELSE air[i + 1].at
      BY <3>1 DEF CarryInv, Reads
    <3>3. i # Len(air) => i + 1 \in 1..Len(air)
      BY <1>3, <3>1
    <3>. QED
      BY <1>2, <1>4, <3>1, <3>2, <3>3
  <2>2. air = <<>> <=> air' = <<>>
    BY <1>3, <1>4
  <2>3. air # <<>> => 1 \in 1..Len(air)
    BY <1>3
  <2>4. offset <= listed /\ (FromSftp => Len(arrived) = IF air = <<>> THEN offset ELSE air[1].at)
        /\ (FromSftp /\ ~ HasTransfer(rest[Carried]) => offset = listed /\ air = <<>>)
    BY DEF CarryInv, Reads
  <2>5. FromSftp => Len(arrived) = IF air' = <<>> THEN offset ELSE air'[1].at
    BY <1>4, <2>2, <2>3, <2>4
  <2>. QED
    BY <1>1, <1>6, <2>1, <2>2, <2>4, <2>5 DEF Reads
<1>8. Arrivals'
  BY <1>1 DEF CarryInv, Arrivals
<1>9. Landing'
  BY <1>1, <1>6 DEF CarryInv, Landing, Written, PacketsAreWhole
<1>10. FtpInv' /\ EndsWithClosing' /\ OwnAnswers'
  BY <1>1, FileAlone
<1>. QED
  BY <1>5, <1>7, <1>8, <1>9, <1>10 DEF CarryInv

LEMMA HandOnKeeps ==
    ASSUME CarryInv, HandOn
    PROVE  CarryInv'
<1>1. /\ Moving /\ FromSftp /\ UNCHANGED ftp /\ air # <<>> /\ air[1].state = "good"
      /\ arrived' = arrived \o Units(air[1].at, air[1].n)
      /\ air' = RemoveAt(air, 1)
      /\ listed' = listed /\ length' = length /\ takes' = takes /\ offset' = offset
      /\ pending' = pending /\ packet' = packet /\ writes' = writes /\ landing' = landing
  BY DEF HandOn, Foremost, sizes, writing
<1>2. air \in Seq(Blocks) /\ Len(air) \in Nat /\ 1 \in 1..Len(air) /\ arrived \in Seq(Nat)
      /\ offset \in Nat /\ length \in Nat
  BY <1>1 DEF CarryInv, CarryTypeOK
<1>3. air[1].at \in Nat /\ air[1].n \in Nat
  <2>1. air[1] \in Blocks
    BY <1>2, ElementOfSeq
  <2>. QED
    BY <2>1 DEF Blocks
<1>4. /\ air' \in Seq(Blocks) /\ Len(air') = Len(air) - 1
      /\ \A j \in 1..(Len(air) - 1) : air'[j] = air[j + 1]
  <2>1. /\ RemoveAt(air, 1) \in Seq(Blocks) /\ Len(RemoveAt(air, 1)) = Len(air) - 1
        /\ \A j \in 1..(Len(air) - 1) :
              RemoveAt(air, 1)[j] = IF j < 1 THEN air[j] ELSE air[j + 1]
    BY <1>2, RemoveAtProperties
  <2>. QED
    BY <1>1, <1>2, <2>1
<1>5. /\ air[1].at + air[1].n <= length
      /\ air[1].at + air[1].n = IF 1 = Len(air) THEN offset ELSE air[2].at
      /\ Len(arrived) = air[1].at /\ arrived = Units(0, air[1].at)
  <2>1. /\ air[1].at + air[1].n <= length
        /\ air[1].at + air[1].n = IF 1 = Len(air) THEN offset ELSE air[1 + 1].at
    BY <1>1, <1>2 DEF CarryInv, Reads
  <2>2. Len(arrived) = air[1].at
    BY <1>1 DEF CarryInv, Reads
  <2>. QED
    BY <2>1, <2>2 DEF CarryInv, Arrivals
<1>6. /\ arrived' = Units(0, air[1].at + air[1].n)
      /\ Len(arrived') = air[1].at + air[1].n /\ arrived' \in Seq(Nat)
  <2>1. air[1].at + air[1].n \in Nat /\ 0 \in Nat
    BY <1>3
  <2>2. arrived' = Units(0, air[1].at + air[1].n)
    BY <1>1, <1>3, <1>5, UnitsProperties
  <2>. QED
    BY <2>1, <2>2, UnitsProperties
<1>7. Arrivals'
  BY <1>1, <1>5, <1>6 DEF Arrivals
<1>8. CarryTypeOK'
  BY <1>1, <1>4, <1>6 DEF CarryInv, CarryTypeOK
<1>9. /\ kind' = kind /\ phase' = phase /\ rest' = rest /\ (FromSftp' <=> FromSftp) /\ (Moving' <=> Moving)
  BY <1>1, FtpIs
<1>10. Reads'
  <2>1. ASSUME NEW i \in 1..Len(air')
        PROVE  /\ air'[i].state = "good" => air'[i].at + air'[i].n <= length
               /\ air'[i].at + air'[i].n = IF i = Len(air') THEN offset ELSE air'[i + 1].at
    <3>1. i \in 1..(Len(air) - 1) /\ i + 1 \in 1..Len(air) /\ air'[i] = air[i + 1]
      BY <1>2, <1>4
    <3>2. /\ air[i + 1].state = "good" => air[i + 1].at + air[i + 1].n <= length
          /\ air[i + 1].at + air[i + 1].n = IF i + 1 = Len(air) THEN offset ELSE air[(i + 1) + 1].at
      BY <3>1 DEF CarryInv, Reads
    <3>3. i # Len(air') => i + 1 \in 1..(Len(air) - 1) /\ air'[i + 1] = air[(i + 1) + 1]
      BY <1>2, <1>4, <3>1
    <3>4. i = Len(air') <=> i + 1 = Len(air)
      BY <1>2, <1>4
    <3>. QED
      BY <3>1, <3>2, <3>3, <3>4
  <2>2. Len(arrived') = IF air' = <<>> THEN offset ELSE air'[1].at
    <3>1. CASE Len(air) = 1
      <4>1. air' = <<>>
        BY <1>4, <3>1
      <4>. QED
        BY <1>5, <1>6, <3>1, <4>1
    <3>2. CASE Len(air) # 1
      <4>1. 1 \in 1..(Len(air) - 1) /\ air' # <<>>
        BY <1>2, <1>4, <3>2
      <4>2. air'[1] = air[2]
        BY <1>4, <4>1
      <4>. QED
        BY <1>5, <1>6, <3>2, <4>1, <4>2
    <3>. QED
      BY <3>1, <3>2
  <2>3. HasTransfer(rest[Carried])'
    <3>1. rest[Carried] \in Seq(Moves)
      BY CarryAssumption DEF CarryInv, FtpInv, FtpTypeOK
    <3>2. 1 \in 1..Len(rest[Carried]) /\ rest[Carried][1] = "transfer"
      BY <1>1, <3>1 DEF Moving, Doing
    <3>. QED
      BY <1>9, <3>2 DEF HasTransfer
  <2>4. offset <= listed
    BY DEF CarryInv, Reads
  <2>. QED
    BY <1>1, <2>1, <2>2, <2>3, <2>4 DEF Reads
<1>11. Landing'
  BY <1>1, <1>9 DEF CarryInv, Landing, Written, PacketsAreWhole
<1>12. FtpInv' /\ EndsWithClosing' /\ OwnAnswers'
  BY <1>1, FileAlone
<1>. QED
  BY <1>7, <1>8, <1>10, <1>11, <1>12 DEF CarryInv

LEMMA Regrouped ==
    ASSUME NEW T, NEW u \in Seq(T), NEW v \in Seq(T), NEW w \in Seq(T)
    PROVE  (u \o v) \o w = u \o (v \o w)
BY ConcatAssociative

LEMMA ChunkKeeps ==
    ASSUME CarryInv, Chunk
    PROVE  CarryInv'
<1>1. /\ Moving /\ ~ FromSftp /\ landing = "open" /\ landing' = "packing" /\ UNCHANGED ftp
      /\ listed' = listed /\ length' = length /\ takes' = takes /\ offset' = offset /\ air' = air
      /\ packet' = packet /\ writes' = writes
  BY DEF Chunk, sizes, reading
<1>2. PICK n \in 1..Smaller(READ_CHUNK, length - Len(arrived)) :
          /\ arrived' = arrived \o Units(Len(arrived), n)
          /\ pending' = pending \o Units(Len(arrived), n)
  BY DEF Chunk
<1>3. /\ arrived \in Seq(Nat) /\ pending \in Seq(Nat) /\ Len(arrived) \in Nat /\ length \in Nat
      /\ writes \in Seq(Seq(Nat))
      /\ arrived = Units(0, Len(arrived)) /\ Len(arrived) <= length
  BY DEF CarryInv, CarryTypeOK, Arrivals
<1>4. n \in Nat /\ Len(arrived) + n <= length
  BY <1>3, CarryAssumption DEF Smaller
<1>. DEFINE more == Units(Len(arrived), n)
<1>5. more \in Seq(Nat) /\ Units(0, Len(arrived)) \o more = Units(0, Len(arrived) + n)
  BY <1>3, <1>4, UnitsProperties
<1>6. /\ arrived' \in Seq(Nat) /\ arrived' = Units(0, Len(arrived) + n)
      /\ Len(arrived') = Len(arrived) + n
  <2>1. Len(arrived) + n \in Nat /\ 0 \in Nat
    BY <1>3, <1>4
  <2>2. arrived' = Units(0, Len(arrived) + n)
    BY <1>2, <1>3, <1>5
  <2>. QED
    BY <2>1, <2>2, UnitsProperties
<1>7. pending' \in Seq(Nat)
  BY <1>2, <1>3, <1>5
<1>8. Arrivals'
  BY <1>1, <1>4, <1>6 DEF Arrivals
<1>9. CarryTypeOK'
  BY <1>1, <1>6, <1>7 DEF CarryInv, CarryTypeOK
<1>10. /\ kind' = kind /\ phase' = phase /\ rest' = rest /\ (FromSftp' <=> FromSftp) /\ (Moving' <=> Moving)
  BY <1>1, FtpIs
<1>11. Reads'
  BY <1>1, <1>10 DEF CarryInv, Reads
<1>12. Landing'
  <2>. HIDE DEF more
  <2>1. Written' \o pending' = arrived'
    <3>1. Written \in Seq(Nat) /\ Written' = Written
      BY <1>1, <1>3, FlattenSeqType DEF Written
    <3>2. Written \o pending = arrived
      BY <1>1 DEF CarryInv, Landing
    <3>3. pending \in Seq(Nat) /\ more \in Seq(Nat) /\ Written \in Seq(Nat)
      BY <1>3, <1>5, <3>1
    <3>4. (Written \o pending) \o more = Written \o (pending \o more)
      BY <3>3, Regrouped
    <3>. QED
      BY <1>2, <3>1, <3>2, <3>4 DEF more
  <2>. QED
    BY <1>1, <1>10, <2>1 DEF CarryInv, Landing, PacketsAreWhole
<1>13. FtpInv' /\ EndsWithClosing' /\ OwnAnswers'
  BY <1>1, FileAlone
<1>. QED
  BY <1>8, <1>9, <1>11, <1>12, <1>13 DEF CarryInv

(* A write of as much as the server takes. *)
LEMMA WriteKeeps ==
    ASSUME CarryInv, landing = "packing", UNCHANGED <<ftp, sizes, reading, arrived, landing>>,
           takes <= Len(pending), packet' = takes, Write(takes)
    PROVE  CarryInv'
<1>1. /\ listed' = listed /\ length' = length /\ takes' = takes /\ offset' = offset /\ air' = air
      /\ arrived' = arrived /\ landing' = landing /\ landing = "packing"
  BY DEF sizes, reading
<1>2. /\ takes \in Nat /\ pending \in Seq(Nat) /\ Len(pending) \in Nat /\ writes \in Seq(Seq(Nat))
  BY DEF CarryInv, CarryTypeOK
<1>. DEFINE first == SubSeq(pending, 1, takes)
            others == SubSeq(pending, takes + 1, Len(pending))
<1>3. writes' = Append(writes, first) /\ pending' = others
  BY DEF Write
<1>4. first \in Seq(Nat) /\ Len(first) = takes
  <2>1. \A i \in 1..takes : pending[i] \in Nat
    BY <1>2
  <2>2. /\ first \in Seq(Nat)
        /\ Len(first) = IF 1 <= takes THEN takes - 1 + 1 ELSE 0
    BY <1>2, <2>1, SubSeqProperties
  <2>. QED
    BY <1>2, <2>2
<1>5. others \in Seq(Nat)
  <2>1. \A i \in (takes + 1)..Len(pending) : pending[i] \in Nat
    BY <1>2
  <2>. QED
    BY <1>2, <2>1, SubSeqProperties
<1>6. first \o others = pending
  <2>1. /\ 1 \in 1..(Len(pending) + 1) /\ takes \in (1 - 1)..Len(pending)
        /\ Len(pending) \in takes..Len(pending)
    BY <1>2
  <2>2. SubSeq(pending, 1, takes) \o SubSeq(pending, takes + 1, Len(pending))
           = SubSeq(pending, 1, Len(pending))
    BY <1>2, <2>1, ConcatAdjacentSubSeq
  <2>3. SubSeq(pending, 1, Len(pending)) = pending
    BY <1>2, SubSeqFull
  <2>. QED
    BY <2>2, <2>3
<1>. HIDE DEF first, others
<1>7. /\ writes' \in Seq(Seq(Nat)) /\ Len(writes) \in Nat /\ Len(writes') = Len(writes) + 1
      /\ \A i \in 1..Len(writes) : writes'[i] = writes[i]
      /\ writes'[Len(writes) + 1] = first
  BY <1>2, <1>3, <1>4, AppendProperties
<1>8. CarryTypeOK'
  BY <1>1, <1>2, <1>3, <1>5, <1>7 DEF CarryInv, CarryTypeOK
<1>9. Reads' /\ Arrivals'
  <2>1. rest' = rest /\ (FromSftp' <=> FromSftp)
    BY FtpIs
  <2>. QED
    BY <1>1, <2>1 DEF CarryInv, Reads, Arrivals
<1>10. Landing'
  <2>1. /\ (FromSftp' <=> FromSftp) /\ (Moving' <=> Moving) /\ ~ FromSftp /\ Moving
    BY <1>1, FtpIs DEF CarryInv, Landing
  <2>2. Written' \o pending' = arrived'
    <3>1. Written \in Seq(Nat) /\ Written' = Written \o first
      BY <1>2, <1>3, <1>4, FlattenSeqType, FlattenSeqAppend DEF Written
    <3>2. Written \in Seq(Nat) /\ first \in Seq(Nat) /\ others \in Seq(Nat)
      BY <1>4, <1>5, <3>1
    <3>3. (Written \o first) \o others = Written \o (first \o others)
      BY <3>2, Regrouped
    <3>4. Written \o pending = arrived
      BY <2>1 DEF CarryInv, Landing
    <3>. QED
      BY <1>1, <1>3, <1>6, <3>1, <3>3, <3>4
  <2>3. \A i \in 1..Len(writes') : Len(writes'[i]) = takes
    <3>1. \A i \in 1..Len(writes) : Len(writes[i]) = takes
      BY <1>1 DEF CarryInv, Landing
    <3>2. \A i \in 1..Len(writes') : i \in 1..Len(writes) \/ i = Len(writes) + 1
      BY <1>7
    <3>. QED
      BY <1>4, <1>7, <3>1, <3>2
  <2>4. PacketsAreWhole'
    <3>1. \A i \in 1..(Len(writes') - 1) : i \in 1..Len(writes')
      BY <1>7
    <3>. QED
      BY <1>1, <2>3, <3>1 DEF PacketsAreWhole
  <2>. QED
    BY <1>1, <2>1, <2>2, <2>3, <2>4 DEF Landing
<1>11. FtpInv' /\ EndsWithClosing' /\ OwnAnswers'
  BY <1>1, FileAlone
<1>. QED
  BY <1>8, <1>9, <1>10, <1>11 DEF CarryInv

LEMMA PacketKeeps ==
    ASSUME CarryInv, FirstPacket \/ WholePacket
    PROVE  CarryInv'
<1>1. /\ takes \in Nat /\ takes <= MAX_PACKET /\ Len(pending) \in Nat
      /\ packet # Unknown => packet = takes
  BY DEF CarryInv, CarryTypeOK, Landing
<1>2. CASE FirstPacket
  <2>1. packet' = Smaller(takes, Len(pending)) /\ Len(pending) >= MAX_PACKET
    BY <1>2 DEF FirstPacket, LargerThanAny
  <2>2. packet' = takes /\ takes <= Len(pending)
    BY <1>1, <2>1, CarryAssumption DEF Smaller
  <2>3. Write(takes)
    BY <1>2, <2>2 DEF FirstPacket, Write
  <2>. QED
    BY <1>2, <2>2, <2>3, WriteKeeps DEF FirstPacket
<1>3. CASE WholePacket
  <2>1. packet' = takes /\ takes <= Len(pending) /\ Write(takes)
    BY <1>1, <1>3 DEF WholePacket
  <2>. QED
    BY <1>3, <2>1, WriteKeeps DEF WholePacket
<1>. QED
  BY <1>2, <1>3

(* Asking for the next chunk, and the end of the source. *)
LEMMA LandingStepKeeps ==
    ASSUME CarryInv, Packed \/ SourceEnded
    PROVE  CarryInv'
<1>1. /\ listed' = listed /\ length' = length /\ takes' = takes /\ offset' = offset /\ air' = air
      /\ arrived' = arrived /\ pending' = pending /\ packet' = packet /\ writes' = writes
      /\ UNCHANGED ftp
  BY DEF Packed, SourceEnded, sizes, reading
<1>2. /\ rest' = rest /\ phase' = phase /\ (FromSftp' <=> FromSftp) /\ (Moving' <=> Moving)
  BY <1>1, FtpIs
<1>3. /\ landing' \in {"open", "ending", "failed"} /\ landing # "done"
      /\ landing' = "ending" => phase[Carried] = "done" /\ ~ FromSftp
  BY DEF Packed, SourceEnded
<1>4. CarryTypeOK' /\ Reads' /\ Arrivals'
  BY <1>1, <1>2, <1>3 DEF CarryInv, CarryTypeOK, Reads, Arrivals
<1>5. Landing'
  BY <1>1, <1>2, <1>3 DEF CarryInv, Landing, Written, PacketsAreWhole
<1>6. FtpInv' /\ EndsWithClosing' /\ OwnAnswers'
  BY <1>1, FileAlone
<1>. QED
  BY <1>4, <1>5, <1>6 DEF CarryInv

LEMMA LeftoverKeeps ==
    ASSUME CarryInv, Leftover
    PROVE  CarryInv'
<1>1. /\ listed' = listed /\ length' = length /\ takes' = takes /\ offset' = offset /\ air' = air
      /\ arrived' = arrived /\ packet' = packet /\ UNCHANGED ftp
      /\ landing = "ending" /\ landing' = "done" /\ pending' = <<>>
      /\ writes' = IF pending = <<>> THEN writes ELSE Append(writes, pending)
  BY DEF Leftover, sizes, reading
<1>2. /\ rest' = rest /\ phase' = phase /\ (FromSftp' <=> FromSftp)
      /\ ~ FromSftp /\ phase[Carried] = "done"
  BY <1>1, FtpIs DEF CarryInv, Landing
<1>3. pending \in Seq(Nat) /\ writes \in Seq(Seq(Nat)) /\ Len(writes) \in Nat
  BY DEF CarryInv, CarryTypeOK
<1>4. /\ Append(writes, pending) \in Seq(Seq(Nat))
      /\ Len(Append(writes, pending)) = Len(writes) + 1
      /\ \A i \in 1..Len(writes) : Append(writes, pending)[i] = writes[i]
  BY <1>3, AppendProperties
<1>5. CarryTypeOK' /\ Reads' /\ Arrivals'
  BY <1>1, <1>2, <1>3, <1>4 DEF CarryInv, CarryTypeOK, Reads, Arrivals
<1>6. Written' \o pending' = arrived'
  <2>1. Written \in Seq(Nat) /\ Written \o pending = arrived
    BY <1>2, <1>3, FlattenSeqType DEF CarryInv, Landing, Written
  <2>2. CASE pending = <<>>
    BY <1>1, <2>1, <2>2 DEF Written
  <2>3. CASE pending # <<>>
    <3>1. Written' = Written \o pending
      BY <1>1, <1>3, <2>3, FlattenSeqAppend DEF Written
    <3>2. Written \o pending \in Seq(Nat)
      BY <1>3, <2>1, ConcatProperties
    <3>. QED
      BY <1>1, <2>1, <3>1, <3>2, ConcatEmptySeq
  <2>. QED
    BY <2>2, <2>3
<1>7. PacketsAreWhole'
  <2>1. \A i \in 1..Len(writes) : Len(writes[i]) = takes
    BY <1>1 DEF CarryInv, Landing
  <2>2. CASE pending = <<>>
    BY <1>1, <1>3, <2>1, <2>2 DEF PacketsAreWhole
  <2>3. CASE pending # <<>>
    <3>1. writes' = Append(writes, pending)
      BY <1>1, <2>3
    <3>2. Len(writes') - 1 = Len(writes)
      BY <1>3, <1>4, <3>1
    <3>. QED
      BY <1>1, <1>4, <2>1, <3>1, <3>2 DEF PacketsAreWhole
  <2>. QED
    BY <2>2, <2>3
<1>8. Landing'
  BY <1>1, <1>2, <1>6, <1>7 DEF CarryInv, Landing
<1>9. FtpInv' /\ EndsWithClosing' /\ OwnAnswers'
  BY <1>1, FileAlone
<1>. QED
  BY <1>5, <1>8, <1>9 DEF CarryInv

-----------------------------------------------------------------------------
(* All of it together. *)

LEMMA CarryingKeeps ==
    ASSUME CarryInv, FtpInv', Carrying
    PROVE  CarryInv'
<1>1. ASSUME ReadFails
      PROVE  CarryInv'
  <2>1. /\ BreakOff(Carried) /\ NothingCarried /\ landing' = landing /\ FromSftp
    BY <1>1 DEF ReadFails, NothingCarried, writing
  <2>2. Moving /\ landing \in {"open", "failed"}
    BY <1>1, <2>1 DEF ReadFails, CarryInv, CarryTypeOK, Landing
  <2>. QED
    BY <2>1, <2>2, OwnStop, QuietKeeps DEF CarryInv
<1>2. ASSUME BodyEnds
      PROVE  CarryInv'
  <2>1. landing \in {"open", "failed"}
    BY <1>2 DEF BodyEnds, CarryInv, CarryTypeOK, Landing
  <2>. QED
    BY <1>2, <2>1, TransferredKeepsFile DEF BodyEnds, Untouched
<1>3. ASSUME DownloadEnds
      PROVE  CarryInv'
  BY <1>3, TransferredKeepsFile DEF DownloadEnds, Untouched
<1>4. ASSUME DownloadBreaks
      PROVE  CarryInv'
  <2>1. BreakOff(Carried) /\ NothingCarried /\ landing' = "failed" /\ landing # "done"
    BY <1>4 DEF DownloadBreaks, NothingCarried
  <2>. QED
    BY <2>1, OwnStop, QuietKeeps DEF CarryInv
<1>5. ASSUME WriteFails
      PROVE  CarryInv'
  <2>1. NothingCarried /\ landing' = "failed" /\ landing # "done"
    BY <1>5 DEF WriteFails, NothingCarried
  <2>2. CASE BreakOff(Carried)
    BY <2>1, <2>2, OwnStop, QuietKeeps DEF CarryInv
  <2>3. CASE UNCHANGED ftp
    <3>1. StillSame
      BY <2>3, FtpIs, MovedUpSame DEF StillSame, CarryInv, FtpInv, FtpTypeOK
    <3>. QED
      BY <2>1, <3>1, QuietKeeps
  <2>. QED
    BY <1>5, <2>2, <2>3 DEF WriteFails
<1>. QED
  BY <1>1, <1>2, <1>3, <1>4, <1>5, AskAheadKeeps, SftpAnswersKeeps, HandOnKeeps, ChunkKeeps,
     PacketKeeps, LandingStepKeeps, LeftoverKeeps DEF Carrying

LEMMA LetGoKeeps ==
    ASSUME CarryInv, FtpInv', NEW o \in Ops, LetGo(o)
    PROVE  CarryInv'
<1>1. NothingCarried /\ landing' = IF o = Carried THEN "failed" ELSE landing
  BY DEF LetGo, NothingCarried
<1>2. CASE o # Carried
  <2>1. Drop(o)
    BY <1>2 DEF LetGo
  <2>2. StillSame
    BY <1>2, <2>1, OthersSteps DEF CarryInv, FtpStep
  <2>. QED
    BY <1>1, <1>2, <2>2, QuietKeeps
<1>3. CASE o = Carried /\ landing \in {"ending", "open"} /\ phase[o] = "done"
  <2>1. UNCHANGED ftp
    BY <1>3 DEF LetGo
  <2>2. StillSame
    BY <2>1, FtpIs, MovedUpSame DEF StillSame, CarryInv, FtpInv, FtpTypeOK
  <2>. QED
    BY <1>1, <1>3, <2>2, QuietKeeps
<1>4. CASE o = Carried /\ ~ (landing \in {"ending", "open"} /\ phase[o] = "done")
  <2>1. Drop(Carried)
    BY <1>4 DEF LetGo
  <2>2. Stops /\ phase[Carried] # "done"
    BY <2>1, OwnStop DEF CarryInv
  <2>3. landing # "done"
    BY <2>2 DEF CarryInv, Landing
  <2>. QED
    BY <1>1, <1>4, <2>2, <2>3, QuietKeeps
<1>. QED
  BY <1>2, <1>3, <1>4

LEMMA CarryStep == CarryInv /\ [Next]_vars => CarryInv'
<1>. SUFFICES ASSUME CarryInv, [Next]_vars PROVE CarryInv'
  OBVIOUS
<1>1. FtpInv'
  BY StepsOfTheConnection, FtpStepKeeps, FtpStays DEF CarryInv
<1>2. ASSUME NEW o \in Ops, Begin(o) \/ Talk(o), Untouched
      PROVE  CarryInv'
  <2>1. CASE o = Carried
    BY <1>1, <1>2, <2>1, OwnTalkKeeps
  <2>2. CASE o # Carried
    <3>1. (o = Carried => AllSent) \in BOOLEAN
      OBVIOUS
    <3>2. FtpStep(o)
      BY <1>2, <3>1 DEF Talk, FtpStep
    <3>3. StillSame
      BY <2>2, <3>2, OthersSteps DEF CarryInv
    <3>4. NothingCarried /\ landing' = landing
      BY <1>2 DEF Untouched, NothingCarried, writing
    <3>. QED
      BY <1>1, <3>3, <3>4, QuietKeeps
  <2>. QED
    BY <2>1, <2>2
<1>3. ASSUME UNCHANGED vars
      PROVE  CarryInv'
  <2>1. UNCHANGED ftp /\ NothingCarried /\ landing' = landing
    BY <1>3 DEF vars, NothingCarried, writing
  <2>2. StillSame
    BY <2>1, FtpIs, MovedUpSame DEF StillSame, CarryInv, FtpInv, FtpTypeOK
  <2>. QED
    BY <1>1, <2>1, <2>2, QuietKeeps
<1>. QED
  BY <1>1, <1>2, <1>3, LetGoKeeps, CarryingKeeps DEF Next

(* The invariant of a file that is carried, whatever its length, whatever  *)
(* the listing said of it, and whatever the sizes of blocks and packets.   *)
THEOREM CarryAlwaysInv == Spec => []CarryInv
<1>1. Init => CarryInv
  BY CarryStarts
<1>. QED
  BY <1>1, CarryStep, PTL DEF Spec

LEMMA InvIsWhole == CarryInv => CarriedWhole
<1>. SUFFICES ASSUME CarryInv PROVE CarriedWhole
  OBVIOUS
<1>1. ASSUME FromSftp, phase[Carried] = "done"
      PROVE  listed <= length /\ arrived = Units(0, listed)
  <2>1. rest[Carried] = <<>>
    BY <1>1, CarryAssumption DEF CarryInv, FtpInv, Courses, Fits
  <2>2. ~ HasTransfer(rest[Carried])
    BY <2>1 DEF HasTransfer
  <2>3. offset = listed /\ air = <<>> /\ Len(arrived) = offset
    BY <1>1, <2>2 DEF CarryInv, Reads
  <2>. QED
    BY <2>3 DEF CarryInv, Arrivals
<1>2. ASSUME landing = "done", Carried \notin misled
      PROVE  Written = Units(0, length)
  <2>1. ~ FromSftp /\ phase[Carried] = "done" /\ pending = <<>> /\ Written \o pending = arrived
    BY <1>2 DEF CarryInv, Landing
  <2>2. Written \in Seq(Nat)
    BY FlattenSeqType DEF CarryInv, CarryTypeOK, Written
  <2>3. Written = arrived
    BY <2>1, <2>2, ConcatEmptySeq
  <2>4. Len(arrived) = length
    BY <1>2, <2>1 DEF CarryInv, OwnAnswers, AllSent
  <2>. QED
    BY <2>3, <2>4 DEF CarryInv, Arrivals
<1>. QED
  BY <1>1, <1>2 DEF CarriedWhole

(* What carry of engine.rs calls done is the file, whole and in order, as  *)
(* long as its task read its own answers, and no further than the listing  *)
(* said.                                                                   *)
THEOREM AlwaysCarriedWhole == Spec => []CarriedWhole
<1>. QED
  BY CarryAlwaysInv, InvIsWhole, PTL

LEMMA InvIsPackets == CarryInv => PacketsAreWhole
BY DEF CarryInv, Landing

(* in_whole_packets writes no scraps before the end.                       *)
THEOREM PacketsAreAlwaysWhole == Spec => []PacketsAreWhole
<1>. QED
  BY CarryAlwaysInv, InvIsPackets, PTL

=============================================================================
