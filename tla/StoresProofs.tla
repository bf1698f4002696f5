---------------------------- MODULE StoresProofs ----------------------------
(***************************************************************************)
(* What Stores keeps for any keys, any operations, any number of them at   *)
(* once and any sizes of pages and batches.                                *)
(***************************************************************************)
EXTENDS Stores, FiniteSetTheorems, SequenceTheorems, NaturalsInduction, TLAPS

-----------------------------------------------------------------------------
(* Paths. *)

Letters == UNION {Range(k.path) : k \in Keys}

LEMMA PathsOfKeys ==
    /\ \A k \in Keys : /\ k.path \in Seq(Letters) /\ k.path # <<>>
                       /\ k = File(k.path) \/ k = Folder(k.path)
    /\ \A p \in Paths : p \in Seq(Letters) /\ p # <<>>
<1>1. ASSUME NEW k \in Keys
      PROVE  k.path \in Seq(Letters)
  <2>1. Range(k.path) \subseteq Letters
    BY DEF Letters
  <2>2. k.path \in Seq(Range(k.path))
    BY TreeAssumption
  <2> QED BY <2>1, <2>2, SeqMonotonic
<1> QED BY <1>1, TreeAssumption DEF Paths

LEMMA KeysApart ==
    ASSUME NEW p, NEW q
    PROVE  /\ File(p).path = p /\ Folder(p).path = p
           /\ ~File(p).folder /\ Folder(p).folder
           /\ File(p) # Folder(q)
           /\ File(p) = File(q) => p = q
           /\ Folder(p) = Folder(q) => p = q
<1>1. File(p).path = p /\ Folder(p).path = p /\ ~File(p).folder /\ Folder(p).folder
  BY DEF File, Folder
<1>2. File(q).path = q /\ Folder(q).path = q /\ ~File(q).folder /\ Folder(q).folder
  BY DEF File, Folder
<1> QED BY <1>1, <1>2

LEMMA PrefixIs ==
    ASSUME NEW S, NEW p \in Seq(S), NEW q \in Seq(S)
    PROVE  IsPrefix(p, q) <=> Len(p) <= Len(q) /\ \A i \in 1 .. Len(p) : p[i] = q[i]
<1>1. Len(p) \in Nat /\ Len(q) \in Nat
  BY LenProperties
<1>2. ASSUME Len(p) <= Len(q)
      PROVE  SubSeq(p, 1, Len(p)) = SubSeq(q, 1, Len(p)) <=> \A i \in 1 .. Len(p) : p[i] = q[i]
  <2>1. \A i \in 1 .. Len(p) : p[i] \in S /\ q[i] \in S
    <3> SUFFICES ASSUME NEW i \in 1 .. Len(p) PROVE p[i] \in S /\ q[i] \in S
      OBVIOUS
    <3>1. i \in 1 .. Len(q)
      BY <1>1, <1>2
    <3> QED BY <3>1, ElementOfSeq
  <2>2. /\ SubSeq(p, 1, Len(p)) \in Seq(S) /\ Len(SubSeq(p, 1, Len(p))) = Len(p)
        /\ \A i \in 1 .. Len(p) : SubSeq(p, 1, Len(p))[i] = p[i]
    BY <1>1, <2>1, SubSeqProperties
  <2>3. /\ SubSeq(q, 1, Len(p)) \in Seq(S) /\ Len(SubSeq(q, 1, Len(p))) = Len(p)
        /\ \A i \in 1 .. Len(p) : SubSeq(q, 1, Len(p))[i] = q[i]
    BY <1>1, <2>1, SubSeqProperties
  <2>4. ASSUME \A i \in 1 .. Len(p) : p[i] = q[i]
        PROVE  SubSeq(p, 1, Len(p)) = SubSeq(q, 1, Len(p))
    BY <2>2, <2>3, <2>4, SeqEqual
  <2>5. ASSUME SubSeq(p, 1, Len(p)) = SubSeq(q, 1, Len(p))
        PROVE  \A i \in 1 .. Len(p) : p[i] = q[i]
    BY <2>2, <2>3, <2>5
  <2> QED BY <2>4, <2>5
<1> QED BY <1>1, <1>2 DEF IsPrefix

(* What is seen from another folder. *)
Rebased(k, p, q) ==
    /\ Rebase(k, p, q) = IF k.folder THEN Folder(Rebase(k, p, q).path)
                                     ELSE File(Rebase(k, p, q).path)
    /\ Rebase(k, p, q).folder = k.folder
    /\ Len(Rebase(k, p, q).path) = Len(q) + (Len(k.path) - Len(p))
    /\ \A i \in 1 .. Len(q) : Rebase(k, p, q).path[i] = q[i]
    /\ \A i \in 1 .. Len(k.path) - Len(p) :
          Rebase(k, p, q).path[Len(q) + i] = k.path[Len(p) + i]

LEMMA RebaseIs ==
    ASSUME NEW S, NEW p \in Seq(S), NEW q \in Seq(S), NEW k, k.path \in Seq(S),
           k = File(k.path) \/ k = Folder(k.path), IsPrefix(p, k.path)
    PROVE  Rebased(k, p, q) /\ Rebase(k, p, q).path \in Seq(S)
<1> DEFINE rest == SubSeq(k.path, Len(p) + 1, Len(k.path))
           path == q \o rest
<1>1. Len(p) \in Nat /\ Len(q) \in Nat /\ Len(k.path) \in Nat /\ Len(p) <= Len(k.path)
  BY LenProperties, PrefixIs
<1>2. /\ rest \in Seq(S) /\ Len(rest) = Len(k.path) - Len(p)
      /\ \A i \in 1 .. Len(k.path) - Len(p) : rest[i] = k.path[Len(p) + i]
  <2>1. \A i \in Len(p) + 1 .. Len(k.path) : k.path[i] \in S
    <3> SUFFICES ASSUME NEW i \in Len(p) + 1 .. Len(k.path) PROVE k.path[i] \in S
      OBVIOUS
    <3>1. i \in 1 .. Len(k.path)
      BY <1>1
    <3> QED BY <3>1, ElementOfSeq
  <2>2. Len(p) + 1 \in Int /\ Len(k.path) \in Int
    BY <1>1
  <2>3. /\ rest \in Seq(S)
        /\ Len(rest) = IF Len(p) + 1 <= Len(k.path) THEN Len(k.path) - (Len(p) + 1) + 1 ELSE 0
        /\ \A i \in 1 .. Len(k.path) - (Len(p) + 1) + 1 : rest[i] = k.path[Len(p) + 1 + i - 1]
    BY <2>1, <2>2, SubSeqProperties
  <2> HIDE DEF rest
  <2>4. Len(rest) = Len(k.path) - Len(p)
    BY <1>1, <2>3
  <2>5. ASSUME NEW i \in 1 .. Len(k.path) - Len(p)
        PROVE  rest[i] = k.path[Len(p) + i]
    <3>1. i \in 1 .. Len(k.path) - (Len(p) + 1) + 1 /\ Len(p) + 1 + i - 1 = Len(p) + i
      BY <1>1
    <3> QED BY <3>1, <2>3
  <2> QED BY <2>3, <2>4, <2>5
<1>3. Rebase(k, p, q) = [k EXCEPT !.path = path]
  BY DEF Rebase
<1>4. k = [path |-> k.path, folder |-> k.folder]
  BY DEF File, Folder
<1> HIDE DEF rest
<1>5. /\ path \in Seq(S) /\ Len(path) = Len(q) + Len(rest)
      /\ \A i \in 1 .. Len(q) + Len(rest) :
            path[i] = IF i <= Len(q) THEN q[i] ELSE rest[i - Len(q)]
  BY <1>2, ConcatProperties
<1> HIDE DEF path
<1>6. Rebase(k, p, q) = [path |-> path, folder |-> k.folder]
  BY <1>3, <1>4
<1>7. Rebase(k, p, q).path = path /\ Rebase(k, p, q).folder = k.folder
  BY <1>6
<1>8. (k.folder = FALSE /\ k = File(k.path)) \/ (k.folder = TRUE /\ k = Folder(k.path))
  BY KeysApart
<1>9. Rebase(k, p, q) = IF k.folder THEN Folder(path) ELSE File(path)
  <2>1. CASE k.folder = FALSE
    BY <2>1, <1>6 DEF File
  <2>2. CASE k.folder = TRUE
    BY <2>2, <1>6 DEF Folder
  <2> QED BY <2>1, <2>2, <1>8
<1>10. \A i \in 1 .. Len(q) : path[i] = q[i]
  BY <1>1, <1>2, <1>5
<1>11. ASSUME NEW i \in 1 .. Len(k.path) - Len(p)
       PROVE  path[Len(q) + i] = k.path[Len(p) + i]
  <2>1. Len(q) + i \in 1 .. Len(q) + Len(rest) /\ ~(Len(q) + i <= Len(q)) /\ (Len(q) + i) - Len(q) = i
    BY <1>1, <1>2
  <2>2. path[Len(q) + i] = rest[i]
    BY <2>1, <1>5
  <2> QED BY <2>2, <1>2
<1> QED BY <1>1, <1>2, <1>5, <1>7, <1>9, <1>10, <1>11 DEF Rebased

LEMMA RebaseTellsApart ==
    ASSUME NEW p \in Seq(Letters), NEW q \in Seq(Letters), NEW j \in Keys, NEW k \in Keys,
           IsPrefix(p, j.path), IsPrefix(p, k.path), Rebase(j, p, q) = Rebase(k, p, q)
    PROVE  j = k
<1>1. /\ j.path \in Seq(Letters) /\ k.path \in Seq(Letters)
      /\ j = File(j.path) \/ j = Folder(j.path)
      /\ k = File(k.path) \/ k = Folder(k.path)
  BY PathsOfKeys
<1>2. Rebased(j, p, q)
  BY <1>1, RebaseIs
<1>3. Rebased(k, p, q)
  BY <1>1, RebaseIs
<1>4. Len(p) \in Nat /\ Len(q) \in Nat /\ Len(k.path) \in Nat /\ Len(j.path) \in Nat
  BY <1>1, LenProperties
<1>5. Len(j.path) = Len(k.path) /\ j.folder = k.folder
  BY <1>2, <1>3, <1>4 DEF Rebased
<1>6. ASSUME NEW i \in 1 .. Len(j.path)
      PROVE  j.path[i] = k.path[i]
  <2>1. CASE i <= Len(p)
    <3>1. i \in 1 .. Len(p)
      BY <2>1, <1>4
    <3> QED BY <3>1, <1>1, PrefixIs
  <2>2. CASE i > Len(p)
    <3>1. i - Len(p) \in 1 .. Len(j.path) - Len(p) /\ Len(p) + (i - Len(p)) = i
      BY <2>2, <1>4
    <3>2. j.path[Len(p) + (i - Len(p))] = k.path[Len(p) + (i - Len(p))]
      BY <3>1, <1>2, <1>3, <1>5 DEF Rebased
    <3> QED BY <3>1, <3>2
  <2> QED BY <2>1, <2>2, <1>4
<1>7. j.path = k.path
  BY <1>1, <1>5, <1>6, SeqEqual
<1> QED BY <1>1, <1>5, <1>7 DEF File, Folder

-----------------------------------------------------------------------------
(* Trees: what is there lies in a folder that is there. *)

LEMMA LeastOfNumbers ==
    ASSUME NEW K \in SUBSET Nat, K # {}
    PROVE  \E k \in K : \A j \in K : k <= j
<1>1. \E k \in K : \A j \in K : ~ (<<j, k>> \in OpToRel(<, Nat))
  BY WFMin, NatLessThanWellFounded
<1>2. \A j, k \in Nat : <<j, k>> \in OpToRel(<, Nat) <=> j < k
  BY DEF OpToRel
<1>3. PICK k \in K : \A j \in K : ~ (j < k)
  BY <1>1, <1>2
<1>4. \A j \in K : k <= j
  BY <1>3
<1> QED BY <1>4

Cut(s, n) == SubSeq(s, 1, n)

LEMMA CutIs ==
    ASSUME NEW S, NEW s \in Seq(S), NEW n \in 0 .. Len(s)
    PROVE  /\ Cut(s, n) \in Seq(S) /\ Len(Cut(s, n)) = n
           /\ \A i \in 1 .. n : Cut(s, n)[i] = s[i]
           /\ IsPrefix(Cut(s, n), s)
           /\ n > 0 => Cut(s, n) # <<>> /\ Front(Cut(s, n)) = Cut(s, n - 1)
           /\ n = 0 => Cut(s, n) = <<>>
<1>1. Len(s) \in Nat /\ n \in Nat
  BY LenProperties
<1>2. ASSUME NEW m \in 0 .. Len(s)
      PROVE  /\ Cut(s, m) \in Seq(S) /\ Len(Cut(s, m)) = m
             /\ \A i \in 1 .. m : Cut(s, m)[i] = s[i]
  <2>1. \A i \in 1 .. m : s[i] \in S
    BY <1>1, ElementOfSeq
  <2>2. m \in Int /\ (IF 1 <= m THEN m - 1 + 1 ELSE 0) = m /\ \A i \in 1 .. m : i \in 1 .. m - 1 + 1 /\ 1 + i - 1 = i
    BY <1>1
  <2>3. /\ Cut(s, m) \in Seq(S)
        /\ Len(Cut(s, m)) = IF 1 <= m THEN m - 1 + 1 ELSE 0
        /\ \A i \in 1 .. m - 1 + 1 : Cut(s, m)[i] = s[1 + i - 1]
    BY <2>1, <2>2, SubSeqProperties DEF Cut
  <2> QED BY <2>2, <2>3
<1>3. IsPrefix(Cut(s, n), s)
  BY <1>1, <1>2, PrefixIs
<1>4. ASSUME n > 0
      PROVE  Cut(s, n) # <<>> /\ Front(Cut(s, n)) = Cut(s, n - 1)
  <2>1. n - 1 \in 0 .. Len(s) /\ n - 1 \in Int
    BY <1>1, <1>4
  <2>2. Front(Cut(s, n)) = SubSeq(Cut(s, n), 1, n - 1)
    BY <1>2 DEF Front
  <2>3. \A i \in 1 .. n - 1 : Cut(s, n)[i] \in S /\ i \in 1 .. n
    <3>1. \A i \in 1 .. n - 1 : i \in 1 .. n
      BY <1>1
    <3> QED BY <3>1, <1>2, ElementOfSeq
  <2>4. /\ Front(Cut(s, n)) \in Seq(S)
        /\ Len(Front(Cut(s, n))) = IF 1 <= n - 1 THEN n - 1 - 1 + 1 ELSE 0
        /\ \A i \in 1 .. n - 1 - 1 + 1 : Front(Cut(s, n))[i] = Cut(s, n)[1 + i - 1]
    BY <2>1, <2>2, <2>3, SubSeqProperties
  <2>5. Len(Front(Cut(s, n))) = n - 1
    BY <1>1, <1>4, <2>4
  <2>6. ASSUME NEW i \in 1 .. n - 1
        PROVE  Front(Cut(s, n))[i] = Cut(s, n - 1)[i]
    <3>1. i \in 1 .. n - 1 - 1 + 1 /\ 1 + i - 1 = i
      BY <1>1
    <3> QED BY <3>1, <2>1, <2>3, <2>4, <1>2
  <2>7. Front(Cut(s, n)) = Cut(s, n - 1)
    BY <2>1, <2>4, <2>5, <2>6, <1>2, SeqEqual
  <2> QED BY <2>7, <1>2, <1>4, EmptySeq
<1>5. n = 0 => Cut(s, n) = <<>>
  BY <1>1, SubSeqEmpty DEF Cut
<1> QED BY <1>1, <1>2, <1>3, <1>4, <1>5

(* The front of a path is all of it but the end. *)
LEMMA FrontIs ==
    ASSUME NEW S, NEW s \in Seq(S), s # <<>>
    PROVE  /\ Front(s) = Cut(s, Len(s) - 1) /\ s = Cut(s, Len(s))
           /\ Front(s) \in Seq(S) /\ Len(Front(s)) = Len(s) - 1 /\ Len(s) \in Nat \ {0}
           /\ \A i \in 1 .. Len(s) - 1 : Front(s)[i] = s[i]
<1>1. Len(s) \in Nat \ {0}
  BY EmptySeq
<1>2. Front(s) = Cut(s, Len(s) - 1) /\ s = Cut(s, Len(s))
  BY SubSeqFull DEF Front, Cut
<1>3. Len(s) - 1 \in 0 .. Len(s)
  BY <1>1
<1>4. /\ Cut(s, Len(s) - 1) \in Seq(S) /\ Len(Cut(s, Len(s) - 1)) = Len(s) - 1
      /\ \A i \in 1 .. Len(s) - 1 : Cut(s, Len(s) - 1)[i] = s[i]
  BY <1>3, CutIs
<1> QED BY <1>1, <1>2, <1>4

LEMMA PrefixOfFront ==
    ASSUME NEW S, NEW p \in Seq(S), NEW s \in Seq(S), s # <<>>
    PROVE  IsPrefix(p, Front(s)) <=> IsPrefix(p, s) /\ p # s
<1>1. /\ Front(s) \in Seq(S) /\ Len(Front(s)) = Len(s) - 1 /\ Len(s) \in Nat \ {0}
      /\ \A i \in 1 .. Len(s) - 1 : Front(s)[i] = s[i]
  BY FrontIs
<1>2. Len(p) \in Nat
  BY LenProperties
<1>3. IsPrefix(p, Front(s)) <=> Len(p) <= Len(s) - 1 /\ \A i \in 1 .. Len(p) : p[i] = Front(s)[i]
  BY <1>1, PrefixIs
<1>4. IsPrefix(p, s) <=> Len(p) <= Len(s) /\ \A i \in 1 .. Len(p) : p[i] = s[i]
  BY PrefixIs
<1>5. ASSUME Len(p) = Len(s), \A i \in 1 .. Len(p) : p[i] = s[i]
      PROVE  p = s
  BY <1>5, SeqEqual
<1>6. ASSUME Len(p) <= Len(s) - 1
      PROVE  (\A i \in 1 .. Len(p) : p[i] = Front(s)[i]) <=> \A i \in 1 .. Len(p) : p[i] = s[i]
  <2>1. \A i \in 1 .. Len(p) : i \in 1 .. Len(s) - 1
    BY <1>1, <1>2, <1>6
  <2> QED BY <2>1, <1>1
<1>7. Len(p) <= Len(s) - 1 <=> Len(p) <= Len(s) /\ Len(p) # Len(s)
  BY <1>1, <1>2
<1> QED BY <1>3, <1>4, <1>5, <1>6, <1>7

Parented(t) == \A k \in Keys : t[k] # None => HasParent(t, k.path)

(* Then all the folders it lies below are there. *)
LEMMA FoldersAbove ==
    ASSUME NEW t, Parented(t), NEW k \in Keys, t[k] # None,
           NEW p \in Seq(Letters), p # <<>>, IsPrefix(p, k.path), p # k.path
    PROVE  There(t, Folder(p))
<1> DEFINE s == k.path
           n == Len(s)
           gaps == {d \in 1 .. n - 1 : ~There(t, Folder(Cut(s, n - d)))}
<1>1. s \in Seq(Letters) /\ s # <<>> /\ n \in Nat \ {0}
  BY PathsOfKeys, EmptySeq
<1> HIDE DEF s
<1>2. gaps = {}
  <2> SUFFICES ASSUME gaps # {} PROVE FALSE
    OBVIOUS
  <2>1. gaps \in SUBSET Nat
    BY <1>1
  <2>2. PICK d \in gaps : \A e \in gaps : d <= e
    BY <2>1, LeastOfNumbers
  <2>3. d \in 1 .. n - 1 /\ ~There(t, Folder(Cut(s, n - d))) /\ n - d \in 1 .. n /\ n - d \in 0 .. n
    BY <2>2, <1>1
  <2>4. CASE d = 1
    <3>1. HasParent(t, s)
      BY DEF Parented, s
    <3>2. Front(s) = Cut(s, n - d) /\ Cut(s, n - d) # <<>>
      BY <2>3, <2>4, <1>1, FrontIs, CutIs
    <3> QED BY <3>1, <3>2, <2>3 DEF HasParent, HasFolder
  <2>5. CASE d # 1
    <3>1. d - 1 \in 1 .. n - 1 /\ ~(d <= d - 1)
      BY <2>3, <2>5, <1>1
    <3>2. There(t, Folder(Cut(s, n - (d - 1))))
      BY <3>1, <2>2
    <3>3. n - (d - 1) \in 1 .. n /\ n - (d - 1) \in 0 .. n /\ n - (d - 1) - 1 = n - d
          /\ n - (d - 1) > 0 /\ n - d > 0
      BY <2>3, <3>1, <1>1
    <3>4. HasParent(t, Cut(s, n - (d - 1)))
      BY <3>2, KeysApart DEF Parented, There
    <3>5. Front(Cut(s, n - (d - 1))) = Cut(s, n - d) /\ Cut(s, n - d) # <<>>
      BY <3>3, <2>3, <1>1, CutIs
    <3> QED BY <3>4, <3>5, <2>3 DEF HasParent, HasFolder
  <2> QED BY <2>4, <2>5
<1>3. Len(p) \in Nat \ {0} /\ Len(p) <= n /\ \A i \in 1 .. Len(p) : p[i] = s[i]
  BY <1>1, EmptySeq, PrefixIs DEF s
<1>4. Len(p) # n
  <2> SUFFICES ASSUME Len(p) = n PROVE FALSE
    OBVIOUS
  <2>1. p = s
    BY <1>1, <1>3, SeqEqual
  <2> QED BY <2>1 DEF s
<1>5. p = Cut(s, Len(p))
  <2>1. Len(p) \in 0 .. Len(s)
    BY <1>1, <1>3
  <2>2. /\ Cut(s, Len(p)) \in Seq(Letters) /\ Len(Cut(s, Len(p))) = Len(p)
        /\ \A i \in 1 .. Len(p) : Cut(s, Len(p))[i] = s[i]
    BY <2>1, <1>1, CutIs
  <2> QED BY <2>2, <1>3, SeqEqual
<1>6. n - Len(p) \in 1 .. n - 1 /\ n - (n - Len(p)) = Len(p)
  BY <1>1, <1>3, <1>4
<1>7. n - Len(p) \notin gaps
  BY <1>2
<1> HIDE DEF n
<1>8. There(t, Folder(Cut(s, Len(p))))
  BY <1>6, <1>7
<1> QED BY <1>5, <1>8

-----------------------------------------------------------------------------
(* What the operations of the other destinations make of a tree. *)

(* Nothing is taken away that something else still lies in. *)
LEMMA ParentedGrows ==
    ASSUME NEW t, NEW u, Parented(t), \A k \in Keys : t[k] # None => u[k] # None,
           \A k \in Keys : u[k] # None => t[k] # None \/ HasParent(t, k.path)
    PROVE  Parented(u)
<1> SUFFICES ASSUME NEW k \in Keys, u[k] # None
             PROVE  HasParent(u, k.path)
  BY DEF Parented
<1>1. HasParent(t, k.path)
  BY DEF Parented
<1> QED BY <1>1 DEF HasParent, HasFolder, There

LEMMA ParentedAfterPut ==
    ASSUME NEW t \in [Keys -> Contents \cup {None}], NEW k, NEW c \in Contents,
           Parented(t), HasParent(t, k.path)
    PROVE  Parented(Put(t, k, c))
<1>1. \A j \in Keys : Put(t, k, c)[j] = IF j = k THEN c ELSE t[j]
  BY DEF Put
<1>2. c # None
  BY TreeAssumption
<1> QED BY <1>1, <1>2, ParentedGrows

LEMMA ParentedWithout ==
    ASSUME NEW t, Parented(t), NEW p \in Paths
    PROVE  Parented(Without(t, Moving(t, p)))
<1> DEFINE u == Without(t, Moving(t, p))
<1> SUFFICES ASSUME NEW k \in Keys, u[k] # None
             PROVE  HasParent(u, k.path)
  BY DEF Parented
<1>1. \A j \in Keys : u[j] = IF j \in Moving(t, p) THEN None ELSE t[j]
  BY DEF Without
<1> HIDE DEF u
<1>2. HasParent(t, k.path) /\ k \notin Moving(t, p)
  BY <1>1 DEF Parented
<1>3. SUFFICES ASSUME Front(k.path) # <<>>
               PROVE  Folder(Front(k.path)) \notin Moving(t, p)
  BY <1>1, <1>2 DEF HasParent, HasFolder, There
<1>4. SUFFICES ASSUME Folder(Front(k.path)) \in Moving(t, p)
               PROVE  k \in Moving(t, p)
  BY <1>2
<1>5. Moving(t, p) = Under(p) /\ IsPrefix(p, Front(k.path))
  BY <1>4, KeysApart DEF Moving, Under
<1>6. p \in Seq(Letters) /\ k.path \in Seq(Letters) /\ k.path # <<>>
  BY PathsOfKeys
<1>7. IsPrefix(p, k.path) /\ k.path # p
  BY <1>5, <1>6, PrefixOfFront
<1> QED BY <1>5, <1>7, KeysApart DEF Under

(* There is room for whatever is moved from one to the other. *)
Fits(p, q) == \A k \in Under(p) \cup ({File(p)} \cap Keys) : Rebase(k, p, q) \in Keys

LEMMA WhatMoves ==
    ASSUME NEW t, NEW p \in Paths, NEW q \in Paths, CanRename(t, p, q)
    PROVE  /\ Moving(t, p) \subseteq Under(p) \cup ({File(p)} \cap Keys)
           /\ \A k \in Moving(t, p) : k \in Keys /\ IsPrefix(p, k.path)
<1>1. p \in Seq(Letters) /\ p # <<>>
  BY PathsOfKeys
<1>2. IsPrefix(p, p)
  BY <1>1, LenProperties, PrefixIs
<1>3. ~There(t, Folder(p)) => File(p) \in Keys
  BY <1>1 DEF CanRename, IsFree, HasFolder, There
<1> QED BY <1>2, <1>3, KeysApart DEF Moving, Under

LEMMA RebaseOfKey ==
    ASSUME NEW p \in Paths, NEW q \in Paths, NEW k \in Keys, IsPrefix(p, k.path)
    PROVE  /\ Rebased(k, p, q) /\ Rebase(k, p, q).path \in Seq(Letters)
           /\ k.path = p => Rebase(k, p, q).path = q
           /\ k.path # p => /\ IsPrefix(q, Rebase(k, p, q).path) /\ q # Rebase(k, p, q).path
                            /\ Front(k.path) # <<>> /\ IsPrefix(p, Front(k.path))
                            /\ \A j \in Keys : j.path = Front(k.path) =>
                                  Rebase(j, p, q).path = Front(Rebase(k, p, q).path)
<1>1. /\ k.path \in Seq(Letters) /\ k.path # <<>> /\ p \in Seq(Letters) /\ q \in Seq(Letters)
      /\ p # <<>> /\ q # <<>>
      /\ k = File(k.path) \/ k = Folder(k.path)
  BY PathsOfKeys
<1>2. Rebased(k, p, q) /\ Rebase(k, p, q).path \in Seq(Letters)
  BY <1>1, RebaseIs
<1>3. Len(p) \in Nat \ {0} /\ Len(q) \in Nat \ {0} /\ Len(k.path) \in Nat \ {0}
  BY <1>1, EmptySeq
<1>4. ASSUME k.path = p
      PROVE  Rebase(k, p, q).path = q
  <2>1. Len(Rebase(k, p, q).path) = Len(q)
    BY <1>2, <1>3, <1>4 DEF Rebased
  <2>2. \A i \in 1 .. Len(q) : Rebase(k, p, q).path[i] = q[i]
    BY <1>2 DEF Rebased
  <2> QED BY <2>1, <2>2, <1>1, <1>2, SeqEqual
<1>5. ASSUME k.path # p
      PROVE  /\ IsPrefix(q, Rebase(k, p, q).path) /\ q # Rebase(k, p, q).path
             /\ Front(k.path) # <<>> /\ IsPrefix(p, Front(k.path))
             /\ \A j \in Keys : j.path = Front(k.path) =>
                   Rebase(j, p, q).path = Front(Rebase(k, p, q).path)
  <2>1. IsPrefix(p, Front(k.path))
    BY <1>1, <1>5, PrefixOfFront
  <2>2. /\ Front(k.path) \in Seq(Letters) /\ Len(Front(k.path)) = Len(k.path) - 1
        /\ \A i \in 1 .. Len(k.path) - 1 : Front(k.path)[i] = k.path[i]
    BY <1>1, FrontIs
  <2>3. Len(p) <= Len(k.path) - 1
    BY <2>1, <2>2, <1>1, PrefixIs
  <2>4. Front(k.path) # <<>>
    BY <2>2, <2>3, <1>3, EmptySeq
  <2> DEFINE r == Rebase(k, p, q).path
  <2>5. /\ r \in Seq(Letters) /\ Len(r) = Len(q) + (Len(k.path) - Len(p))
        /\ \A i \in 1 .. Len(q) : r[i] = q[i]
        /\ \A i \in 1 .. Len(k.path) - Len(p) : r[Len(q) + i] = k.path[Len(p) + i]
    BY <1>2 DEF Rebased
  <2> HIDE DEF r
  <2>6. Len(q) <= Len(r) /\ Len(q) # Len(r) /\ r # <<>>
    BY <2>3, <2>5, <1>3, EmptySeq
  <2>7. IsPrefix(q, r) /\ q # r
    BY <2>5, <2>6, <1>1, PrefixIs
  <2>8. ASSUME NEW j \in Keys, j.path = Front(k.path)
        PROVE  Rebase(j, p, q).path = Front(r)
    <3>1. j.path \in Seq(Letters) /\ (j = File(j.path) \/ j = Folder(j.path)) /\ IsPrefix(p, j.path)
      BY <2>1, <2>8, PathsOfKeys
    <3>2. Rebased(j, p, q) /\ Rebase(j, p, q).path \in Seq(Letters)
      BY <3>1, <1>1, RebaseIs
    <3> DEFINE s == Rebase(j, p, q).path
    <3>3. /\ s \in Seq(Letters) /\ Len(s) = Len(q) + (Len(k.path) - 1 - Len(p))
          /\ \A i \in 1 .. Len(q) : s[i] = q[i]
          /\ \A i \in 1 .. Len(k.path) - 1 - Len(p) : s[Len(q) + i] = Front(k.path)[Len(p) + i]
      BY <3>2, <2>2, <2>8 DEF Rebased
    <3> HIDE DEF s
    <3>4. /\ Front(r) \in Seq(Letters) /\ Len(Front(r)) = Len(r) - 1
          /\ \A i \in 1 .. Len(r) - 1 : Front(r)[i] = r[i]
      BY <2>5, <2>6, FrontIs
    <3>5. Len(s) = Len(Front(r))
      BY <3>3, <3>4, <2>5, <1>3
    <3>6. ASSUME NEW i \in 1 .. Len(s)
          PROVE  s[i] = Front(r)[i]
      <4>1. i \in 1 .. Len(r) - 1
        BY <3>4, <3>5
      <4>2. CASE i <= Len(q)
        <5>1. i \in 1 .. Len(q)
          BY <4>1, <4>2, <1>3
        <5> QED BY <5>1, <4>1, <3>3, <3>4, <2>5
      <4>3. CASE i > Len(q)
        <5> DEFINE m == i - Len(q)
        <5>1. /\ m \in 1 .. Len(k.path) - 1 - Len(p) /\ m \in 1 .. Len(k.path) - Len(p)
              /\ i = Len(q) + m /\ Len(p) + m \in 1 .. Len(k.path) - 1
          BY <4>1, <4>3, <3>3, <1>3
        <5> HIDE DEF m
        <5>2. s[i] = Front(k.path)[Len(p) + m] /\ r[i] = k.path[Len(p) + m]
          BY <5>1, <3>3, <2>5
        <5> QED BY <5>1, <5>2, <4>1, <3>4, <2>2
      <4> QED BY <4>1, <4>2, <4>3, <1>3
    <3>7. s = Front(r)
      BY <3>3, <3>4, <3>5, <3>6, SeqEqual
    <3> QED BY <3>7 DEF s
  <2> QED BY <2>1, <2>4, <2>7, <2>8 DEF r
<1> QED BY <1>2, <1>4, <1>5

(* A renaming that the rules allow loses nothing and writes over nothing. *)
LEMMA MoveIs ==
    ASSUME NEW t, Parented(t), NEW p \in Paths, NEW q \in Paths, CanRename(t, p, q), Fits(p, q)
    PROVE  /\ \A j \in Moving(t, p) : t[j] # None =>
                 Rebase(j, p, q) \in Keys /\ Moved(t, p, q)[Rebase(j, p, q)] = t[j]
           /\ \A k \in Keys \ Moving(t, p) : t[k] # None => Moved(t, p, q)[k] = t[k]
           /\ \A k \in Keys : Moved(t, p, q)[k] # None =>
                 \/ k \notin Moving(t, p) /\ t[k] # None
                 \/ \E j \in Moving(t, p) : t[j] # None /\ Rebase(j, p, q) = k
<1> DEFINE was(k) == {j \in Moving(t, p) : t[j] # None /\ Rebase(j, p, q) = k}
<1>1. \A k \in Keys : Moved(t, p, q)[k] =
         IF was(k) # {} THEN t[CHOOSE j \in was(k) : TRUE]
         ELSE IF k \in Moving(t, p) THEN None ELSE t[k]
  BY DEF Moved
<1>2. /\ Moving(t, p) \subseteq Under(p) \cup ({File(p)} \cap Keys)
      /\ \A k \in Moving(t, p) : k \in Keys /\ IsPrefix(p, k.path)
  BY WhatMoves
<1>3. p \in Seq(Letters) /\ p # <<>> /\ q \in Seq(Letters) /\ q # <<>>
  BY PathsOfKeys
<1>4. ASSUME NEW j \in Moving(t, p), t[j] # None
      PROVE  Rebase(j, p, q) \in Keys /\ Moved(t, p, q)[Rebase(j, p, q)] = t[j]
  <2>1. Rebase(j, p, q) \in Keys
    BY <1>2 DEF Fits
  <2>2. j \in was(Rebase(j, p, q))
    BY <1>4
  <2>3. (CHOOSE i \in was(Rebase(j, p, q)) : TRUE) \in was(Rebase(j, p, q))
    BY <2>2
  <2>4. (CHOOSE i \in was(Rebase(j, p, q)) : TRUE) = j
    BY <2>3, <1>2, <1>3, RebaseTellsApart
  <2> HIDE DEF was
  <2> QED BY <2>1, <2>2, <2>4, <1>1
<1>5. ASSUME NEW k \in Keys \ Moving(t, p), t[k] # None
      PROVE  Moved(t, p, q)[k] = t[k]
  <2> SUFFICES ASSUME NEW j \in was(k)
               PROVE  FALSE
    BY <1>1
  <2>1. j \in Moving(t, p) /\ t[j] # None /\ Rebase(j, p, q) = k /\ j \in Keys /\ IsPrefix(p, j.path)
    BY <1>2
  <2>2. ~There(t, File(q)) /\ ~There(t, Folder(q))
    BY DEF CanRename, IsFree, HasFolder
  <2>3. CASE j.path = p
    <3>1. k.path = q
      BY <2>1, <2>3, RebaseOfKey
    <3> QED BY <3>1, <2>2, <1>5, PathsOfKeys DEF There
  <2>4. CASE j.path # p
    <3>1. IsPrefix(q, k.path) /\ q # k.path
      BY <2>1, <2>4, RebaseOfKey
    <3> QED BY <3>1, <2>2, <1>3, <1>5, FoldersAbove
  <2> QED BY <2>3, <2>4
<1>6. ASSUME NEW k \in Keys, Moved(t, p, q)[k] # None
      PROVE  \/ k \notin Moving(t, p) /\ t[k] # None
             \/ \E j \in Moving(t, p) : t[j] # None /\ Rebase(j, p, q) = k
  BY <1>1, <1>6
<1> QED BY <1>4, <1>5, <1>6

LEMMA ParentedMoved ==
    ASSUME NEW t, Parented(t), NEW p \in Paths, NEW q \in Paths, CanRename(t, p, q), Fits(p, q)
    PROVE  Parented(Moved(t, p, q))
<1> DEFINE u == Moved(t, p, q)
<1> SUFFICES ASSUME NEW k \in Keys, u[k] # None
             PROVE  HasParent(u, k.path)
  BY DEF Parented
<1>1. /\ \A j \in Moving(t, p) : t[j] # None => Rebase(j, p, q) \in Keys /\ u[Rebase(j, p, q)] = t[j]
      /\ \A j \in Keys \ Moving(t, p) : t[j] # None => u[j] = t[j]
      /\ \/ k \notin Moving(t, p) /\ t[k] # None
         \/ \E j \in Moving(t, p) : t[j] # None /\ Rebase(j, p, q) = k
  BY MoveIs
<1> HIDE DEF u
<1>2. \A j \in Moving(t, p) : j \in Keys /\ IsPrefix(p, j.path)
  BY WhatMoves
<1>3. ASSUME NEW f \in Keys, t[f] # None
      PROVE  f \notin Moving(t, p) => There(u, f)
  BY <1>1, <1>3 DEF There
<1>4. p \in Seq(Letters) /\ q \in Seq(Letters) /\ q # <<>>
  BY PathsOfKeys
<1>5. CASE k \notin Moving(t, p) /\ t[k] # None
  <2>1. HasParent(t, k.path)
    BY <1>5 DEF Parented
  <2>2. SUFFICES ASSUME Front(k.path) # <<>>
                 PROVE  Folder(Front(k.path)) \notin Moving(t, p)
    BY <2>1, <1>3 DEF HasParent, HasFolder, There
  <2>3. SUFFICES ASSUME Folder(Front(k.path)) \in Moving(t, p)
                 PROVE  k \in Moving(t, p)
    BY <1>5
  <2>4. Moving(t, p) = Under(p) /\ IsPrefix(p, Front(k.path))
    BY <2>3, KeysApart DEF Moving, Under
  <2>5. IsPrefix(p, k.path) /\ k.path # p
    BY <2>4, <1>4, PathsOfKeys, PrefixOfFront
  <2> QED BY <2>4, <2>5, KeysApart DEF Under
<1>6. ASSUME NEW j \in Moving(t, p), t[j] # None, Rebase(j, p, q) = k
      PROVE  HasParent(u, k.path)
  <2>1. j \in Keys /\ IsPrefix(p, j.path)
    BY <1>2
  <2>2. CASE j.path = p
    <3>1. k.path = q /\ HasParent(t, q)
      BY <2>1, <2>2, <1>6, RebaseOfKey DEF CanRename
    <3>2. SUFFICES ASSUME Front(q) # <<>>
                   PROVE  Folder(Front(q)) \notin Moving(t, p)
      BY <3>1, <1>3 DEF HasParent, HasFolder, There
    <3>3. SUFFICES ASSUME Folder(Front(q)) \in Moving(t, p)
                   PROVE  IsPrefix(p, q)
      BY DEF CanRename
    <3>4. IsPrefix(p, Front(q))
      BY <3>3, <1>2, KeysApart
    <3> QED BY <3>4, <1>4, PrefixOfFront
  <2>3. CASE j.path # p
    <3>1. /\ Front(j.path) # <<>> /\ IsPrefix(p, Front(j.path))
          /\ \A i \in Keys : i.path = Front(j.path) => Rebase(i, p, q).path = Front(k.path)
      BY <2>1, <2>3, <1>6, RebaseOfKey
    <3>2. HasParent(t, j.path)
      BY <2>1, <1>6 DEF Parented
    <3> DEFINE f == Folder(Front(j.path))
    <3>3. f \in Keys /\ t[f] # None /\ f.path = Front(j.path) /\ f.folder /\ \A x : f # File(x)
      BY <3>1, <3>2, KeysApart DEF HasParent, HasFolder, There
    <3>4. f \in Moving(t, p)
      <4>1. CASE There(t, Folder(p))
        BY <4>1, <3>1, <3>3 DEF Moving, Under
      <4>2. CASE ~There(t, Folder(p))
        <5>1. j = File(p)
          BY <4>2, <1>6 DEF Moving
        <5> QED BY <5>1, <2>3, KeysApart
      <4> QED BY <4>1, <4>2
    <3>5. Rebase(f, p, q) \in Keys /\ u[Rebase(f, p, q)] # None
      BY <3>3, <3>4, <1>1
    <3>6. Rebase(f, p, q) = Folder(Front(k.path))
      <4>1. Rebased(f, p, q) /\ Rebase(f, p, q).path = Front(k.path)
        BY <3>1, <3>3, RebaseOfKey
      <4> HIDE DEF f
      <4> QED BY <4>1, <3>3 DEF Rebased
    <3>7. k.path # <<>>
      BY PathsOfKeys
    <3> QED BY <3>5, <3>6, <3>7 DEF HasParent, HasFolder, There
  <2> QED BY <2>2, <2>3
<1> QED BY <1>1, <1>5, <1>6

-----------------------------------------------------------------------------
(* How a document is read, event by event. *)

(* Whose answer it is decides how. *)
ReadNext(who, r, e) == IF who = "dav" THEN ReadOn(r, e) ELSE ListOn(r, e)

Reads(who, r, body, s) ==
    \E f : /\ f = [i \in 0 .. Len(body) |-> f[i]]
           /\ f[0] = r /\ f[Len(body)] = s
           /\ \A i \in 1 .. Len(body) : f[i] = ReadNext(who, f[i - 1], body[i])

LEMMA NothingToRead ==
    ASSUME NEW who, NEW r
    PROVE  Reads(who, r, <<>>, r)
<1> DEFINE f == [i \in 0 .. 0 |-> r]
<1>1. Len(<<>>) = 0
  OBVIOUS
<1>2. f = [i \in 0 .. Len(<<>>) |-> f[i]] /\ f[0] = r /\ f[Len(<<>>)] = r
  BY <1>1
<1>3. 1 .. Len(<<>>) = {}
  BY <1>1
<1> HIDE DEF f
<1> QED BY <1>2, <1>3 DEF Reads

LEMMA OneIsRead ==
    ASSUME NEW who, NEW r, NEW e
    PROVE  Reads(who, r, <<e>>, ReadNext(who, r, e))
<1> DEFINE f == [i \in 0 .. 1 |-> IF i = 0 THEN r ELSE ReadNext(who, r, e)]
<1>1. Len(<<e>>) = 1 /\ <<e>>[1] = e
  OBVIOUS
<1>2. f = [i \in 0 .. 1 |-> f[i]] /\ f[0] = r /\ f[1] = ReadNext(who, r, e)
  OBVIOUS
<1> HIDE DEF f
<1>3. ASSUME NEW i \in 1 .. 1
      PROVE  f[i] = ReadNext(who, f[i - 1], <<e>>[i])
  <2>1. i = 1 /\ i - 1 = 0
    OBVIOUS
  <2> QED BY <2>1, <1>1, <1>2
<1> QED BY <1>1, <1>2, <1>3 DEF Reads

LEMMA ReadOneAfterTheOther ==
    ASSUME NEW who, NEW E, NEW b \in Seq(E), NEW c \in Seq(E), NEW r, NEW s, NEW u,
           Reads(who, r, b, s), Reads(who, s, c, u)
    PROVE  Reads(who, r, b \o c, u)
<1>1. PICK f : /\ f = [i \in 0 .. Len(b) |-> f[i]]
               /\ f[0] = r /\ f[Len(b)] = s
               /\ \A i \in 1 .. Len(b) : f[i] = ReadNext(who, f[i - 1], b[i])
  BY DEF Reads
<1>2. PICK g : /\ g = [i \in 0 .. Len(c) |-> g[i]]
               /\ g[0] = s /\ g[Len(c)] = u
               /\ \A i \in 1 .. Len(c) : g[i] = ReadNext(who, g[i - 1], c[i])
  BY DEF Reads
<1> DEFINE m == Len(b)
           n == Len(c)
           h == [i \in 0 .. (m + n) |-> IF i <= m THEN f[i] ELSE g[i - m]]
<1>3. m \in Nat /\ n \in Nat /\ Len(b \o c) = m + n
  OBVIOUS
<1>4. /\ \A i \in 1 .. m : (b \o c)[i] = b[i]
      /\ \A i \in (m + 1) .. (m + n) : (b \o c)[i] = c[i - m]
  OBVIOUS
<1>5. h = [i \in 0 .. (m + n) |-> h[i]] /\ h[0] = r
  BY <1>1, <1>3
<1>6. h[m + n] = u
  <2>1. CASE n = 0
    BY <2>1, <1>1, <1>2, <1>3
  <2>2. CASE n # 0
    <3>1. m + n \in 0 .. (m + n) /\ ~(m + n <= m) /\ (m + n) - m = n
      BY <2>2, <1>3
    <3> QED BY <3>1, <1>2
  <2> QED BY <2>1, <2>2
<1>7. ASSUME NEW i \in 1 .. (m + n)
      PROVE  h[i] = ReadNext(who, h[i - 1], (b \o c)[i])
  <2>1. CASE i <= m
    <3>1. i \in 1 .. m /\ i - 1 \in 0 .. (m + n) /\ i \in 0 .. (m + n) /\ i - 1 <= m
      BY <2>1, <1>3
    <3>2. h[i] = f[i] /\ h[i - 1] = f[i - 1]
      BY <3>1, <2>1
    <3> HIDE DEF h, m, n
    <3> QED BY <3>1, <3>2, <1>1, <1>4 DEF m
  <2>2. CASE i = m + 1
    <3>1. /\ i - 1 = m /\ i - m = 1 /\ i \in 0 .. (m + n) /\ m \in 0 .. (m + n)
          /\ i \in (m + 1) .. (m + n) /\ 1 \in 1 .. n /\ ~(i <= m) /\ m <= m /\ 1 - 1 = 0
      BY <2>2, <1>3
    <3>2. h[i] = g[1] /\ h[i - 1] = f[m]
      BY <3>1
    <3> HIDE DEF h, n
    <3>3. (b \o c)[i] = c[1]
      BY <3>1, <1>4
    <3>4. g[1] = ReadNext(who, g[0], c[1])
      BY <3>1, <1>2 DEF n
    <3> QED BY <3>2, <3>3, <3>4, <1>1, <1>2
  <2>3. CASE i > m + 1
    <3>1. /\ i \in 0 .. (m + n) /\ i - 1 \in 0 .. (m + n) /\ ~(i <= m) /\ ~(i - 1 <= m)
          /\ i - m \in 1 .. n /\ (i - 1) - m = (i - m) - 1 /\ i \in (m + 1) .. (m + n)
      BY <2>3, <1>3
    <3>2. h[i] = g[i - m] /\ h[i - 1] = g[(i - m) - 1]
      BY <3>1
    <3> HIDE DEF h, n
    <3>3. (b \o c)[i] = c[i - m]
      BY <3>1, <1>4
    <3>4. g[i - m] = ReadNext(who, g[(i - m) - 1], c[i - m])
      BY <3>1, <1>2 DEF n
    <3> QED BY <3>2, <3>3, <3>4
  <2> QED BY <2>1, <2>2, <2>3, <1>3
<1> HIDE DEF h
<1> QED BY <1>3, <1>5, <1>6, <1>7 DEF Reads

LEMMA OnceMore ==
    ASSUME NEW who, NEW E, NEW b \in Seq(E), NEW e \in E, NEW r, NEW s, Reads(who, r, b, s)
    PROVE  b \o <<e>> \in Seq(E) /\ Reads(who, r, b \o <<e>>, ReadNext(who, s, e))
<1>1. Reads(who, s, <<e>>, ReadNext(who, s, e))
  BY OneIsRead
<1>2. <<e>> \in Seq(E)
  OBVIOUS
<1>3. Reads(who, r, b \o <<e>>, ReadNext(who, s, e))
  BY <1>1, <1>2, ReadOneAfterTheOther
<1> QED BY <1>2, <1>3

(* There is only one way to read it. *)
ReadBy(who, r, body, read) ==
    read[0] = r /\ \A i \in 1 .. Len(body) : read[i] = ReadNext(who, read[i - 1], body[i])

LEMMA SameReading ==
    ASSUME NEW who, NEW E, NEW body \in Seq(E), NEW r, NEW s, Reads(who, r, body, s), NEW read,
           ReadBy(who, r, body, read)
    PROVE  read[Len(body)] = s
<1> DEFINE n == Len(body)
<1>0. n \in Nat
  OBVIOUS
<1>1. PICK f : /\ f[0] = r /\ f[n] = s
               /\ \A i \in 1 .. n : f[i] = ReadNext(who, f[i - 1], body[i])
  BY DEF Reads
<1>2. read[0] = r /\ \A i \in 1 .. n : read[i] = ReadNext(who, read[i - 1], body[i])
  BY DEF ReadBy
<1> HIDE DEF n
<1>3. ASSUME NEW i \in 0 .. n, read[i] # f[i]
      PROVE  FALSE
  <2> DEFINE K == {j \in 0 .. n : read[j] # f[j]}
  <2>1. K \in SUBSET Nat /\ K # {}
    BY <1>3, <1>0
  <2>2. PICK k \in K : \A j \in K : k <= j
    BY <2>1, LeastOfNumbers
  <2>3. k # 0
    BY <2>2, <1>1, <1>2
  <2>4. k - 1 \in 0 .. n /\ k \in 1 .. n /\ ~(k <= k - 1)
    BY <2>2, <2>3, <1>0
  <2>5. read[k - 1] = f[k - 1]
    BY <2>2, <2>4
  <2>6. read[k] = ReadNext(who, read[k - 1], body[k]) /\ f[k] = ReadNext(who, f[k - 1], body[k])
    BY <2>4, <1>1, <1>2
  <2> QED BY <2>2, <2>5, <2>6
<1> QED BY <1>0, <1>1, <1>3 DEF n

LEMMA ListingIs ==
    ASSUME NEW E, NEW body \in Seq(E), NEW s, Reads("azure", ListingToRead, body, s)
    PROVE  parse_listing(body) = IF s.isListing THEN s.listing ELSE NotAListing
<1> DEFINE n == Len(body)
           Is(f) == f = [i \in 0 .. n |-> IF i = 0 THEN ListingToRead ELSE ListOn(f[i - 1], body[i])]
           read == CHOOSE f : Is(f)
<1>0. n \in Nat
  OBVIOUS
<1>1. PICK f : /\ f = [i \in 0 .. n |-> f[i]]
               /\ f[0] = ListingToRead
               /\ \A i \in 1 .. n : f[i] = ListOn(f[i - 1], body[i])
  BY DEF Reads, ReadNext
<1> HIDE DEF n
<1>2. Is(f)
  <2> DEFINE h == [i \in 0 .. n |-> IF i = 0 THEN ListingToRead ELSE ListOn(f[i - 1], body[i])]
  <2>1. ASSUME NEW i \in 0 .. n
        PROVE  f[i] = h[i]
    <3>1. CASE i = 0
      BY <3>1, <1>1
    <3>2. CASE i # 0
      <4>1. i \in 1 .. n
        BY <3>2, <1>0
      <4> QED BY <4>1, <3>2, <1>1
    <3> QED BY <3>1, <3>2
  <2>2. h = [i \in 0 .. n |-> h[i]]
    OBVIOUS
  <2> HIDE DEF h
  <2>3. f = h
    BY <2>1, <2>2, <1>1
  <2> QED BY <2>3 DEF h
<1>3. Is(read)
  BY <1>2
<1> HIDE DEF read
<1>4. read[0] = ListingToRead /\ \A i \in 1 .. n : read[i] = ListOn(read[i - 1], body[i])
  <2>1. \A i \in 0 .. n : read[i] = IF i = 0 THEN ListingToRead ELSE ListOn(read[i - 1], body[i])
    BY <1>3
  <2>2. 0 \in 0 .. n /\ \A i \in 1 .. n : i \in 0 .. n /\ i # 0
    BY <1>0
  <2> QED BY <2>1, <2>2
<1>5. ReadBy("azure", ListingToRead, body, read)
  BY <1>4 DEF ReadNext, ReadBy, n
<1>6. read[n] = s
  BY <1>5, SameReading DEF n
<1>7. parse_listing(body) = IF read[n].isListing THEN read[n].listing ELSE NotAListing
  BY DEF parse_listing, read, n
<1> QED BY <1>6, <1>7

LEMMA MultistatusIs ==
    ASSUME NEW E, NEW body \in Seq(E), NEW s, Reads("dav", ToRead, body, s)
    PROVE  parse_multistatus(body) = IF s.isListing THEN s.found ELSE NotAListing
<1> DEFINE n == Len(body)
           Is(f) == f = [i \in 0 .. n |-> IF i = 0 THEN ToRead ELSE ReadOn(f[i - 1], body[i])]
           read == CHOOSE f : Is(f)
<1>0. n \in Nat
  OBVIOUS
<1>1. PICK f : /\ f = [i \in 0 .. n |-> f[i]]
               /\ f[0] = ToRead
               /\ \A i \in 1 .. n : f[i] = ReadOn(f[i - 1], body[i])
  BY DEF Reads, ReadNext
<1> HIDE DEF n
<1>2. Is(f)
  <2> DEFINE h == [i \in 0 .. n |-> IF i = 0 THEN ToRead ELSE ReadOn(f[i - 1], body[i])]
  <2>1. ASSUME NEW i \in 0 .. n
        PROVE  f[i] = h[i]
    <3>1. CASE i = 0
      BY <3>1, <1>1
    <3>2. CASE i # 0
      <4>1. i \in 1 .. n
        BY <3>2, <1>0
      <4> QED BY <4>1, <3>2, <1>1
    <3> QED BY <3>1, <3>2
  <2>2. h = [i \in 0 .. n |-> h[i]]
    OBVIOUS
  <2> HIDE DEF h
  <2>3. f = h
    BY <2>1, <2>2, <1>1
  <2> QED BY <2>3 DEF h
<1>3. Is(read)
  BY <1>2
<1> HIDE DEF read
<1>4. read[0] = ToRead /\ \A i \in 1 .. n : read[i] = ReadOn(read[i - 1], body[i])
  <2>1. \A i \in 0 .. n : read[i] = IF i = 0 THEN ToRead ELSE ReadOn(read[i - 1], body[i])
    BY <1>3
  <2>2. 0 \in 0 .. n /\ \A i \in 1 .. n : i \in 0 .. n /\ i # 0
    BY <1>0
  <2> QED BY <2>1, <2>2
<1>5. ReadBy("dav", ToRead, body, read)
  BY <1>4 DEF ReadNext, ReadBy, n
<1>6. read[n] = s
  BY <1>5, SameReading DEF n
<1>7. parse_multistatus(body) = IF read[n].isListing THEN read[n].found ELSE NotAListing
  BY DEF parse_multistatus, read, n
<1> QED BY <1>6, <1>7

(* What is written of one thing after another is read in that order. *)
LEMMA TogetherIsRead ==
    ASSUME NEW who, NEW E, NEW bodies \in Seq(Seq(E)), NEW st,
           \A i \in 1 .. Len(bodies) : Reads(who, st[i - 1], bodies[i], st[i])
    PROVE  Together(bodies) \in Seq(E) /\ Reads(who, st[0], Together(bodies), st[Len(bodies)])
<1> DEFINE m == Len(bodies)
           Is(f, n) == f = [i \in 0 .. n |-> IF i = 0 THEN <<>> ELSE f[i - 1] \o bodies[i]]
           Good(n) == \E f : Is(f, n)
           K == {n \in 0 .. m : ~Good(n)}
<1>0. m \in Nat
  OBVIOUS
<1> HIDE DEF m
<1>1. Good(m)
  <2> HIDE DEF Good
  <2> SUFFICES ASSUME K # {} PROVE FALSE
    BY <1>0
  <2>1. K \in SUBSET Nat
    BY <1>0
  <2>2. PICK k \in K : \A j \in K : k <= j
    BY <2>1, LeastOfNumbers
  <2>3. k # 0
    <3> DEFINE f == [i \in 0 .. 0 |-> <<>>]
    <3>1. f = [i \in 0 .. 0 |-> IF i = 0 THEN <<>> ELSE f[i - 1] \o bodies[i]]
      OBVIOUS
    <3> HIDE DEF f
    <3>2. Good(0)
      BY <3>1 DEF Good
    <3> QED BY <3>2, <2>2
  <2>4. k - 1 \in 0 .. m /\ k \in 1 .. m /\ ~(k <= k - 1) /\ k \in Nat
    BY <2>2, <2>3, <1>0
  <2>5. Good(k - 1)
    BY <2>2, <2>4
  <2>6. PICK f : Is(f, k - 1)
    BY <2>5 DEF Good
  <2> DEFINE g == [i \in 0 .. k |-> IF i = k THEN f[k - 1] \o bodies[k] ELSE f[i]]
             h == [i \in 0 .. k |-> IF i = 0 THEN <<>> ELSE g[i - 1] \o bodies[i]]
  <2>7. ASSUME NEW i \in 0 .. k
        PROVE  g[i] = IF i = 0 THEN <<>> ELSE g[i - 1] \o bodies[i]
    <3>1. CASE i = 0
      <4>1. g[0] = f[0] /\ 0 \in 0 .. (k - 1)
        BY <2>4
      <4> HIDE DEF g
      <4> QED BY <4>1, <3>1, <2>6
    <3>2. CASE i = k
      <4>1. k - 1 \in 0 .. k /\ k - 1 # k /\ k \in 0 .. k
        BY <2>4
      <4>2. g[k - 1] = f[k - 1] /\ g[k] = f[k - 1] \o bodies[k]
        BY <4>1
      <4> HIDE DEF g
      <4> QED BY <4>2, <3>2, <2>3
    <3>3. CASE i # 0 /\ i # k
      <4>1. i \in 0 .. (k - 1) /\ i - 1 \in 0 .. k /\ i - 1 # k
        BY <3>3, <2>4
      <4>2. g[i] = f[i] /\ g[i - 1] = f[i - 1]
        BY <3>3, <4>1
      <4> HIDE DEF g
      <4>3. f[i] = f[i - 1] \o bodies[i]
        BY <4>1, <3>3, <2>6
      <4> QED BY <3>3, <4>2, <4>3
    <3> QED BY <3>1, <3>2, <3>3
  <2>8. g = h
    <3>1. g = [i \in 0 .. k |-> g[i]]
      OBVIOUS
    <3> HIDE DEF g
    <3> QED BY <2>7, <3>1
  <2>9. Is(g, k)
    <3> HIDE DEF g
    <3> QED BY <2>8
  <2>10. Good(k)
    <3> HIDE DEF g
    <3> QED BY <2>9 DEF Good
  <2> QED BY <2>10, <2>2
<1> DEFINE all == CHOOSE f : Is(f, m)
<1>2. Is(all, m)
  BY <1>1
<1> HIDE DEF all
<1>3. /\ all[0] = <<>>
      /\ \A i \in 1 .. m : all[i] = all[i - 1] \o bodies[i]
  <2>1. ASSUME NEW i \in 1 .. m
        PROVE  all[i] = all[i - 1] \o bodies[i]
    <3>1. i \in 0 .. m /\ i # 0
      BY <1>0
    <3> QED BY <3>1, <1>2
  <2>2. 0 \in 0 .. m
    BY <1>0
  <2> QED BY <2>1, <2>2, <1>2
<1>4. Together(bodies) = all[m]
  BY DEF Together, all, m
<1> DEFINE Right(n) == all[n] \in Seq(E) /\ Reads(who, st[0], all[n], st[n])
           J == {n \in 0 .. m : ~Right(n)}
<1>5. Right(m)
  <2> HIDE DEF Right
  <2> SUFFICES ASSUME J # {} PROVE FALSE
    BY <1>0
  <2>1. J \in SUBSET Nat
    BY <1>0
  <2>2. PICK k \in J : \A j \in J : k <= j
    BY <2>1, LeastOfNumbers
  <2>3. k # 0
    <3>1. <<>> \in Seq(E) /\ Reads(who, st[0], <<>>, st[0])
      BY NothingToRead
    <3>2. Right(0)
      BY <3>1, <1>3 DEF Right
    <3> QED BY <2>2, <3>2
  <2>4. k - 1 \in 0 .. m /\ k \in 1 .. m /\ ~(k <= k - 1) /\ k \in Nat
    BY <2>2, <2>3, <1>0
  <2>5. Right(k - 1)
    BY <2>2, <2>4 DEF J
  <2>6. Reads(who, st[k - 1], bodies[k], st[k]) /\ bodies[k] \in Seq(E)
    BY <2>4 DEF m
  <2>7. Reads(who, st[0], all[k - 1] \o bodies[k], st[k])
    BY <2>5, <2>6, ReadOneAfterTheOther DEF Right
  <2>8. all[k - 1] \o bodies[k] \in Seq(E)
    BY <2>5, <2>6 DEF Right
  <2>9. Right(k)
    BY <2>4, <2>7, <2>8, <1>3 DEF Right
  <2> QED BY <2>9, <2>2
<1> QED BY <1>4, <1>5 DEF m, Right

-----------------------------------------------------------------------------
(* The elements of Azure's answer. *)

Tags == {"enumerationresults", "blobs", "blob", "blobprefix", "name", "properties", "etag",
         "nextmarker", "amp"}
Words(V) == [is : {"start", "end", "empty", "text", "reference"}, of : V]

Reader(bl, fo, nx, b, p, ins, at) ==
    [listing |-> [blobs |-> bl, folders |-> fo, next |-> nx], blob |-> b, prefix |-> p,
     inside |-> ins, inBlob |-> at = "blob", inPrefix |-> at = "prefix", isListing |-> TRUE]

Tag(is, name) == [is |-> is, of |-> name]

LEMMA TagsAreWords ==
    ASSUME NEW V, NEW v \in V, NEW i \in {"start", "end", "empty", "text", "reference"}
    PROVE  Tag(i, v) \in Words(V)
BY DEF Tag, Words

(* A tag, what is within, and the tag that closes it. *)
LEMMA ElementIsRead ==
    ASSUME NEW who, NEW V, NEW name \in V, NEW within \in Seq(Words(V)), NEW r, NEW s,
           Reads(who, ReadNext(who, r, Tag("start", name)), within, s)
    PROVE  /\ Element(name, within) \in Seq(Words(V))
           /\ Reads(who, r, Element(name, within), ReadNext(who, s, Tag("end", name)))
<1> DEFINE first == Start(name)
<1>1. first = <<Tag("start", name)>> /\ End(name) = <<Tag("end", name)>>
  BY DEF Start, End, Tag
<1>2. Tag("start", name) \in Words(V) /\ Tag("end", name) \in Words(V)
  BY TagsAreWords
<1>3. Reads(who, r, first, ReadNext(who, r, Tag("start", name)))
  BY <1>1, OneIsRead
<1>4. first \in Seq(Words(V))
  BY <1>1, <1>2
<1> HIDE DEF first
<1>5. Reads(who, r, first \o within, s)
  BY <1>3, <1>4, ReadOneAfterTheOther
<1>6. first \o within \in Seq(Words(V))
  BY <1>4
<1>7. /\ (first \o within) \o <<Tag("end", name)>> \in Seq(Words(V))
      /\ Reads(who, r, (first \o within) \o <<Tag("end", name)>>, ReadNext(who, s, Tag("end", name)))
  BY <1>2, <1>5, <1>6, OnceMore
<1> QED BY <1>1, <1>7 DEF Element, first

LEMMA TextIsWritten ==
    ASSUME NEW who, NEW V, NEW k \in V, NEW r
    PROVE  /\ Text(k) \in Seq(Words(V))
           /\ Reads(who, r, Text(k), ReadNext(who, r, Tag("text", k)))
<1>1. Text(k) = <<Tag("text", k)>>
  BY DEF Text, Tag
<1>2. Tag("text", k) \in Words(V)
  BY TagsAreWords
<1>3. <<Tag("text", k)>> \in Seq(Words(V))
  BY <1>2
<1>4. Reads(who, r, <<Tag("text", k)>>, ReadNext(who, r, Tag("text", k)))
  BY OneIsRead
<1> QED BY <1>1, <1>3, <1>4

(* What is taken for the name: each piece in the place of the one before   *)
(* it, and nothing of the reference.                                       *)
AsRead(k) == IF k \in DOMAIN AfterReference THEN AfterReference[k] ELSE k

(* However many pieces it comes in, a name is read as the last of them, by *)
(* a reader that takes one piece like another and passes over what parts   *)
(* them.                                                                   *)
LEMMA NameIsWritten ==
    ASSUME NEW who, NEW V, "amp" \in V, NEW k \in V, AsRead(k) \in V, NEW r, NEW q, NEW s,
           ReadNext(who, r, Tag("text", k)) = q,
           ReadNext(who, q, Tag("reference", "amp")) = q,
           ReadNext(who, q, Tag("text", AsRead(k))) = s,
           ReadNext(who, r, Tag("text", AsRead(k))) = s
    PROVE  AsText(k) \in Seq(Words(V)) /\ Reads(who, r, AsText(k), s)
<1>1. CASE k \notin DOMAIN AfterReference
  <2>1. AsText(k) = Text(k) /\ AsRead(k) = k
    BY <1>1 DEF AsText, AsRead
  <2> QED BY <2>1, TextIsWritten
<1>2. CASE k \in DOMAIN AfterReference
  <2> DEFINE last == AfterReference[k]
  <2>1. AsText(k) = (Text(k) \o Reference) \o Text(last) /\ AsRead(k) = last
    BY <1>2 DEF AsText, AsRead
  <2> HIDE DEF last
  <2>2. Text(k) \in Seq(Words(V)) /\ Reads(who, r, Text(k), q)
    BY TextIsWritten
  <2>3. Reference = <<Tag("reference", "amp")>> /\ Tag("reference", "amp") \in Words(V)
    BY TagsAreWords DEF Reference, Tag
  <2>4. Text(last) = <<Tag("text", last)>> /\ Tag("text", last) \in Words(V)
    BY <2>1, TagsAreWords DEF Text, Tag
  <2> DEFINE two == Text(k) \o Reference
  <2>5. two \in Seq(Words(V)) /\ Reads(who, r, two, q)
    <3>1. /\ Text(k) \o <<Tag("reference", "amp")>> \in Seq(Words(V))
          /\ Reads(who, r, Text(k) \o <<Tag("reference", "amp")>>, ReadNext(who, q, Tag("reference", "amp")))
      BY <2>2, <2>3, OnceMore
    <3> QED BY <2>3, <3>1
  <2> HIDE DEF two
  <2>6. /\ two \o <<Tag("text", last)>> \in Seq(Words(V))
        /\ Reads(who, r, two \o <<Tag("text", last)>>, ReadNext(who, q, Tag("text", last)))
    BY <2>4, <2>5, OnceMore
  <2> QED BY <2>1, <2>4, <2>6 DEF two
<1> QED BY <1>1, <1>2

(* Between two elements. *)
Between(bl, fo, nx, ins) == Reader(bl, fo, nx, <<>>, <<>>, ins, "")

LEMMA PrefixElementIsRead ==
    ASSUME NEW V, Tags \subseteq V, NEW k \in V, AsRead(k) \in V, NEW bl, NEW fo, NEW nx, NEW ins
    PROVE  /\ PrefixElement(k) \in Seq(Words(V))
           /\ Reads("azure", Between(bl, fo, nx, ins), PrefixElement(k), Between(bl, fo \cup {AsRead(k)}, nx, ""))
<1> DEFINE r1 == Reader(bl, fo, nx, <<>>, <<>>, ins, "prefix")
           r2 == Reader(bl, fo, nx, <<>>, <<>>, "name", "prefix")
           q == Reader(bl, fo, nx, <<>>, k, "name", "prefix")
           r3 == Reader(bl, fo, nx, <<>>, AsRead(k), "name", "prefix")
           r4 == Reader(bl, fo, nx, <<>>, AsRead(k), "", "prefix")
<1>1. "blobprefix" \in V /\ "name" \in V /\ "amp" \in V
  BY DEF Tags
<1>2. /\ ReadNext("azure", Between(bl, fo, nx, ins), Tag("start", "blobprefix")) = r1
      /\ ReadNext("azure", r1, Tag("start", "name")) = r2
      /\ ReadNext("azure", r2, Tag("text", k)) = q
      /\ ReadNext("azure", q, Tag("reference", "amp")) = q
      /\ ReadNext("azure", q, Tag("text", AsRead(k))) = r3
      /\ ReadNext("azure", r2, Tag("text", AsRead(k))) = r3
      /\ ReadNext("azure", r3, Tag("end", "name")) = r4
      /\ ReadNext("azure", r4, Tag("end", "blobprefix")) = Between(bl, fo \cup {AsRead(k)}, nx, "")
  <2>1. ReadNext("azure", Between(bl, fo, nx, ins), Tag("start", "blobprefix")) = r1
    BY DEF ReadNext, ListOn, Reader, Opens, Closes, TextIsRead, Tag, Between
  <2>2. ReadNext("azure", r1, Tag("start", "name")) = r2
    BY DEF ReadNext, ListOn, Reader, Opens, Closes, TextIsRead, Tag, Between
  <2>3. ReadNext("azure", r2, Tag("text", k)) = q
    BY DEF ReadNext, ListOn, Reader, Opens, Closes, TextIsRead, Tag, Between
  <2>6. ReadNext("azure", q, Tag("reference", "amp")) = q
    BY DEF ReadNext, ListOn, Reader, Opens, Closes, TextIsRead, Tag, Between
  <2>7. ReadNext("azure", q, Tag("text", AsRead(k))) = r3
    BY DEF ReadNext, ListOn, Reader, Opens, Closes, TextIsRead, Tag, Between
  <2>8. ReadNext("azure", r2, Tag("text", AsRead(k))) = r3
    BY DEF ReadNext, ListOn, Reader, Opens, Closes, TextIsRead, Tag, Between
  <2>4. ReadNext("azure", r3, Tag("end", "name")) = r4
    BY DEF ReadNext, ListOn, Reader, Opens, Closes, TextIsRead, Tag, Between
  <2>5. ReadNext("azure", r4, Tag("end", "blobprefix")) = Between(bl, fo \cup {AsRead(k)}, nx, "")
    BY DEF ReadNext, ListOn, Reader, Opens, Closes, TextIsRead, Tag, Between
  <2> HIDE DEF r1, r2, q, r3, r4
  <2> QED BY <2>1, <2>2, <2>3, <2>4, <2>5, <2>6, <2>7, <2>8
<1> HIDE DEF r1, r2, q, r3, r4
<1>3. AsText(k) \in Seq(Words(V)) /\ Reads("azure", r2, AsText(k), r3)
  BY <1>1, <1>2, NameIsWritten
<1>4. Element("name", AsText(k)) \in Seq(Words(V)) /\ Reads("azure", r1, Element("name", AsText(k)), r4)
  BY <1>1, <1>2, <1>3, ElementIsRead
<1> QED BY <1>1, <1>2, <1>4, ElementIsRead DEF PrefixElement

LEMMA BlobElementIsRead ==
    ASSUME NEW V, Tags \subseteq V, NEW k \in V, AsRead(k) \in V, NEW bl, NEW fo, NEW nx, NEW ins
    PROVE  /\ BlobElement(k) \in Seq(Words(V))
           /\ Reads("azure", Between(bl, fo, nx, ins), BlobElement(k), Between(bl \cup {AsRead(k)}, fo, nx, ""))
<1> DEFINE r1 == Reader(bl, fo, nx, <<>>, <<>>, ins, "blob")
           r2 == Reader(bl, fo, nx, <<>>, <<>>, "name", "blob")
           q == Reader(bl, fo, nx, k, <<>>, "name", "blob")
           r3 == Reader(bl, fo, nx, AsRead(k), <<>>, "name", "blob")
           r4 == Reader(bl, fo, nx, AsRead(k), <<>>, "", "blob")
           r5 == Reader(bl, fo, nx, AsRead(k), <<>>, "properties", "blob")
           r6 == Reader(bl, fo, nx, AsRead(k), <<>>, "etag", "blob")
           named == Element("name", AsText(k))
           etag == Element("etag", Text(k))
           rest == Element("properties", etag)
<1>1. "amp" \in V /\ "blob" \in V /\ "name" \in V /\ "properties" \in V /\ "etag" \in V
  BY DEF Tags
<1>2. ReadNext("azure", Between(bl, fo, nx, ins), Tag("start", "blob")) = r1
  BY DEF ReadNext, ListOn, Reader, Opens, Closes, TextIsRead, Tag, Between
<1>3. /\ ReadNext("azure", r1, Tag("start", "name")) = r2
      /\ ReadNext("azure", r4, Tag("start", "properties")) = r5
      /\ ReadNext("azure", r5, Tag("start", "etag")) = r6
  <2>1. ReadNext("azure", r1, Tag("start", "name")) = r2
    BY DEF ReadNext, ListOn, Reader, Opens, Closes, TextIsRead, Tag, Between
  <2>2. ReadNext("azure", r4, Tag("start", "properties")) = r5
    BY DEF ReadNext, ListOn, Reader, Opens, Closes, TextIsRead, Tag, Between
  <2>3. ReadNext("azure", r5, Tag("start", "etag")) = r6
    BY DEF ReadNext, ListOn, Reader, Opens, Closes, TextIsRead, Tag, Between
  <2> QED BY <2>1, <2>2, <2>3
<1>4. /\ ReadNext("azure", r2, Tag("text", k)) = q
      /\ ReadNext("azure", q, Tag("reference", "amp")) = q
      /\ ReadNext("azure", q, Tag("text", AsRead(k))) = r3
      /\ ReadNext("azure", r2, Tag("text", AsRead(k))) = r3
  <2>1. ReadNext("azure", r2, Tag("text", k)) = q
    BY DEF ReadNext, ListOn, Reader, Opens, Closes, TextIsRead, Tag, Between
  <2>2. ReadNext("azure", q, Tag("reference", "amp")) = q
    BY DEF ReadNext, ListOn, Reader, Opens, Closes, TextIsRead, Tag, Between
  <2>3. ReadNext("azure", q, Tag("text", AsRead(k))) = r3
    BY DEF ReadNext, ListOn, Reader, Opens, Closes, TextIsRead, Tag, Between
  <2>4. ReadNext("azure", r2, Tag("text", AsRead(k))) = r3
    BY DEF ReadNext, ListOn, Reader, Opens, Closes, TextIsRead, Tag, Between
  <2> QED BY <2>1, <2>2, <2>3, <2>4
<1>5. ReadNext("azure", r6, Tag("text", k)) = r6
  BY DEF ReadNext, ListOn, Reader, Opens, Closes, TextIsRead, Tag, Between
<1>6. ReadNext("azure", r3, Tag("end", "name")) = r4
  BY DEF ReadNext, ListOn, Reader, Opens, Closes, TextIsRead, Tag, Between
<1>8. ReadNext("azure", r6, Tag("end", "etag")) = r4
  BY DEF ReadNext, ListOn, Reader, Opens, Closes, TextIsRead, Tag, Between
<1>9. ReadNext("azure", r4, Tag("end", "properties")) = r4
  BY DEF ReadNext, ListOn, Reader, Opens, Closes, TextIsRead, Tag, Between
<1>10. ReadNext("azure", r4, Tag("end", "blob")) = Between(bl \cup {AsRead(k)}, fo, nx, "")
  BY DEF ReadNext, ListOn, Reader, Opens, Closes, TextIsRead, Tag, Between
<1> HIDE DEF r1, r2, q, r3, r4, r5, r6
<1>11. /\ AsText(k) \in Seq(Words(V)) /\ Reads("azure", r2, AsText(k), r3)
       /\ Text(k) \in Seq(Words(V)) /\ Reads("azure", r6, Text(k), r6)
  <2>1. AsText(k) \in Seq(Words(V)) /\ Reads("azure", r2, AsText(k), r3)
    BY <1>1, <1>4, NameIsWritten
  <2>2. Text(k) \in Seq(Words(V)) /\ Reads("azure", r6, Text(k), r6)
    BY <1>5, TextIsWritten
  <2> QED BY <2>1, <2>2
<1>12. named \in Seq(Words(V)) /\ Reads("azure", r1, named, r4)
  <2>1. Reads("azure", ReadNext("azure", r1, Tag("start", "name")), AsText(k), r3)
    BY <1>3, <1>11
  <2> QED BY <2>1, <1>1, <1>6, <1>11, ElementIsRead
<1>13. etag \in Seq(Words(V)) /\ Reads("azure", r5, etag, r4)
  <2>1. Reads("azure", ReadNext("azure", r5, Tag("start", "etag")), Text(k), r6)
    BY <1>3, <1>11
  <2> QED BY <2>1, <1>1, <1>8, <1>11, ElementIsRead
<1> HIDE DEF named, etag
<1>14. rest \in Seq(Words(V)) /\ Reads("azure", r4, rest, r4)
  <2>1. Reads("azure", ReadNext("azure", r4, Tag("start", "properties")), etag, r4)
    BY <1>3, <1>13
  <2> QED BY <2>1, <1>1, <1>9, <1>13, ElementIsRead
<1> HIDE DEF rest
<1>7. named \o rest \in Seq(Words(V)) /\ Reads("azure", r1, named \o rest, r4)
  BY <1>12, <1>14, ReadOneAfterTheOther
<1>8B. BlobElement(k) = Element("blob", named \o rest)
  BY DEF BlobElement, named, rest, etag
<1>15. Reads("azure", ReadNext("azure", Between(bl, fo, nx, ins), Tag("start", "blob")), named \o rest, r4)
  BY <1>2, <1>7
<1> QED BY <1>1, <1>7, <1>8B, <1>10, <1>15, ElementIsRead

(* A set as a sequence names all that is in it. *)
LEMMA AllInSequence ==
    ASSUME NEW S, IsFiniteSet(S)
    PROVE  /\ Cardinality(S) \in Nat
           /\ \A i \in 1 .. Cardinality(S) : SetToSeq(S)[i] \in S
           /\ S = {SetToSeq(S)[i] : i \in 1 .. Cardinality(S)}
<1> DEFINE n == Cardinality(S)
<1>1. n \in Nat /\ ExistsBijection(1 .. n, S)
  BY FS_CardinalityType
<1>2. \E f \in [1 .. n -> S] : IsInjective(f)
  BY <1>1 DEF ExistsBijection, Bijection, Injection
<1>3. SetToSeq(S) \in [1 .. n -> S] /\ IsInjective(SetToSeq(S))
  BY <1>2 DEF SetToSeq
<1>4. SetToSeq(S) \in Injection(1 .. n, S)
  BY <1>3 DEF Injection
<1>5. IsFiniteSet(1 .. n) /\ Cardinality(1 .. n) = n
  BY <1>1, FS_Interval
<1>6. SetToSeq(S) \in Surjection(1 .. n, S)
  BY <1>4, <1>5, FS_Injection
<1>7. \A s \in S : \E i \in 1 .. n : SetToSeq(S)[i] = s
  BY <1>6 DEF Surjection
<1> HIDE DEF n
<1> QED BY <1>1, <1>3, <1>7 DEF n

ReadOf(ks) == {AsRead(k) : k \in ks}

LEMMA PrefixesAreRead ==
    ASSUME NEW V, Tags \subseteq V, NEW ks, ks \subseteq V, IsFiniteSet(ks),
           \A k \in ks : AsRead(k) \in V,
           NEW bl, NEW nx, NEW ins
    PROVE  /\ Written(ks, PrefixElement) \in Seq(Words(V))
           /\ \E last : Reads("azure", Between(bl, {}, nx, ins), Written(ks, PrefixElement),
                              Between(bl, ReadOf(ks), nx, last))
<1> DEFINE n == Cardinality(ks)
           all == SetToSeq(ks)
           bodies == [i \in 1 .. n |-> PrefixElement(all[i])]
           st == [i \in 0 .. n |-> Between(bl, {AsRead(all[j]) : j \in 1 .. i}, nx, IF i = 0 THEN ins ELSE "")]
<1>1. n \in Nat /\ (\A i \in 1 .. n : all[i] \in ks) /\ ReadOf(ks) = {AsRead(all[i]) : i \in 1 .. n}
  BY AllInSequence DEF ReadOf
<1>2. Written(ks, PrefixElement) = Together(bodies)
  BY DEF Written
<1> HIDE DEF n, all
<1>3. bodies \in Seq(Seq(Words(V))) /\ Len(bodies) = n
  <2>1. \A i \in 1 .. n : PrefixElement(all[i]) \in Seq(Words(V))
    BY <1>1, PrefixElementIsRead
  <2> QED BY <2>1, <1>1
<1>4. ASSUME NEW i \in 1 .. Len(bodies)
      PROVE  Reads("azure", st[i - 1], bodies[i], st[i])
  <2>1. i \in 1 .. n /\ i \in 0 .. n /\ i - 1 \in 0 .. n /\ i # 0
    BY <1>1, <1>3
  <2>2. {AsRead(all[j]) : j \in 1 .. i} = {AsRead(all[j]) : j \in 1 .. i - 1} \cup {AsRead(all[i])}
    BY <2>1
  <2>3. \A there : Reads("azure", Between(bl, {AsRead(all[j]) : j \in 1 .. i - 1}, nx, there), PrefixElement(all[i]),
              Between(bl, {AsRead(all[j]) : j \in 1 .. i - 1} \cup {AsRead(all[i])}, nx, ""))
    BY <2>1, <1>1, PrefixElementIsRead
  <2>4. st[i] = Between(bl, {AsRead(all[j]) : j \in 1 .. i - 1} \cup {AsRead(all[i])}, nx, "")
    BY <2>1, <2>2
  <2>5. \E there : st[i - 1] = Between(bl, {AsRead(all[j]) : j \in 1 .. i - 1}, nx, there)
    BY <2>1
  <2>6. bodies[i] = PrefixElement(all[i])
    BY <2>1
  <2> HIDE DEF st, bodies
  <2> QED BY <2>3, <2>4, <2>5, <2>6
<1>5. st[0] = Between(bl, {}, nx, ins)
  <2>1. 0 \in 0 .. n /\ {AsRead(all[j]) : j \in 1 .. 0} = {}
    BY <1>1
  <2> QED BY <2>1
<1>6. \E last : st[n] = Between(bl, ReadOf(ks), nx, last)
  <2>1. st[n] = Between(bl, {AsRead(all[j]) : j \in 1 .. n}, nx, IF n = 0 THEN ins ELSE "")
    BY <1>1
  <2> HIDE DEF st
  <2> QED BY <2>1, <1>1
<1> HIDE DEF st, bodies
<1> QED BY <1>2, <1>3, <1>4, <1>5, <1>6, TogetherIsRead

LEMMA BlobsAreRead ==
    ASSUME NEW V, Tags \subseteq V, NEW ks, ks \subseteq V, IsFiniteSet(ks),
           \A k \in ks : AsRead(k) \in V,
           NEW fo, NEW nx, NEW ins
    PROVE  /\ Written(ks, BlobElement) \in Seq(Words(V))
           /\ \E last : Reads("azure", Between({}, fo, nx, ins), Written(ks, BlobElement),
                              Between(ReadOf(ks), fo, nx, last))
<1> DEFINE n == Cardinality(ks)
           all == SetToSeq(ks)
           bodies == [i \in 1 .. n |-> BlobElement(all[i])]
           st == [i \in 0 .. n |-> Between({AsRead(all[j]) : j \in 1 .. i}, fo, nx, IF i = 0 THEN ins ELSE "")]
<1>1. n \in Nat /\ (\A i \in 1 .. n : all[i] \in ks) /\ ReadOf(ks) = {AsRead(all[i]) : i \in 1 .. n}
  BY AllInSequence DEF ReadOf
<1>2. Written(ks, BlobElement) = Together(bodies)
  BY DEF Written
<1> HIDE DEF n, all
<1>3. bodies \in Seq(Seq(Words(V))) /\ Len(bodies) = n
  <2>1. \A i \in 1 .. n : BlobElement(all[i]) \in Seq(Words(V))
    BY <1>1, BlobElementIsRead
  <2> QED BY <2>1, <1>1
<1>4. ASSUME NEW i \in 1 .. Len(bodies)
      PROVE  Reads("azure", st[i - 1], bodies[i], st[i])
  <2>1. i \in 1 .. n /\ i \in 0 .. n /\ i - 1 \in 0 .. n /\ i # 0
    BY <1>1, <1>3
  <2>2. {AsRead(all[j]) : j \in 1 .. i} = {AsRead(all[j]) : j \in 1 .. i - 1} \cup {AsRead(all[i])}
    BY <2>1
  <2>3. \A there : Reads("azure", Between({AsRead(all[j]) : j \in 1 .. i - 1}, fo, nx, there), BlobElement(all[i]),
              Between({AsRead(all[j]) : j \in 1 .. i - 1} \cup {AsRead(all[i])}, fo, nx, ""))
    BY <2>1, <1>1, BlobElementIsRead
  <2>4. st[i] = Between({AsRead(all[j]) : j \in 1 .. i - 1} \cup {AsRead(all[i])}, fo, nx, "")
    BY <2>1, <2>2
  <2>5. \E there : st[i - 1] = Between({AsRead(all[j]) : j \in 1 .. i - 1}, fo, nx, there)
    BY <2>1
  <2>6. bodies[i] = BlobElement(all[i])
    BY <2>1
  <2> HIDE DEF st, bodies
  <2> QED BY <2>3, <2>4, <2>5, <2>6
<1>5. st[0] = Between({}, fo, nx, ins)
  <2>1. 0 \in 0 .. n /\ {AsRead(all[j]) : j \in 1 .. 0} = {}
    BY <1>1
  <2> QED BY <2>1
<1>6. \E last : st[n] = Between(ReadOf(ks), fo, nx, last)
  <2>1. st[n] = Between({AsRead(all[j]) : j \in 1 .. n}, fo, nx, IF n = 0 THEN ins ELSE "")
    BY <1>1
  <2> HIDE DEF st
  <2> QED BY <2>1, <1>1
<1> HIDE DEF st, bodies
<1> QED BY <1>2, <1>3, <1>4, <1>5, <1>6, TogetherIsRead

(* Whatever a store lists, parse_listing reads all of it, every name as    *)
(* what is behind its last reference: as it is, if it has none.            *)
THEOREM AzureIsUnderstood ==
    ASSUME NEW answer, answer = [blobs |-> answer.blobs, folders |-> answer.folders,
                                 next |-> answer.next],
           IsFiniteSet(answer.blobs), IsFiniteSet(answer.folders)
    PROVE  parse_listing(EnumerationOf(answer)) =
               [blobs |-> ReadOf(answer.blobs), folders |-> ReadOf(answer.folders), next |-> answer.next]
<1> DEFINE V == Tags \cup answer.blobs \cup answer.folders \cup {answer.next}
                  \cup ReadOf(answer.blobs) \cup ReadOf(answer.folders)
           bl == ReadOf(answer.blobs)
           fo == ReadOf(answer.folders)
           nx == answer.next
           both == Written(answer.folders, PrefixElement) \o Written(answer.blobs, BlobElement)
           blobs == Element("blobs", both)
           marker == IF nx = <<>> THEN Empty("nextmarker") ELSE Element("nextmarker", Text(nx))
<1>1. /\ Tags \subseteq V /\ answer.blobs \subseteq V /\ answer.folders \subseteq V /\ nx \in V
      /\ (\A k \in answer.blobs : AsRead(k) \in V) /\ (\A k \in answer.folders : AsRead(k) \in V)
  BY DEF ReadOf
<1>2. "enumerationresults" \in V /\ "blobs" \in V /\ "nextmarker" \in V
  BY DEF Tags
<1> HIDE DEF V, bl, fo
<1>3. /\ Written(answer.folders, PrefixElement) \in Seq(Words(V))
      /\ \E last : Reads("azure", Between({}, {}, <<>>, "blobs"), Written(answer.folders, PrefixElement),
                         Between({}, fo, <<>>, last))
  BY <1>1, PrefixesAreRead DEF fo
<1>4. PICK last : Reads("azure", Between({}, {}, <<>>, "blobs"), Written(answer.folders, PrefixElement),
                        Between({}, fo, <<>>, last))
  BY <1>3
<1>5. /\ Written(answer.blobs, BlobElement) \in Seq(Words(V))
      /\ \E end : Reads("azure", Between({}, fo, <<>>, last), Written(answer.blobs, BlobElement),
                        Between(bl, fo, <<>>, end))
  BY <1>1, BlobsAreRead DEF bl
<1>6. PICK end : Reads("azure", Between({}, fo, <<>>, last), Written(answer.blobs, BlobElement),
                       Between(bl, fo, <<>>, end))
  BY <1>5
<1>7. /\ both \in Seq(Words(V))
      /\ Reads("azure", Between({}, {}, <<>>, "blobs"), both, Between(bl, fo, <<>>, end))
  BY <1>3, <1>4, <1>5, <1>6, ReadOneAfterTheOther
<1> HIDE DEF both
<1>8. /\ ReadNext("azure", Between({}, {}, <<>>, ""), Tag("start", "blobs")) = Between({}, {}, <<>>, "blobs")
      /\ ReadNext("azure", Between(bl, fo, <<>>, end), Tag("end", "blobs")) = Between(bl, fo, <<>>, "")
  <2>1. ReadNext("azure", Between({}, {}, <<>>, ""), Tag("start", "blobs")) = Between({}, {}, <<>>, "blobs")
    BY DEF ReadNext, ListOn, Reader, Opens, Closes, TextIsRead, Tag, Between
  <2>2. ReadNext("azure", Between(bl, fo, <<>>, end), Tag("end", "blobs")) = Between(bl, fo, <<>>, "")
    BY DEF ReadNext, ListOn, Reader, Opens, Closes, TextIsRead, Tag, Between
  <2> QED BY <2>1, <2>2
<1>9. blobs \in Seq(Words(V)) /\ Reads("azure", Between({}, {}, <<>>, ""), blobs, Between(bl, fo, <<>>, ""))
  <2>1. Reads("azure", ReadNext("azure", Between({}, {}, <<>>, ""), Tag("start", "blobs")), both,
              Between(bl, fo, <<>>, end))
    BY <1>7, <1>8
  <2> QED BY <2>1, <1>2, <1>7, <1>8, ElementIsRead
<1> HIDE DEF blobs
<1>10. marker \in Seq(Words(V)) /\ Reads("azure", Between(bl, fo, <<>>, ""), marker, Between(bl, fo, nx, ""))
  <2>1. CASE nx = <<>>
    <3>1. marker = <<Tag("empty", "nextmarker")>>
      BY <2>1 DEF Empty, Tag
    <3>2. ReadNext("azure", Between(bl, fo, <<>>, ""), Tag("empty", "nextmarker")) = Between(bl, fo, <<>>, "")
      BY DEF ReadNext, ListOn, Reader, Opens, Closes, TextIsRead, Tag, Between
    <3>3. Reads("azure", Between(bl, fo, <<>>, ""), <<Tag("empty", "nextmarker")>>, Between(bl, fo, <<>>, ""))
      BY <3>2, OneIsRead
    <3>4. Tag("empty", "nextmarker") \in Words(V)
      BY <1>2, TagsAreWords
    <3>5. <<Tag("empty", "nextmarker")>> \in Seq(Words(V))
      BY <3>4
    <3> HIDE DEF marker
    <3> QED BY <3>1, <3>3, <3>5, <2>1
  <2>2. CASE nx # <<>>
    <3> DEFINE in == Between(bl, fo, <<>>, "nextmarker")
               then == Between(bl, fo, nx, "nextmarker")
    <3>1. /\ ReadNext("azure", Between(bl, fo, <<>>, ""), Tag("start", "nextmarker")) = in
          /\ ReadNext("azure", in, Tag("text", nx)) = then
          /\ ReadNext("azure", then, Tag("end", "nextmarker")) = Between(bl, fo, nx, "")
      <4>1. ReadNext("azure", Between(bl, fo, <<>>, ""), Tag("start", "nextmarker")) = in
        BY DEF ReadNext, ListOn, Reader, Opens, Closes, TextIsRead, Tag, Between
      <4>2. ReadNext("azure", in, Tag("text", nx)) = then
        BY DEF ReadNext, ListOn, Reader, Opens, Closes, TextIsRead, Tag, Between
      <4>3. ReadNext("azure", then, Tag("end", "nextmarker")) = Between(bl, fo, nx, "")
        BY DEF ReadNext, ListOn, Reader, Opens, Closes, TextIsRead, Tag, Between
      <4> QED BY <4>1, <4>2, <4>3
    <3> HIDE DEF in, then
    <3>2. Text(nx) \in Seq(Words(V)) /\ Reads("azure", in, Text(nx), then)
      BY <3>1, <1>1, TextIsWritten
    <3>3. /\ Element("nextmarker", Text(nx)) \in Seq(Words(V))
          /\ Reads("azure", Between(bl, fo, <<>>, ""), Element("nextmarker", Text(nx)), Between(bl, fo, nx, ""))
      BY <3>1, <3>2, <1>2, ElementIsRead
    <3> QED BY <3>3, <2>2
  <2> QED BY <2>1, <2>2
<1> HIDE DEF marker
<1>11. blobs \o marker \in Seq(Words(V)) /\ Reads("azure", Between({}, {}, <<>>, ""), blobs \o marker, Between(bl, fo, nx, ""))
  <2> DEFINE W == Words(V)
  <2> HIDE DEF W
  <2>0. blobs \in Seq(W) /\ marker \in Seq(W)
    BY <1>9, <1>10 DEF W
  <2>1. blobs \o marker \in Seq(Words(V))
    BY <2>0 DEF W
  <2> QED BY <2>1, <1>9, <1>10, ReadOneAfterTheOther
<1>12. /\ ReadNext("azure", ListingToRead, Tag("start", "enumerationresults")) = Between({}, {}, <<>>, "")
       /\ ReadNext("azure", Between(bl, fo, nx, ""), Tag("end", "enumerationresults")) = Between(bl, fo, nx, "")
  <2>1. ReadNext("azure", ListingToRead, Tag("start", "enumerationresults")) = Between({}, {}, <<>>, "")
    BY DEF ReadNext, ListOn, Opens, Tag, ListingToRead, Listing, Between, Reader
  <2>2. ReadNext("azure", Between(bl, fo, nx, ""), Tag("end", "enumerationresults")) = Between(bl, fo, nx, "")
    BY DEF ReadNext, ListOn, Reader, Opens, Closes, TextIsRead, Tag, Between
  <2> QED BY <2>1, <2>2
<1>13. /\ Element("enumerationresults", blobs \o marker) \in Seq(Words(V))
       /\ Reads("azure", ListingToRead, Element("enumerationresults", blobs \o marker), Between(bl, fo, nx, ""))
  <2>1. Reads("azure", ReadNext("azure", ListingToRead, Tag("start", "enumerationresults")),
              blobs \o marker, Between(bl, fo, nx, ""))
    BY <1>11, <1>12
  <2> QED BY <2>1, <1>2, <1>11, <1>12, ElementIsRead
<1>14. EnumerationOf(answer) = Element("enumerationresults", blobs \o marker)
  BY DEF EnumerationOf, blobs, both, marker
<1>15. /\ Between(bl, fo, nx, "").isListing
       /\ Between(bl, fo, nx, "").listing = [blobs |-> bl, folders |-> fo, next |-> nx]
  BY DEF Between, Reader
<1>16. parse_listing(EnumerationOf(answer)) = [blobs |-> bl, folders |-> fo, next |-> nx]
  BY <1>13, <1>14, <1>15, ListingIs
<1> QED BY <1>16 DEF bl, fo

-----------------------------------------------------------------------------
(* The types of the variables, and how far an operation may have got. *)

Phases == {"idle", "sending", "filling", "leafing", "probing", "heading", "listing",
           "copying", "deleting", "done", "failed"}
Trees == [Keys -> Contents \cup {None}]

Types ==
    /\ make \in Makes
    /\ objects \in Trees
    /\ op \in [Tasks -> Ops] /\ \A t \in Tasks : op[t] \in Wishes[t]
    /\ phase \in [Tasks -> Phases]
    /\ DOMAIN folder = Tasks /\ DOMAIN keys = Tasks /\ DOMAIN moved = Tasks
    /\ DOMAIN stood = Tasks /\ DOMAIN meant = Tasks /\ DOMAIN cursor = Tasks

Course(t) ==
    /\ phase[t] = "idle" => meant[t] = {}
    /\ meant[t] # {} => IsObjectStore
    /\ phase[t] \in {"leafing", "probing", "listing", "copying", "deleting"} => IsObjectStore
    /\ phase[t] = "sending" /\ op[t].do = "rename" => ~IsObjectStore
    /\ op[t].do = "rename" /\ phase[t] \notin {"idle", "failed"} => ~IsPrefix(op[t].at, op[t].to)
    /\ phase[t] = "listing" => moved[t] = {} /\ folder[t] /\ keys[t] \subseteq Under(op[t].at)
    /\ phase[t] = "copying" =>
          /\ op[t].do = "rename"
          /\ folder[t] => keys[t] \subseteq Under(op[t].at)
          /\ ~folder[t] => keys[t] = {File(op[t].at)} /\ File(op[t].at) \in Keys

Courses == \A t \in Tasks : Course(t)

Kind == ~IsObjectStore => Parented(objects)

Inv == Types /\ Courses /\ Kind

LEMMA OpIs ==
    ASSUME Types, NEW t \in Tasks
    PROVE  /\ op[t].do \in {"write", "read", "list", "delete", "create", "rename"}
           /\ op[t].at \in Paths \cup {<<>>} /\ op[t].to \in Paths
           /\ op[t].do = "rename" /\ ~IsPrefix(op[t].at, op[t].to) => Fits(op[t].at, op[t].to)
BY StoresAssumption DEF Types, Ops, Fits

LEMMA TreesAgain ==
    ASSUME NEW t \in Trees
    PROVE  /\ \A k, c : c \in Contents \cup {None} => Put(t, k, c) \in Trees
           /\ \A ks : Without(t, ks) \in Trees
           /\ \A p \in Paths, q \in Paths : CanRename(t, p, q) => Moved(t, p, q) \in Trees
<1>1. \A k, c : c \in Contents \cup {None} => Put(t, k, c) \in Trees
  BY DEF Put, Trees
<1>2. \A ks : Without(t, ks) \in Trees
  BY DEF Without, Trees
<1>3. ASSUME NEW p \in Paths, NEW q \in Paths, CanRename(t, p, q)
      PROVE  Moved(t, p, q) \in Trees
  <2>1. \A k \in Moving(t, p) : k \in Keys
    BY <1>3, WhatMoves
  <2> QED BY <2>1 DEF Moved, Trees
<1> QED BY <1>1, <1>2, <1>3

(* What one request makes of what is kept. *)
LEMMA ResultIs ==
    ASSUME Inv, NEW t \in Tasks, phase[t] = "sending", Takes(t)
    PROVE  /\ Result(t) \in Trees
           /\ ~IsObjectStore => Parented(Result(t))
           /\ op[t].do = "rename" => /\ op[t].at \in Paths /\ ~IsObjectStore
                                     /\ CanRename(objects, op[t].at, op[t].to)
                                     /\ Fits(op[t].at, op[t].to)
<1> DEFINE o == op[t]
<1>1. /\ o.do \in {"write", "read", "list", "delete", "create", "rename"}
      /\ o.at \in Paths \cup {<<>>} /\ o.to \in Paths
      /\ o.do = "rename" /\ ~IsPrefix(o.at, o.to) => Fits(o.at, o.to)
  BY OpIs DEF Inv
<1>2. objects \in Trees /\ t \in Contents /\ t \in Contents \cup {None}
  BY StoresAssumption DEF Inv, Types
<1>3. Course(t)
  BY DEF Inv, Courses
<1> HIDE DEF o
<1>4. CASE o.do = "write"
  <2>1. Result(t) = Put(objects, File(o.at), t)
    BY <1>4 DEF Result, o
  <2>2. ~IsObjectStore => CanWrite(objects, o.at)
    BY <1>4 DEF Takes, Lawful, o
  <2>3. ~IsObjectStore => HasParent(objects, File(o.at).path)
    BY <2>2, KeysApart DEF CanWrite
  <2> QED BY <2>1, <2>3, <1>2, <1>4, TreesAgain, ParentedAfterPut DEF Inv, Kind, Trees, o
<1>5. CASE o.do = "create"
  <2>1. Result(t) = Put(objects, Folder(o.at), t)
    BY <1>5 DEF Result, o
  <2>2. ~IsObjectStore => CanCreate(objects, o.at)
    BY <1>5 DEF Takes, Lawful, o
  <2>3. ~IsObjectStore => HasParent(objects, Folder(o.at).path)
    BY <2>2, KeysApart DEF CanCreate
  <2> QED BY <2>1, <2>3, <1>2, <1>5, TreesAgain, ParentedAfterPut DEF Inv, Kind, Trees, o
<1>6. CASE o.do = "delete"
  <2>1. Result(t) = Without(objects, Moving(objects, o.at))
    BY <1>6 DEF Result, o
  <2>2. ASSUME ~IsObjectStore
        PROVE  There(objects, File(o.at)) \/ There(objects, Folder(o.at))
    <3>1. Finds(t) \/ CanDelete(objects, o.at)
      BY <2>2, <1>6 DEF Takes, Lawful, o
    <3> QED BY <3>1 DEF Finds, Held, CanDelete, o
  <2>3. ~IsObjectStore => o.at \in Paths
    <3>1. File(o.at) \in Keys \/ Folder(o.at) \in Keys => o.at \in Paths
      BY KeysApart DEF Paths
    <3> QED BY <3>1, <2>2 DEF There
  <2>4. ~IsObjectStore => Parented(Result(t))
    BY <2>1, <2>3, ParentedWithout DEF Inv, Kind
  <2> QED BY <2>1, <2>4, <1>2, <1>6, TreesAgain DEF o
<1>7. CASE o.do = "rename"
  <2>1. Result(t) = Moved(objects, o.at, o.to)
    BY <1>7 DEF Result, o
  <2>2. ~IsObjectStore /\ ~IsPrefix(o.at, o.to)
    BY <1>3, <1>7 DEF Course, o
  <2>3. CanRename(objects, o.at, o.to)
    BY <2>2, <1>7 DEF Takes, Lawful, o
  <2>4. o.at \in Paths /\ Fits(o.at, o.to)
    BY <2>2, <2>3, <1>1, <1>7 DEF CanRename
  <2>5. Parented(Result(t))
    BY <2>1, <2>2, <2>3, <2>4, <1>1, ParentedMoved DEF Inv, Kind
  <2>6. Result(t) \in Trees
    BY <2>1, <2>3, <2>4, <1>1, <1>2, TreesAgain
  <2> QED BY <2>2, <2>3, <2>4, <2>5, <2>6 DEF o
<1>8. CASE o.do \in {"read", "list"}
  BY <1>2, <1>8 DEF Result, Inv, Kind, o
<1> QED BY <1>1, <1>4, <1>5, <1>6, <1>7, <1>8

-----------------------------------------------------------------------------
(* A page names some of what is left, and Azure's answer is understood.    *)

LEMMA KeysAreFinite == IsFiniteSet(Keys)
<1> DEFINE n == Len(KeyOrder)
<1>1. KeyOrder \in [1 .. n -> Keys] /\ n \in Nat /\ Range(KeyOrder) = Keys
  BY StoresAssumption
<1>2. \A k \in Keys : \E i \in 1 .. n : KeyOrder[i] = k
  BY <1>1 DEF Range
<1>3. KeyOrder \in Surjection(1 .. n, Keys)
  BY <1>1, <1>2 DEF Surjection
<1>4. IsFiniteSet(1 .. n)
  BY <1>1, FS_Interval
<1> QED BY <1>3, <1>4, FS_Surjection

(* No name here has a reference in it. *)
LEMMA ReadAsItIs ==
    ASSUME NEW ks, ks \subseteq Keys
    PROVE  ReadOf(ks) = ks /\ \A k \in ks : AsRead(k) = k
BY NamesArePlain DEF ReadOf, AsRead

LEMMA HeardIs ==
    ASSUME NEW rest, rest \subseteq Keys, IsFiniteSet(rest), NEW prefixes
    PROVE  /\ Heard(Answered(rest, prefixes)) = Answered(rest, prefixes)
           /\ Answered(rest, prefixes).blobs = First(rest, PageSize) \ prefixes
           /\ Answered(rest, prefixes).folders = First(rest, PageSize) \cap prefixes
           /\ First(rest, PageSize) \subseteq rest
<1> DEFINE answer == Answered(rest, prefixes)
           page == First(rest, PageSize)
<1>1. /\ answer.blobs = page \ prefixes /\ answer.folders = page \cap prefixes
      /\ answer = [blobs |-> answer.blobs, folders |-> answer.folders, next |-> answer.next]
  BY DEF Answered
<1>2. page \subseteq rest
  BY DEF First
<1> HIDE DEF answer, page
<1>3. IsFiniteSet(answer.blobs) /\ IsFiniteSet(answer.folders)
  BY <1>1, <1>2, FS_Subset
<1>4. parse_listing(EnumerationOf(answer)) = answer
  <2>1. answer.blobs \subseteq Keys /\ answer.folders \subseteq Keys
    BY <1>1, <1>2
  <2>2. ReadOf(answer.blobs) = answer.blobs /\ ReadOf(answer.folders) = answer.folders
    BY <2>1, ReadAsItIs
  <2>3. parse_listing(EnumerationOf(answer)) =
            [blobs |-> ReadOf(answer.blobs), folders |-> ReadOf(answer.folders), next |-> answer.next]
    BY <1>1, <1>3, AzureIsUnderstood
  <2> QED BY <1>1, <2>2, <2>3
<1> QED BY <1>1, <1>2, <1>4 DEF Heard, answer, page

-----------------------------------------------------------------------------
(* Inv holds, whatever happens. *)

LEMMA InvInit == Init => Inv
<1> SUFFICES ASSUME Init PROVE Inv
  OBVIOUS
<1>1. Types
  BY StoresAssumption DEF Init, Types, Trees, Phases
<1>2. Courses
  BY DEF Init, Courses, Course
<1>3. Kind
  <2> SUFFICES ASSUME ~IsObjectStore PROVE Parented(AtFirst)
    BY DEF Kind, Init
  <2>1. WellFormed(AtFirst)
    BY StoresAssumption DEF Init, IsObjectStore
  <2> QED BY <2>1 DEF WellFormed, Parented
<1> QED BY <1>1, <1>2, <1>3 DEF Inv

(* What another operation does leaves the course of this one alone. *)
LEMMA CourseOfOthers ==
    ASSUME NEW u, Course(u), make' = make, phase'[u] = phase[u], op'[u] = op[u],
           folder'[u] = folder[u], keys'[u] = keys[u], moved'[u] = moved[u], meant'[u] = meant[u]
    PROVE  Course(u)'
BY DEF Course, IsObjectStore

(* What a step never changes. *)
Apart(t) ==
    /\ make' = make /\ op' = op
    /\ \A u \in Tasks \ {t} :
          /\ phase'[u] = phase[u] /\ folder'[u] = folder[u] /\ keys'[u] = keys[u]
          /\ moved'[u] = moved[u] /\ meant'[u] = meant[u] /\ cursor'[u] = cursor[u]
    /\ phase' \in [Tasks -> Phases]
    /\ DOMAIN folder' = Tasks /\ DOMAIN keys' = Tasks /\ DOMAIN moved' = Tasks
    /\ DOMAIN meant' = Tasks /\ DOMAIN cursor' = Tasks

LEMMA OthersStay ==
    ASSUME Types, NEW t \in Tasks, Task(t)
    PROVE  Apart(t)
<1> USE DEF Types, Apart, Step, mine, history, Phases
<1>1. CASE Begin(t)
  BY <1>1 DEF Begin
<1>2. CASE RefuseInside(t)
  BY <1>2 DEF RefuseInside
<1>3. CASE FailQuietly(t)
  BY <1>3 DEF FailQuietly, Fail, NothingKept
<1>4. CASE Send(t)
  BY <1>4 DEF Send, Change, Done
<1>5. CASE Truncate(t)
  BY <1>5 DEF Truncate, Change
<1>6. CASE Fill(t)
  BY <1>6 DEF Fill, Change, Done
<1>7. CASE LeafPage(t) /\ NothingKept
  <2>1. keys' = [keys EXCEPT ![t] = keys'[t]] /\ UNCHANGED <<make, op, folder, moved, meant>>
    BY <1>7 DEF LeafPage, NothingKept, Done
  <2>2. phase' = [phase EXCEPT ![t] = "done"] \/ phase' = phase
    BY <1>7 DEF LeafPage, Done
  <2>3. cursor' = cursor \/ cursor' = [cursor EXCEPT ![t] = cursor'[t]]
    BY <1>7 DEF LeafPage
  <2> QED BY <2>1, <2>2, <2>3
<1>8. CASE HeadFile(t) /\ NothingKept
  BY <1>8 DEF HeadFile, NothingKept
<1>9. CASE HeadNothing(t) /\ NothingKept
  BY <1>9 DEF HeadNothing, NothingKept
<1>10. CASE StatOne(t) /\ NothingKept
  BY <1>10 DEF StatOne, NothingKept
<1>11. CASE Probe(t) /\ NothingKept
  BY <1>11 DEF Probe, NothingKept
<1>12. CASE Page(t) /\ NothingKept
  <2>1. keys' = [keys EXCEPT ![t] = keys'[t]] /\ UNCHANGED <<make, op, folder, moved, meant>>
    BY <1>12 DEF Page, NothingKept
  <2>2. \/ phase' = [phase EXCEPT ![t] = "copying"] \/ phase' = [phase EXCEPT ![t] = "deleting"]
        \/ phase' = phase
    BY <1>12 DEF Page
  <2>3. cursor' = cursor \/ cursor' = [cursor EXCEPT ![t] = cursor'[t]]
    BY <1>12 DEF Page
  <2> QED BY <2>1, <2>2, <2>3
<1>13. CASE Copy(t)
  BY <1>13 DEF Copy, CopyEach, Change
<1>14. CASE CopyFails(t)
  BY <1>14 DEF CopyFails, Fail, CopyEach, Change
<1>15. CASE AllCopied(t)
  BY <1>15 DEF AllCopied
<1>16. CASE DeleteSome(t)
  BY <1>16 DEF DeleteSome, DeleteEach, Change
<1>17. CASE DeleteFails(t)
  BY <1>17 DEF DeleteFails, Fail, DeleteEach, Change
<1>18. CASE AllDeleted(t)
  BY <1>18 DEF AllDeleted, Done, NothingKept
<1> QED BY <1>1, <1>2, <1>3, <1>4, <1>5, <1>6, <1>7, <1>8, <1>9, <1>10, <1>11, <1>12, <1>13,
           <1>14, <1>15, <1>16, <1>17, <1>18 DEF Task, Asking

(* What is kept stays a tree, and outside the object stores one in which   *)
(* everything lies in a folder.                                            *)
LEMMA TreesStep ==
    ASSUME Inv, NEW t \in Tasks, Task(t)
    PROVE  objects' \in Trees /\ Kind' /\ DOMAIN stood' = Tasks
<1>1. objects \in Trees /\ DOMAIN stood = Tasks
  BY DEF Inv, Types
<1>2. make' = make
  BY OthersStay DEF Inv, Apart
<1>3. t \in Contents /\ t # None /\ Torn[t] \in Contents /\ Torn[t] # None
  BY StoresAssumption, TreeAssumption
<1>4. CASE objects' = objects /\ (stood' = stood \/ DOMAIN stood' = Tasks)
  BY <1>1, <1>2, <1>4 DEF Inv, Kind, IsObjectStore, Parented, HasParent, HasFolder, There
<1>5. ASSUME NEW after \in Trees, Change(t, after), ~IsObjectStore => Parented(after)
      PROVE  objects' \in Trees /\ Kind' /\ DOMAIN stood' = Tasks
  BY <1>2, <1>5 DEF Change, Kind, IsObjectStore, Parented, HasParent, HasFolder, There
<1>6. CASE Begin(t)
  BY <1>1, <1>4, <1>6 DEF Begin
<1>7. CASE RefuseInside(t) \/ FailQuietly(t) \/ (Asking(t) /\ NothingKept) \/ AllDeleted(t) \/ AllCopied(t)
  BY <1>4, <1>7 DEF RefuseInside, FailQuietly, NothingKept, AllDeleted, AllCopied, history
<1>8. CASE Send(t)
  <2>1. Result(t) \in Trees /\ (~IsObjectStore => Parented(Result(t))) /\ Change(t, Result(t))
    BY <1>8, ResultIs DEF Send
  <2> QED BY <2>1, <1>5
<1>9. CASE Truncate(t)
  <2> DEFINE after == Put(objects, File(op[t].at), Torn[t])
  <2>1. Change(t, after) /\ make = "sftp" /\ op[t].do = "write" /\ Takes(t)
    BY <1>9 DEF Truncate
  <2>2. ~IsObjectStore
    BY <2>1 DEF IsObjectStore, ObjectStores
  <2>3. CanWrite(objects, op[t].at)
    BY <2>1, <2>2 DEF Takes, Lawful
  <2>4. HasParent(objects, File(op[t].at).path)
    BY <2>3, KeysApart DEF CanWrite
  <2>5. Parented(after)
    BY <2>2, <2>4, <1>1, <1>3, ParentedAfterPut DEF Inv, Kind, Trees
  <2>6. after \in Trees
    BY <1>1, <1>3, TreesAgain
  <2> HIDE DEF after
  <2> QED BY <2>1, <2>5, <2>6, <1>5
<1>10. CASE Fill(t)
  <2> DEFINE after == [k \in Keys |-> IF objects[k] = Torn[t] THEN t ELSE objects[k]]
  <2>1. Change(t, after)
    BY <1>10 DEF Fill
  <2>2. after \in Trees
    BY <1>1, <1>3 DEF Trees
  <2>3. \A k \in Keys : after[k] # None <=> objects[k] # None
    BY <1>3
  <2> HIDE DEF after
  <2>4. ~IsObjectStore => Parented(after)
    BY <2>3, ParentedGrows DEF Inv, Kind, Parented
  <2> QED BY <2>1, <2>2, <2>4, <1>5
<1>11. CASE Copy(t) \/ CopyFails(t)
  <2>1. phase[t] = "copying"
    BY <1>11 DEF Copy, CopyFails
  <2>2. IsObjectStore
    BY <2>1 DEF Inv, Courses, Course
  <2>3. PICK ks \in SUBSET Held(InTheAir(t)) : CopyEach(t, ks)
    BY <1>11 DEF Copy, CopyFails
  <2>4. \A k \in ks : k \in Keys
    BY DEF Held, There
  <2>5. Copied(t, ks) \in Trees
    <3>1. ASSUME NEW k \in Keys, \E j \in ks : Target(t, j) = k
          PROVE  objects[CHOOSE j \in ks : Target(t, j) = k] \in Contents \cup {None}
      <4>1. (CHOOSE j \in ks : Target(t, j) = k) \in Keys
        BY <3>1, <2>4
      <4> QED BY <4>1, <1>1 DEF Trees
    <3> QED BY <3>1, <1>1 DEF Copied, Trees
  <2>6. Change(t, Copied(t, ks))
    BY <2>3 DEF CopyEach
  <2> QED BY <2>2, <2>5, <2>6, <1>5
<1>12. CASE DeleteSome(t) \/ DeleteFails(t)
  <2>1. phase[t] = "deleting"
    BY <1>12 DEF DeleteSome, DeleteFails
  <2>2. IsObjectStore
    BY <2>1 DEF Inv, Courses, Course
  <2>3. PICK ks : DeleteEach(t, ks)
    BY <1>12 DEF DeleteSome, DeleteFails
  <2>4. Change(t, Without(objects, ks)) /\ Without(objects, ks) \in Trees
    BY <2>3, <1>1, TreesAgain DEF DeleteEach
  <2> QED BY <2>2, <2>4, <1>5
<1> QED BY <1>6, <1>7, <1>8, <1>9, <1>10, <1>11, <1>12 DEF Task

(* What an operation may have found by the time it has come so far.        *)
LEMMA CourseStep ==
    ASSUME Inv, NEW t \in Tasks, Task(t)
    PROVE  Course(t)'
<1>1. make' = make /\ op' = op /\ Apart(t)
  BY OthersStay DEF Inv, Apart
<1>2. Course(t) /\ Types
  BY DEF Inv, Courses
<1> USE DEF Step, mine, history
<1>3. (IsObjectStore)' = IsObjectStore
  BY <1>1 DEF IsObjectStore
<1>4. CASE /\ UNCHANGED <<meant, folder, keys, moved>>
           /\ phase'[t] = "failed" \/ (phase'[t] = "done" /\ phase[t] \notin {"idle", "failed"})
  BY <1>1, <1>2, <1>3, <1>4 DEF Course
<1>5. CASE Begin(t)
  <2>1. meant' = meant /\ phase[t] = "idle" /\ ~(op[t].do = "rename" /\ IsPrefix(op[t].at, op[t].to))
    BY <1>5 DEF Begin
  <2>2. phase'[t] = (CASE op[t].do = "write" -> "sending"
                 [] op[t].do = "list" /\ IsObjectStore -> "leafing"
                 [] op[t].do = "create" /\ IsObjectStore -> "probing"
                 [] op[t].do \in {"delete", "rename"} /\ IsObjectStore -> "heading"
                 [] op[t].do = "delete" /\ make = "sftp" -> "heading"
                 [] OTHER -> "sending")
    BY <1>2, <1>5 DEF Begin, Types
  <2>3. /\ phase'[t] \in {"sending", "leafing", "probing", "heading"}
        /\ phase'[t] \in {"leafing", "probing"} => IsObjectStore
        /\ phase'[t] = "sending" /\ op[t].do = "rename" => ~IsObjectStore
    BY <2>2
  <2> QED BY <2>1, <2>3, <1>1, <1>2, <1>3 DEF Course
<1>6. CASE RefuseInside(t)
  BY <1>2, <1>4, <1>6 DEF RefuseInside, Types
<1>7. CASE FailQuietly(t)
  BY <1>2, <1>4, <1>7 DEF FailQuietly, Fail, NothingKept, Types
<1>8. CASE Send(t)
  BY <1>2, <1>4, <1>8 DEF Send, Done, Change, Types
<1>9. CASE Truncate(t)
  BY <1>1, <1>2, <1>3, <1>9 DEF Truncate, Change, Types, Course
<1>10. CASE Fill(t)
  BY <1>2, <1>4, <1>10 DEF Fill, Done, Change, Types
<1>11. CASE LeafPage(t) /\ NothingKept
  BY <1>1, <1>2, <1>3, <1>11 DEF LeafPage, Done, NothingKept, Types, Course
<1>12. CASE HeadFile(t) /\ NothingKept
  <2>1. /\ phase'[t] = (IF op[t].do = "rename" /\ ~clearing[t] THEN "copying" ELSE "deleting")
        /\ folder' = [folder EXCEPT ![t] = FALSE] /\ keys'[t] = {File(op[t].at)}
        /\ meant' = meant /\ IsObjectStore /\ File(op[t].at) \in Keys /\ phase[t] = "heading"
    BY <1>2, <1>12 DEF HeadFile, NothingKept, Types, There
  <2>2. ~folder'[t]
    BY <2>1, <1>2 DEF Types
  <2>3. phase'[t] \in {"copying", "deleting"} /\ (phase'[t] = "copying" => op[t].do = "rename")
    BY <2>1
  <2> QED BY <2>1, <2>2, <2>3, <1>1, <1>2, <1>3 DEF Course
<1>13. CASE HeadNothing(t) /\ NothingKept
  BY <1>1, <1>2, <1>3, <1>13 DEF HeadNothing, NothingKept, Types, Course
<1>14. CASE StatOne(t) /\ NothingKept
  BY <1>1, <1>2, <1>3, <1>14 DEF StatOne, NothingKept, Types, Course
<1>15. CASE Probe(t) /\ NothingKept
  <2>1. CASE op[t].do = "create"
    BY <2>1, <1>1, <1>2, <1>3, <1>15 DEF Probe, NothingKept, Types, Course
  <2>2. CASE op[t].do # "create"
    <3>1. /\ phase'[t] = "listing" /\ folder' = [folder EXCEPT ![t] = TRUE]
          /\ keys'[t] = {} /\ moved'[t] = {} /\ meant' = meant /\ phase[t] = "probing"
      BY <2>2, <1>2, <1>15 DEF Probe, NothingKept, Types
    <3>2. folder'[t]
      BY <3>1, <1>2 DEF Types
    <3> QED BY <3>1, <3>2, <1>1, <1>2, <1>3 DEF Course
  <2> QED BY <2>1, <2>2
<1>16. CASE Page(t) /\ NothingKept
  <2> DEFINE rest == {k \in Held(Under(op[t].at)) : Rank(k) > cursor[t]}
             answer == Heard(Answered(rest, {}))
  <2>1. rest \subseteq Under(op[t].at) /\ rest \subseteq Keys
    BY DEF Held, There
  <2>2. IsFiniteSet(rest)
    BY <2>1, KeysAreFinite, FS_Subset
  <2>3. /\ phase[t] = "listing" /\ keys' = [keys EXCEPT ![t] = @ \cup answer.blobs]
        /\ folder' = folder /\ moved' = moved /\ meant' = meant
        /\ \/ phase' = phase
           \/ Step(t, IF op[t].do = "rename" /\ ~clearing[t] THEN "copying" ELSE "deleting")
    BY <1>16 DEF Page, NothingKept
  <2> HIDE DEF rest
  <2>4. answer.blobs \subseteq rest
    BY <2>1, <2>2, HeardIs
  <2> HIDE DEF answer
  <2>5. keys'[t] = keys[t] \cup answer.blobs
    BY <2>3, <1>2 DEF Types
  <2>6. keys'[t] \subseteq Under(op[t].at) /\ folder[t] /\ moved'[t] = {} /\ folder'[t]
    BY <2>1, <2>3, <2>4, <2>5, <1>2 DEF Course
  <2>7. \/ phase'[t] = "listing"
        \/ phase'[t] = "deleting"
        \/ phase'[t] = "copying" /\ op[t].do = "rename"
    BY <2>3, <1>2 DEF Types
  <2> QED BY <2>3, <2>6, <2>7, <1>1, <1>2, <1>3 DEF Course
<1>17. CASE Copy(t)
  BY <1>1, <1>2, <1>3, <1>17 DEF Copy, CopyEach, Change, Types, Course
<1>18. CASE CopyFails(t)
  BY <1>2, <1>4, <1>18 DEF CopyFails, Fail, CopyEach, Change, Types
<1>19. CASE AllCopied(t)
  <2>1. phase'[t] = IF make = "s3" THEN "deleting" ELSE "heading"
    BY <1>2, <1>19 DEF AllCopied, Types
  <2>2. phase[t] = "copying" /\ meant'[t] = keys[t]
    BY <1>2, <1>19 DEF AllCopied, Types
  <2>3. phase'[t] \in {"deleting", "heading"}
    BY <2>1
  <2> QED BY <2>2, <2>3, <1>1, <1>2, <1>3 DEF Course
<1>20. CASE DeleteSome(t)
  BY <1>1, <1>2, <1>3, <1>20 DEF DeleteSome, DeleteEach, Change, Types, Course
<1>21. CASE DeleteFails(t)
  BY <1>2, <1>4, <1>21 DEF DeleteFails, Fail, DeleteEach, Change, Types
<1>22. CASE AllDeleted(t)
  BY <1>2, <1>4, <1>22 DEF AllDeleted, Done, NothingKept, Types
<1> QED BY <1>5, <1>6, <1>7, <1>8, <1>9, <1>10, <1>11, <1>12, <1>13, <1>14, <1>15, <1>16,
           <1>17, <1>18, <1>19, <1>20, <1>21, <1>22 DEF Task, Asking

LEMMA InvStep == Inv /\ [Next]_vars => Inv'
<1> SUFFICES ASSUME Inv, [Next]_vars PROVE Inv'
  OBVIOUS
<1>1. CASE UNCHANGED vars
  BY <1>1 DEF Inv, Types, Courses, Course, Kind, IsObjectStore, Parented, HasParent, HasFolder,
              There, vars, mine, history
<1>2. ASSUME NEW t \in Tasks, Task(t)
      PROVE  Inv'
  <2>1. Apart(t)
    BY <1>2, OthersStay DEF Inv
  <2>2. objects' \in Trees /\ Kind' /\ DOMAIN stood' = Tasks
    BY <1>2, TreesStep
  <2>3. Types'
    BY <2>1, <2>2 DEF Inv, Types, Apart
  <2>4. ASSUME NEW u \in Tasks
        PROVE  Course(u)'
    <3>1. CASE u = t
      BY <3>1, <1>2, CourseStep
    <3>2. CASE u # t
      <4>1. /\ make' = make /\ op'[u] = op[u] /\ phase'[u] = phase[u] /\ folder'[u] = folder[u]
            /\ keys'[u] = keys[u] /\ moved'[u] = moved[u] /\ meant'[u] = meant[u] /\ Course(u)
        BY <3>2, <2>1 DEF Apart, Inv, Courses
      <4> QED BY <4>1, CourseOfOthers
    <3> QED BY <3>1, <3>2
  <2> QED BY <2>2, <2>3, <2>4 DEF Inv, Courses
<1> QED BY <1>1, <1>2 DEF Next

-----------------------------------------------------------------------------
(* Nothing is lost: what a file held at first is kept under some key that  *)
(* no renaming will take away because it has copied what was there - or    *)
(* somebody was rid of it.                                                 *)

(* What a renaming may take away as copied. *)
Pending(t) ==
    IF phase[t] = "copying" THEN moved[t] \cap stood[t]
    ELSE IF Live(t) THEN meant[t] \cap stood[t]
    ELSE {}

Safe(j) == \A u \in Tasks : j \notin Pending(u)
Place(c) == \E j \in Keys : ~j.folder /\ objects[j] = c /\ Safe(j)
Gone(c) == c \in excused \cup astray

Kept == \A k \in Keys : AtFirst[k] # None /\ ~k.folder => Gone(AtFirst[k]) \/ Place(AtFirst[k])

LEMMA KeptInit == Init => Kept
<1> SUFFICES ASSUME Init, NEW k \in Keys, AtFirst[k] # None, ~k.folder
             PROVE  Place(AtFirst[k])
  BY DEF Kept
<1>1. \A u \in Tasks : Pending(u) = {}
  BY DEF Init, Pending, Live, Over
<1> QED BY <1>1 DEF Init, Place, Safe

LEMMA GoneStays ==
    ASSUME Types, NEW t \in Tasks, Task(t), NEW c, Gone(c)
    PROVE  Gone(c)'
<1>1. excused \subseteq excused' /\ astray \subseteq astray'
  <2> USE DEF NothingKept, history, Excuse, CopyEach, DeleteEach
  <2>1. CASE Begin(t) \/ RefuseInside(t) \/ FailQuietly(t) \/ (Asking(t) /\ NothingKept) \/ AllCopied(t)
             \/ AllDeleted(t) \/ Fill(t)
    BY <2>1 DEF Begin, RefuseInside, FailQuietly, AllCopied, AllDeleted, Fill
  <2>2. CASE Send(t) \/ Truncate(t)
    BY <2>2 DEF Send, Truncate
  <2>3. CASE Copy(t) \/ CopyFails(t)
    BY <2>3 DEF Copy, CopyFails
  <2>4. CASE DeleteSome(t) \/ DeleteFails(t)
    <3>1. PICK ks : DeleteEach(t, ks)
      BY <2>4 DEF DeleteSome, DeleteFails
    <3>2. CASE op[t].do = "delete"
      BY <3>1, <3>2
    <3>3. CASE op[t].do # "delete"
      BY <3>1, <3>3
    <3> QED BY <3>2, <3>3
  <2> QED BY <2>1, <2>2, <2>3, <2>4 DEF Task
<1> QED BY <1>1 DEF Gone

(* What others do makes no more of this one's keys pending. *)
LEMMA StoodShrinks ==
    ASSUME Types, NEW t \in Tasks, Task(t), NEW u \in Tasks, Begin(t) => u # t
    PROVE  stood'[u] \subseteq stood[u]
<1> USE DEF NothingKept, history, Types
<1>1. CASE UNCHANGED stood
  BY <1>1
<1>2. CASE \E after : Change(t, after)
  BY <1>2 DEF Change
<1>3. CASE Begin(t)
  BY <1>3 DEF Begin
<1>4. CASE RefuseInside(t) \/ FailQuietly(t) \/ (Asking(t) /\ NothingKept) \/ AllCopied(t) \/ AllDeleted(t)
  BY <1>1, <1>4 DEF RefuseInside, FailQuietly, AllCopied, AllDeleted
<1>5. CASE Send(t) \/ Truncate(t) \/ Fill(t)
  BY <1>2, <1>5 DEF Send, Truncate, Fill
<1>6. CASE Copy(t) \/ CopyFails(t)
  BY <1>2, <1>6 DEF Copy, CopyFails, CopyEach
<1>7. CASE DeleteSome(t) \/ DeleteFails(t)
  BY <1>2, <1>7 DEF DeleteSome, DeleteFails, DeleteEach
<1> QED BY <1>3, <1>4, <1>5, <1>6, <1>7 DEF Task

LEMMA PendingOfOthers ==
    ASSUME Inv, NEW t \in Tasks, Task(t), NEW u \in Tasks, u # t
    PROVE  Pending(u)' \subseteq Pending(u)
<1>1. stood'[u] \subseteq stood[u]
  BY StoodShrinks DEF Inv
<1>2. phase'[u] = phase[u] /\ moved'[u] = moved[u] /\ meant'[u] = meant[u]
  BY OthersStay DEF Inv, Apart
<1> QED BY <1>1, <1>2 DEF Pending, Live

(* Only copying makes a key pending. *)
LEMMA PendingOfItsOwn ==
    ASSUME Inv, NEW t \in Tasks, Task(t), ~Copy(t)
    PROVE  Pending(t)' \subseteq Pending(t)
<1>1. Types /\ Course(t)
  BY DEF Inv, Courses
<1>2. ~Begin(t) => stood'[t] \subseteq stood[t]
  BY <1>1, StoodShrinks
<1> USE DEF Step
<1>3. CASE phase'[t] \in Over
  BY <1>3 DEF Pending, Live, Over
<1>4. CASE /\ phase[t] \notin Over \cup {"copying"} /\ meant'[t] = meant[t]
           /\ phase'[t] # "copying" /\ ~Begin(t)
  BY <1>2, <1>4 DEF Pending, Live
<1>5. CASE phase'[t] = "copying" /\ moved'[t] = {}
  BY <1>5 DEF Pending
<1>6. CASE Begin(t)
  <2>1. meant' = meant /\ meant[t] = {} /\ phase'[t] # "copying"
    BY <1>1, <1>6 DEF Begin, Course, Types
  <2> QED BY <2>1 DEF Pending
<1>7. CASE RefuseInside(t) \/ FailQuietly(t) \/ Send(t) \/ Fill(t) \/ CopyFails(t) \/ DeleteFails(t)
           \/ AllDeleted(t)
  <2>1. phase'[t] \in {"failed", "done"}
    BY <1>1, <1>7 DEF RefuseInside, FailQuietly, Fail, Send, Fill, Done, CopyFails, DeleteFails,
                      AllDeleted, Types
  <2> QED BY <2>1, <1>3 DEF Over
<1>8. CASE Truncate(t)
  <2>1. phase[t] = "sending" /\ phase'[t] = "filling" /\ meant' = meant /\ ~Begin(t)
    BY <1>1, <1>8 DEF Truncate, Change, Begin, Types
  <2> QED BY <2>1, <1>4 DEF Over
<1>9. CASE LeafPage(t) /\ NothingKept
  <2>1. phase[t] = "leafing" /\ phase'[t] \in {"leafing", "done"} /\ meant' = meant /\ ~Begin(t)
    BY <1>1, <1>9 DEF LeafPage, NothingKept, Done, Begin, Types
  <2> QED BY <2>1, <1>3, <1>4 DEF Over
<1>10. CASE HeadFile(t) /\ NothingKept
  <2>1. phase[t] = "heading" /\ moved'[t] = {} /\ meant' = meant /\ ~Begin(t)
    BY <1>1, <1>10 DEF HeadFile, NothingKept, Begin, Types
  <2>2. phase'[t] = "copying" \/ phase'[t] # "copying"
    OBVIOUS
  <2> QED BY <2>1, <2>2, <1>4, <1>5 DEF Over
<1>11. CASE (HeadNothing(t) \/ StatOne(t) \/ Probe(t)) /\ NothingKept
  <2>1. /\ phase[t] \in {"heading", "probing"} /\ phase'[t] \in {"probing", "sending", "listing"}
        /\ meant' = meant /\ ~Begin(t)
    BY <1>1, <1>11 DEF HeadNothing, StatOne, Probe, NothingKept, Begin, Types
  <2> QED BY <2>1, <1>4 DEF Over
<1>12. CASE Page(t) /\ NothingKept
  <2>1. phase[t] = "listing" /\ moved'[t] = {} /\ meant' = meant /\ ~Begin(t)
    BY <1>1, <1>12 DEF Page, NothingKept, Begin, Types, Course
  <2>2. phase'[t] = "copying" \/ phase'[t] # "copying"
    OBVIOUS
  <2> QED BY <2>1, <2>2, <1>4, <1>5 DEF Over
<1>13. CASE AllCopied(t)
  <2>1. /\ phase[t] = "copying" /\ moved[t] = keys[t] /\ meant'[t] = keys[t] /\ stood' = stood
        /\ phase'[t] # "copying"
    BY <1>1, <1>13 DEF AllCopied, AllMoved, Types
  <2> QED BY <2>1 DEF Pending
<1>14. CASE DeleteSome(t)
  <2>1. phase[t] = "deleting" /\ phase' = phase /\ meant' = meant /\ ~Begin(t)
    BY <1>1, <1>14 DEF DeleteSome, DeleteEach, Change, Begin, Types
  <2> QED BY <2>1, <1>4 DEF Over
<1> QED BY <1>6, <1>7, <1>8, <1>9, <1>10, <1>11, <1>12, <1>13, <1>14 DEF Task, Asking

(* A content that stays where it is kept, or is put where it is safe. *)
LEMMA StaysKept ==
    ASSUME NEW c, Place(c), \A u \in Tasks : Pending(u)' \subseteq Pending(u),
           \A j \in Keys : ~j.folder /\ objects[j] = c /\ Safe(j) => objects'[j] = c \/ Gone(c)'
    PROVE  Gone(c)' \/ Place(c)'
<1>1. PICK j \in Keys : ~j.folder /\ objects[j] = c /\ Safe(j)
  BY DEF Place
<1>2. Safe(j)'
  BY <1>1 DEF Safe
<1> QED BY <1>1, <1>2 DEF Place

(* Where a copy goes. *)
LEMMA TargetIsAFile ==
    ASSUME Inv, NEW t \in Tasks, phase[t] = "copying", NEW k \in keys[t], k \in Keys, ~k.folder
    PROVE  Target(t, k) \in Keys /\ ~Target(t, k).folder
<1> DEFINE p == op[t].at
           q == op[t].to
<1>1. Course(t) /\ Types
  BY DEF Inv, Courses
<1>2. op[t].do = "rename" /\ ~IsPrefix(p, q)
  BY <1>1 DEF Course
<1>3. Fits(p, q) /\ p \in Paths \cup {<<>>} /\ q \in Paths
  BY <1>1, <1>2, OpIs
<1>4. CASE folder[t]
  <2>1. k \in Under(p)
    BY <1>1, <1>4 DEF Course
  <2>2. Rebase(k, p, q) \in Keys
    BY <2>1, <1>3 DEF Fits
  <2>3. k = File(k.path)
    BY PathsOfKeys, KeysApart
  <2>4. ~Rebase(k, p, q).folder
    <3> DEFINE path == q \o SubSeq(k.path, Len(p) + 1, Len(k.path))
    <3>1. Rebase(k, p, q) = [k EXCEPT !.path = path]
      BY DEF Rebase
    <3> HIDE DEF path, p, q
    <3> QED BY <2>3, <3>1 DEF File
  <2> QED BY <2>2, <2>4, <1>4 DEF Target
<1>5. CASE ~folder[t]
  <2>1. k = File(p) /\ File(p) \in Keys
    BY <1>1, <1>5 DEF Course
  <2>2. Rebase(k, p, q) \in Keys
    BY <2>1, <1>3 DEF Fits
  <2>3. k.path = p /\ p \in Paths
    BY <2>1, KeysApart DEF Paths
  <2>4. Rebase(k, p, q) = File(Rebase(k, p, q).path)
    <3> DEFINE path == q \o SubSeq(k.path, Len(p) + 1, Len(k.path))
    <3>1. Rebase(k, p, q) = [k EXCEPT !.path = path]
      BY DEF Rebase
    <3>2. k = [path |-> p, folder |-> FALSE]
      BY <2>1 DEF File
    <3> HIDE DEF path, p, q
    <3> QED BY <3>1, <3>2 DEF File
  <2>5. p \in Seq(Letters) /\ IsPrefix(p, k.path)
    BY <2>3, PathsOfKeys, PrefixIs, LenProperties
  <2>6. Rebase(k, p, q).path = q
    BY <2>3, <2>5, <1>3, RebaseOfKey
  <2> QED BY <2>2, <2>4, <2>6, <1>5, KeysApart DEF Target
<1> QED BY <1>4, <1>5

(* What is copied is kept twice, and the copy is safe. *)
LEMMA CopyKeeps ==
    ASSUME Inv, NEW t \in Tasks, Copy(t), NEW c, c # None, Place(c)
    PROVE  Gone(c)' \/ Place(c)'
<1>1. PICK j \in Keys : ~j.folder /\ objects[j] = c /\ Safe(j)
  BY DEF Place
<1>2. PICK k \in Held(InTheAir(t)) : CopyEach(t, {k}) /\ moved' = [moved EXCEPT ![t] = @ \cup {k}]
  BY DEF Copy
<1>3. Types /\ Task(t) /\ phase[t] = "copying" /\ phase'[t] = "copying"
  BY DEF Inv, Copy, Task
<1>4. k \in Keys /\ k \in keys[t]
  BY DEF Held, There, InTheAir, First
<1>5. \A i \in Keys : objects'[i] = IF Target(t, k) = i THEN objects[k] ELSE objects[i]
  <2>1. objects' = Copied(t, {k})
    BY <1>2 DEF CopyEach, Change
  <2> QED BY <2>1 DEF Copied
<1>6. excused' = excused \cup ({objects[Target(t, k)]} \ {None})
  <2>1. Excuse({objects[Target(t, i)] : i \in {k}})
    BY <1>2 DEF CopyEach
  <2>2. {objects[Target(t, i)] : i \in {k}} = {objects[Target(t, k)]}
    OBVIOUS
  <2> QED BY <2>1, <2>2 DEF Excuse
<1>7. SUFFICES ASSUME objects[Target(t, k)] # c
               PROVE  Place(c)'
  BY <1>6 DEF Gone
<1>8. Target(t, k) # j /\ objects'[j] = c
  BY <1>1, <1>5, <1>7
<1>9. \A u \in Tasks \ {t} : Pending(u)' \subseteq Pending(u)
  BY <1>3, PendingOfOthers
<1>10. Pending(t)' \subseteq Pending(t) \cup {k}
  <2>1. stood'[t] \subseteq stood[t]
    BY <1>2, <1>3 DEF CopyEach, Change, Types
  <2>2. moved'[t] = moved[t] \cup {k}
    BY <1>2, <1>3 DEF Types
  <2> QED BY <2>1, <2>2, <1>3 DEF Pending
<1>11. CASE j # k
  <2>1. Safe(j)'
    BY <1>1, <1>9, <1>10, <1>11 DEF Safe
  <2> QED BY <2>1, <1>1, <1>8 DEF Place
<1>12. CASE j = k
  <2>1. PICK i \in Keys : i = Target(t, k) /\ ~i.folder
    BY <1>1, <1>3, <1>4, <1>12, TargetIsAFile
  <2>2. objects'[i] = c
    BY <2>1, <1>1, <1>5, <1>12
  <2>3. \A u \in Tasks : i \notin stood'[u]
    <3>1. Change(t, Copied(t, {k})) /\ objects' = Copied(t, {k})
      BY <1>2 DEF CopyEach, Change
    <3>2. Copied(t, {k})[i] = c
      BY <3>1, <2>2
    <3>3. \A u \in Tasks : stood'[u] \subseteq
             {h \in stood[u] : Copied(t, {k})[h] = objects[h] \/ Copied(t, {k})[h] = None}
      BY <3>1 DEF Change
    <3> QED BY <3>2, <3>3, <2>1, <1>7
  <2>4. Safe(i)'
    BY <2>3 DEF Safe, Pending
  <2> QED BY <2>1, <2>2, <2>4 DEF Place
<1> QED BY <1>11, <1>12

(* One request of another destination. *)
LEMMA SendKeeps ==
    ASSUME Inv, NEW t \in Tasks, Send(t), NEW c, c # None, Place(c)
    PROVE  Gone(c)' \/ Place(c)'
<1> DEFINE o == op[t]
<1>1. Types /\ Task(t) /\ phase[t] = "sending" /\ Takes(t)
  BY DEF Inv, Send, Task
<1>2. \A u \in Tasks : Pending(u)' \subseteq Pending(u)
  <2>1. ~Copy(t)
    BY <1>1 DEF Copy
  <2> QED BY <2>1, <1>1, PendingOfOthers, PendingOfItsOwn
<1>3. objects' = Result(t) /\ objects \in Trees
  BY DEF Send, Change, Inv, Types
<1>4. /\ o.do = "write" => objects[File(o.at)] \in excused' \cup {None}
      /\ o.do = "delete" => \A k \in Moving(objects, o.at) : objects[k] \in excused' \cup {None}
  BY DEF Send, Excuse
<1>5. o.do \in {"write", "read", "list", "delete", "create", "rename"}
  BY <1>1, OpIs
<1>6. CASE o.do # "rename"
  <2>1. ASSUME NEW j \in Keys, ~j.folder, objects[j] = c
        PROVE  objects'[j] = c \/ Gone(c)'
    <3>1. CASE o.do = "write"
      <4>1. objects'[j] = IF j = File(o.at) THEN t ELSE objects[j]
        BY <3>1, <1>3 DEF Result, Put, Trees
      <4> QED BY <4>1, <3>1, <2>1, <1>4 DEF Gone
    <3>2. CASE o.do = "create"
      <4>1. objects'[j] = IF j = Folder(o.at) THEN t ELSE objects[j]
        BY <3>2, <1>3 DEF Result, Put, Trees
      <4> QED BY <4>1, <2>1, KeysApart
    <3>3. CASE o.do = "delete"
      <4>1. objects'[j] = IF j \in Moving(objects, o.at) THEN None ELSE objects[j]
        BY <3>3, <1>3 DEF Result, Without
      <4> QED BY <4>1, <3>3, <2>1, <1>4 DEF Gone
    <3>4. CASE o.do \in {"read", "list"}
      BY <3>4, <2>1, <1>3 DEF Result
    <3> QED BY <3>1, <3>2, <3>3, <3>4, <1>5, <1>6
  <2> QED BY <2>1, <1>2, StaysKept
<1>7. CASE o.do = "rename"
  <2> DEFINE p == o.at
             q == o.to
  <2>1. p \in Paths /\ q \in Paths /\ ~IsObjectStore /\ CanRename(objects, p, q) /\ Fits(p, q)
    BY <1>1, <1>7, ResultIs, OpIs
  <2>2. Parented(objects)
    BY <2>1 DEF Inv, Kind
  <2>3. objects' = Moved(objects, p, q)
    BY <1>3, <1>7 DEF Result
  <2>4. PICK j \in Keys : ~j.folder /\ objects[j] = c
    BY DEF Place
  <2> HIDE DEF o, p, q
  <2>5. \A u \in Tasks : Pending(u) = {}
    BY <2>1 DEF Inv, Courses, Course, Pending
  <2>6. \A i \in Keys : Safe(i)'
    BY <2>5, <1>2 DEF Safe
  <2>7. CASE j \notin Moving(objects, p)
    <3>1. objects'[j] = c
      BY <2>1, <2>2, <2>3, <2>4, <2>7, MoveIs
    <3> QED BY <3>1, <2>4, <2>6 DEF Place
  <2>8. CASE j \in Moving(objects, p)
    <3>1. Rebase(j, p, q) \in Keys /\ objects'[Rebase(j, p, q)] = c
      BY <2>1, <2>2, <2>3, <2>4, <2>8, MoveIs
    <3>2. j = File(j.path)
      BY <2>4, PathsOfKeys, KeysApart
    <3>3. ~Rebase(j, p, q).folder
      BY <3>2 DEF Rebase, File
    <3> QED BY <3>1, <3>3, <2>6 DEF Place
  <2> QED BY <2>7, <2>8
<1> QED BY <1>6, <1>7

LEMMA KeptStep ==
    ASSUME Inv, NEW t \in Tasks, Task(t), NEW c, c # None, \A u \in Tasks : c # Torn[u], Place(c)
    PROVE  Gone(c)' \/ Place(c)'
<1>1. CASE Copy(t)
  BY <1>1, CopyKeeps
<1>2. CASE Send(t)
  BY <1>2, SendKeeps
<1>3. CASE ~Copy(t) /\ ~Send(t)
  <2>1. \A u \in Tasks : Pending(u)' \subseteq Pending(u)
    BY <1>3, PendingOfOthers, PendingOfItsOwn
  <2>2. objects \in Trees
    BY DEF Inv, Types
  <2> SUFFICES ASSUME NEW j \in Keys, ~j.folder, objects[j] = c, Safe(j)
               PROVE  objects'[j] = c \/ Gone(c)'
    BY <2>1, StaysKept
  <2>3. CASE Begin(t) \/ RefuseInside(t) \/ FailQuietly(t) \/ (Asking(t) /\ NothingKept) \/ AllCopied(t)
             \/ AllDeleted(t)
    BY <2>3 DEF Begin, RefuseInside, FailQuietly, NothingKept, AllCopied, AllDeleted
  <2>4. CASE Truncate(t)
    <3>1. /\ objects' = Put(objects, File(op[t].at), Torn[t])
          /\ excused' = excused \cup ({objects[File(op[t].at)]} \ {None})
      BY <2>4 DEF Truncate, Change, Excuse
    <3>2. objects'[j] = IF j = File(op[t].at) THEN Torn[t] ELSE objects[j]
      BY <3>1, <2>2 DEF Put, Trees
    <3> QED BY <3>1, <3>2 DEF Gone
  <2>5. CASE Fill(t)
    <3>1. objects'[j] = IF objects[j] = Torn[t] THEN t ELSE objects[j]
      BY <2>5 DEF Fill, Change
    <3> QED BY <3>1
  <2>6. CASE CopyFails(t)
    <3>1. PICK ks \in SUBSET Held(InTheAir(t)) : CopyEach(t, ks)
      BY <2>6 DEF CopyFails
    <3>2. objects'[j] = Copied(t, ks)[j] /\ Excuse({objects[Target(t, k)] : k \in ks})
      BY <3>1 DEF CopyEach, Change
    <3>3. CASE \E k \in ks : Target(t, k) = j
      <4>1. c \in {objects[Target(t, k)] : k \in ks}
        BY <3>3
      <4> QED BY <4>1, <3>2 DEF Excuse, Gone
    <3>4. CASE ~ \E k \in ks : Target(t, k) = j
      BY <3>2, <3>4 DEF Copied
    <3> QED BY <3>3, <3>4
  <2>7. CASE DeleteSome(t) \/ DeleteFails(t)
    <3>1. PICK ks : DeleteEach(t, ks) /\ phase[t] = "deleting"
      BY <2>7 DEF DeleteSome, DeleteFails
    <3>2. objects'[j] = IF j \in ks THEN None ELSE objects[j]
      BY <3>1 DEF DeleteEach, Change, Without
    <3>3. CASE j \notin ks
      BY <3>2, <3>3
    <3>4. CASE j \in ks /\ op[t].do = "delete"
      BY <3>1, <3>4 DEF DeleteEach, Excuse, Gone
    <3>5. CASE j \in ks /\ op[t].do # "delete"
      <4>1. j \notin CopiedFrom(t)
        BY <3>1 DEF Safe, Pending, Live, Over, CopiedFrom
      <4>2. astray' = astray \cup {objects[k] : k \in ks \ CopiedFrom(t)}
        BY <3>1, <3>5 DEF DeleteEach
      <4> QED BY <4>1, <4>2, <3>5 DEF Gone
    <3> QED BY <3>3, <3>4, <3>5
  <2> QED BY <1>3, <2>3, <2>4, <2>5, <2>6, <2>7 DEF Task
<1> QED BY <1>1, <1>2, <1>3

(* Nothing is ever lost to a renaming, whichever the destination, however  *)
(* many operations there are at once and wherever they fail, are dropped,  *)
(* or are taken apart into pages and batches: the copies of S3's and       *)
(* Azure's renamings come before the deletions, and the others rename in   *)
(* one request (NothingIsLost, of s3.rs, azure/mod.rs, webdav.rs, sftp.rs  *)
(* and ftp.rs).                                                            *)
THEOREM NothingIsEverLost == Spec => []NothingIsLost
<1>1. Init => Inv /\ Kept
  BY InvInit, KeptInit
<1>2. ASSUME Inv, Kept, [Next]_vars
      PROVE  Inv' /\ Kept'
  <2>1. Inv'
    BY <1>2, InvStep
  <2>2. CASE UNCHANGED vars
    <3>1. UNCHANGED <<objects, phase, moved, meant, stood, excused, astray>>
      BY <2>2 DEF vars, mine, history
    <3>2. \A u \in Tasks : Pending(u)' = Pending(u)
      BY <3>1 DEF Pending, Live
    <3>3. \A j \in Keys : Safe(j)' = Safe(j)
      BY <3>2 DEF Safe
    <3> SUFFICES ASSUME NEW k \in Keys, AtFirst[k] # None, ~k.folder
                 PROVE  Gone(AtFirst[k])' \/ Place(AtFirst[k])'
      BY <2>1 DEF Kept
    <3>4. CASE Gone(AtFirst[k])
      BY <3>1, <3>4 DEF Gone
    <3>5. CASE Place(AtFirst[k])
      <4>1. PICK j \in Keys : ~j.folder /\ objects[j] = AtFirst[k] /\ Safe(j)
        BY <3>5 DEF Place
      <4>2. Safe(j)' /\ objects'[j] = AtFirst[k]
        BY <3>1, <3>3, <4>1
      <4> QED BY <4>1, <4>2 DEF Place
    <3> QED BY <3>4, <3>5, <1>2 DEF Kept
  <2>3. ASSUME NEW t \in Tasks, Task(t)
        PROVE  Kept'
    <3> SUFFICES ASSUME NEW k \in Keys, AtFirst[k] # None, ~k.folder
                 PROVE  Gone(AtFirst[k])' \/ Place(AtFirst[k])'
      BY DEF Kept
    <3>1. \A u \in Tasks : AtFirst[k] # Torn[u]
      BY StoresAssumption
    <3>2. Gone(AtFirst[k]) \/ Place(AtFirst[k])
      BY <1>2 DEF Kept
    <3>3. CASE Gone(AtFirst[k])
      BY <3>3, <2>3, <1>2, GoneStays DEF Inv
    <3>4. CASE Place(AtFirst[k])
      BY <3>1, <3>4, <2>3, <1>2, KeptStep
    <3> QED BY <3>2, <3>3, <3>4
  <2> QED BY <2>1, <2>2, <2>3, <1>2 DEF Next
<1>3. Kept => NothingIsLost
  BY DEF Kept, NothingIsLost, Gone, Place
<1> QED BY <1>1, <1>2, <1>3, PTL DEF Spec

-----------------------------------------------------------------------------
(* A page takes all that comes before where it ends. *)

LEMMA RankIs ==
    /\ Len(KeyOrder) \in Nat
    /\ \A k \in Keys : Rank(k) \in 1 .. Len(KeyOrder) /\ Rank(k) \in Nat \ {0}
<1>1. KeyOrder \in [1 .. Len(KeyOrder) -> Keys] /\ Len(KeyOrder) \in Nat /\ Range(KeyOrder) = Keys
  BY StoresAssumption
<1>2. ASSUME NEW k \in Keys
      PROVE  Rank(k) \in 1 .. Len(KeyOrder)
  <2>1. \E i \in DOMAIN KeyOrder : KeyOrder[i] = k
    BY <1>1 DEF Range
  <2> QED BY <2>1, <1>1 DEF Rank
<1> QED BY <1>1, <1>2

Ends(page) == CHOOSE k \in page : \A j \in page : Rank(j) <= Rank(k)

LEMMA PageIs ==
    ASSUME NEW rest, rest \subseteq Keys, NEW n \in Nat \ {0}, First(rest, n) # rest
    PROVE  /\ First(rest, n) \subseteq rest /\ Ends(First(rest, n)) \in First(rest, n)
           /\ \A k \in rest : Rank(k) <= Rank(Ends(First(rest, n))) => k \in First(rest, n)
<1> DEFINE page == First(rest, n)
           Before(k) == {j \in rest : Rank(j) < Rank(k)}
           L == Len(KeyOrder)
<1>1. L \in Nat /\ \A k \in rest : Rank(k) \in 1 .. L /\ Rank(k) \in Nat
  BY RankIs
<1>2. page = {k \in rest : Cardinality(Before(k)) < n}
  BY DEF First
<1>3. page \subseteq rest
  BY <1>2
<1>4. IsFiniteSet(rest)
  BY KeysAreFinite, FS_Subset
<1>5. \A k \in rest : IsFiniteSet(Before(k)) /\ Cardinality(Before(k)) \in Nat
  <2> SUFFICES ASSUME NEW k \in rest PROVE IsFiniteSet(Before(k)) /\ Cardinality(Before(k)) \in Nat
    OBVIOUS
  <2>1. Before(k) \subseteq rest
    OBVIOUS
  <2> HIDE DEF Before
  <2> QED BY <2>1, <1>4, FS_Subset, FS_CardinalityType
<1>6. rest # {}
  BY <1>3
<1> HIDE DEF L
<1>7. page # {}
  <2> DEFINE K == {Rank(k) : k \in rest}
  <2>1. K \in SUBSET Nat /\ K # {}
    BY <1>1, <1>6
  <2>2. PICK r \in K : \A s \in K : r <= s
    BY <2>1, LeastOfNumbers
  <2>3. PICK k \in rest : \A j \in rest : Rank(k) <= Rank(j)
    BY <2>2
  <2>4. Before(k) = {}
    BY <2>3, <1>1
  <2>5. Cardinality(Before(k)) = 0
    BY <2>4, FS_EmptySet
  <2> HIDE DEF page, Before
  <2> QED BY <2>3, <2>5, <1>2
<1>8. \E k \in page : \A j \in page : Rank(j) <= Rank(k)
  <2> HIDE DEF page
  <2> DEFINE K == {L - Rank(k) : k \in page}
  <2>1. K \in SUBSET Nat /\ K # {}
    BY <1>1, <1>3, <1>7
  <2>2. PICK r \in K : \A s \in K : r <= s
    BY <2>1, LeastOfNumbers
  <2>3. PICK k \in page : \A j \in page : L - Rank(k) <= L - Rank(j)
    BY <2>2
  <2>4. \A j \in page : Rank(j) <= Rank(k)
    BY <2>3, <1>1, <1>3
  <2> QED BY <2>4
<1> HIDE DEF page
<1>9. Ends(page) \in page
  BY <1>8 DEF Ends
<1>10. ASSUME NEW k \in rest, Rank(k) <= Rank(Ends(page))
       PROVE  k \in page
  <2> DEFINE e == Ends(page)
  <2>1. e \in rest /\ Cardinality(Before(e)) < n
    BY <1>2, <1>9
  <2> HIDE DEF e
  <2>2. Before(k) \subseteq Before(e)
    <3>1. Rank(k) <= Rank(e)
      BY <1>10 DEF e
    <3> QED BY <3>1, <2>1, <1>1
  <2>3. Cardinality(Before(k)) <= Cardinality(Before(e))
    <3> HIDE DEF Before
    <3> QED BY <2>1, <2>2, <1>5, FS_Subset
  <2>4. Cardinality(Before(k)) < n
    <3> HIDE DEF Before
    <3>1. Cardinality(Before(k)) \in Nat /\ Cardinality(Before(e)) \in Nat
      BY <2>1, <1>5
    <3> QED BY <3>1, <2>1, <2>3
  <2> QED BY <2>4, <1>2
<1> QED BY <1>3, <1>9, <1>10 DEF page

(* What a page names, and where the next goes on. *)
PageNames(answer, rest, prefixes) ==
    /\ answer.folders \subseteq prefixes
    /\ NoMorePages(answer) => answer.blobs \cup answer.folders = rest
    /\ ~NoMorePages(answer) =>
          /\ answer.next[1] \in Nat
          /\ \A k \in rest : Rank(k) <= answer.next[1] => k \in answer.blobs \cup answer.folders

LEMMA PageOf ==
    ASSUME NEW rest, rest \subseteq Keys, NEW prefixes
    PROVE  PageNames(Heard(Answered(rest, prefixes)), rest, prefixes)
<1> DEFINE answer == Heard(Answered(rest, prefixes))
<1> DEFINE page == First(rest, PageSize)
<1>1. IsFiniteSet(rest) /\ PageSize \in Nat \ {0}
  BY KeysAreFinite, FS_Subset, StoresAssumption
<1>2. /\ answer = Answered(rest, prefixes) /\ page \subseteq rest
      /\ answer.blobs = page \ prefixes /\ answer.folders = page \cap prefixes
  BY <1>1, HeardIs
<1> HIDE DEF answer
<1>3. answer.next = IF page = rest THEN <<>> ELSE <<Rank(Ends(page))>>
  <2>1. Answered(rest, prefixes).next = IF page = rest THEN <<>> ELSE <<Rank(Ends(page))>>
    BY DEF Answered, Ends
  <2> HIDE DEF page
  <2> QED BY <2>1, <1>2
<1>4. page # rest => /\ Ends(page) \in page
                     /\ \A k \in rest : Rank(k) <= Rank(Ends(page)) => k \in page
  BY <1>1, PageIs
<1> HIDE DEF page
<1>5. answer.blobs \cup answer.folders = page
  BY <1>2
<1>6. NoMorePages(answer) <=> page = rest
  BY <1>3 DEF NoMorePages
<1>7. page # rest => answer.next[1] = Rank(Ends(page)) /\ answer.next[1] \in Nat
  <2> SUFFICES ASSUME page # rest PROVE answer.next[1] = Rank(Ends(page)) /\ answer.next[1] \in Nat
    OBVIOUS
  <2>1. answer.next[1] = Rank(Ends(page))
    BY <1>3
  <2>2. Ends(page) \in Keys
    BY <1>2, <1>4
  <2> QED BY <2>1, <2>2, RankIs
<1>8. PageNames(answer, rest, prefixes)
  BY <1>2, <1>4, <1>5, <1>6, <1>7 DEF PageNames
<1> QED BY <1>8 DEF answer

(* The folder that stands for what lies deeper. *)
Shown(p, k) ==
    IF ~k.folder /\ Len(k.path) = Len(p) + 1 THEN k ELSE Folder(SubSeq(k.path, 1, Len(p) + 1))

LEMMA AboveIsAKey ==
    ASSUME NEW k \in Keys, NEW p \in Seq(Letters), p # <<>>, IsPrefix(p, k.path), p # k.path
    PROVE  Folder(p) \in Keys
<1> DEFINE tree == [j \in Keys |-> CHOOSE c : c # None]
<1>1. \E c : c # None
  <2>1. {None} # {}
    OBVIOUS
  <2>2. {None} # None \/ {} # None
    BY <2>1
  <2> QED BY <2>2
<1>2. \A j \in Keys : tree[j] # None
  BY <1>1
<1> HIDE DEF tree
<1>3. Parented(tree)
  <2> SUFFICES ASSUME NEW j \in Keys PROVE HasParent(tree, j.path)
    BY DEF Parented
  <2>1. j.path # <<>> /\ (Front(j.path) = <<>> \/ Folder(Front(j.path)) \in Keys)
    BY StoresAssumption, PathsOfKeys
  <2> QED BY <2>1, <1>2 DEF HasParent, HasFolder, There
<1>4. There(tree, Folder(p))
  BY <1>2, <1>3, FoldersAbove
<1> QED BY <1>4 DEF There

LEMMA ShownIs ==
    ASSUME NEW p \in Paths \cup {<<>>}, NEW k \in Under(p), k # Folder(p)
    PROVE  /\ Shown(p, k) \in Keys /\ Shown(p, k) # Folder(p)
           /\ k = Shown(p, k) \/ (Shown(p, k).folder /\ IsPrefix(Shown(p, k).path, k.path))
           /\ There(objects, k) =>
                 \/ ~k.folder /\ Len(k.path) = Len(p) + 1 /\ k \in Directly(p)
                 \/ ~(~k.folder /\ Len(k.path) = Len(p) + 1) /\ Shown(p, k) \in Deeper(p)
<1> DEFINE s == k.path
           n == Len(p) + 1
<1>1. /\ k \in Keys /\ IsPrefix(p, s) /\ k # File(p) /\ s \in Seq(Letters) /\ s # <<>>
      /\ k = File(s) \/ k = Folder(s)
  BY PathsOfKeys DEF Under
<1>2. p \in Seq(Letters)
  BY PathsOfKeys, EmptySeq
<1>3. Len(p) \in Nat /\ Len(s) \in Nat /\ Len(p) <= Len(s) /\ \A i \in 1 .. Len(p) : p[i] = s[i]
  BY <1>1, <1>2, PrefixIs
<1>4. s # p
  BY <1>1
<1>5. Len(s) # Len(p)
  BY <1>1, <1>2, <1>3, <1>4, SeqEqual
<1>6. n \in 1 .. Len(s) /\ n \in 0 .. Len(s) /\ n > 0 /\ n # Len(p)
  BY <1>3, <1>5
<1>7. /\ Cut(s, n) \in Seq(Letters) /\ Len(Cut(s, n)) = n /\ IsPrefix(Cut(s, n), s)
      /\ Cut(s, n) # <<>>
  BY <1>1, <1>6, CutIs
<1>8. Cut(s, n) # p
  BY <1>6, <1>7
<1>9. CASE ~k.folder /\ Len(s) = n
  <2>1. Shown(p, k) = k
    BY <1>9 DEF Shown
  <2>2. There(objects, k) => k \in Directly(p)
    BY <1>9 DEF Directly, Held
  <2> QED BY <2>1, <2>2, <1>1, <1>9
<1>10. CASE ~(~k.folder /\ Len(s) = n)
  <2>1. Shown(p, k) = Folder(Cut(s, n))
    BY <1>10 DEF Shown, Cut
  <2>2. Folder(Cut(s, n)) \in Keys
    <3>1. CASE Cut(s, n) # s
      BY <3>1, <1>1, <1>7, AboveIsAKey
    <3>2. CASE Cut(s, n) = s
      <4>1. k.folder
        BY <3>2, <1>7, <1>10
      <4> QED BY <4>1, <3>2, <1>1, KeysApart
    <3> QED BY <3>1, <3>2
  <2>3. Folder(Cut(s, n)) # Folder(p)
    BY <1>8, KeysApart
  <2>4. ASSUME There(objects, k)
        PROVE  Folder(Cut(s, n)) \in Deeper(p)
    <3>1. k.folder \/ Len(s) > n
      BY <1>3, <1>6, <1>10
    <3>2. k \in {j \in Held(Under(p)) \ {Folder(p)} : j.folder \/ Len(j.path) > Len(p) + 1}
      BY <3>1, <2>4 DEF Held
    <3> QED BY <3>2 DEF Deeper, Cut
  <2> HIDE DEF s, n
  <2>5. Shown(p, k).folder /\ Shown(p, k).path = Cut(s, n)
    BY <2>1, KeysApart
  <2> QED BY <2>1, <2>2, <2>3, <2>4, <2>5, <1>7, <1>10 DEF s, n
<1> QED BY <1>9, <1>10

LEMMA DeeperAreKeys ==
    ASSUME NEW p \in Paths \cup {<<>>}
    PROVE  Deeper(p) \subseteq Keys /\ Directly(p) \subseteq Keys
<1>1. ASSUME NEW j \in Held(Under(p)) \ {Folder(p)}, j.folder \/ Len(j.path) > Len(p) + 1
      PROVE  Folder(SubSeq(j.path, 1, Len(p) + 1)) \in Keys
  <2>1. j \in Under(p) /\ j # Folder(p)
    BY DEF Held
  <2>2. ~(~j.folder /\ Len(j.path) = Len(p) + 1)
    <3>1. p \in Seq(Letters)
      BY PathsOfKeys, EmptySeq
    <3>2. Len(p) \in Nat
      BY <3>1
    <3> QED BY <1>1, <3>2
  <2> QED BY <2>1, <2>2, ShownIs DEF Shown
<1> QED BY <1>1 DEF Deeper, Directly, Held, There

-----------------------------------------------------------------------------
(* Nothing is overlooked: what has been there from the beginning is named  *)
(* by every listing, and gone once a deletion or a renaming is done.       *)

(* What there is to note of it. *)
Noted(t) ==
    /\ stood[t] \subseteq Keys /\ stood[t] \subseteq Under(op[t].at) \cup {File(op[t].at)}
    /\ folder[t] \in BOOLEAN
    /\ phase[t] \notin {"idle", "deleting", "done", "failed"} => \A k \in stood[t] : objects[k] # None

(* What it is that comes so far. *)
Wanted(t) ==
    /\ phase[t] = "leafing" => op[t].do = "list"
    /\ phase[t] \in {"listing", "deleting"} => op[t].do \in {"delete", "rename"}
    /\ phase[t] = "heading" /\ IsObjectStore => op[t].do \in {"delete", "rename"}
    /\ phase[t] = "probing" => op[t].do \in {"create", "delete", "rename"}
    /\ phase[t] = "sending" /\ IsObjectStore => op[t].do \notin {"delete", "list", "rename"}
    /\ phase[t] = "filling" => ~IsObjectStore
    /\ phase[t] = "idle" => cursor[t] = 0

(* What has stood before the cursor has been named. *)
Named(t) ==
    /\ cursor[t] \in Nat
    /\ phase[t] = "listing" =>
          \A k \in stood[t] \cap Under(op[t].at) : Rank(k) <= cursor[t] => k \in keys[t]
    /\ phase[t] = "leafing" =>
          \A k \in (stood[t] \cap Under(op[t].at)) \ {Folder(op[t].at)} :
              Rank(Shown(op[t].at, k)) <= cursor[t] => Shown(op[t].at, k) \in keys[t]

(* All there is to move or to delete has been named. *)
IsMeant(t, k) == (folder[t] /\ k # File(op[t].at)) \/ (~folder[t] /\ k = File(op[t].at))
AllNamed(t) ==
    /\ phase[t] \in {"copying", "deleting"} => \A k \in stood[t] : IsMeant(t, k) => k \in keys[t]
    /\ phase[t] = "deleting" => \A k \in moved[t] \cap stood[t] : objects[k] = None \/ k \in spared

Told(t) ==
    phase[t] = "done" /\ IsObjectStore =>
        /\ op[t].do \in {"delete", "rename"} =>
              \A k \in stood[t] : IsMeant(t, k) => objects[k] = None \/ k \in spared
        /\ op[t].do = "list" =>
              \A k \in (stood[t] \cap Under(op[t].at)) \ {Folder(op[t].at)} :
                  Shown(op[t].at, k) \in keys[t]

Seen(t) == Noted(t) /\ Wanted(t) /\ Named(t) /\ AllNamed(t) /\ Told(t)

LEMMA SeenInit == Init => \A t \in Tasks : Seen(t)
BY DEF Init, Seen, Noted, Wanted, Named, AllNamed, Told

LEMMA SparedStays ==
    ASSUME NEW t \in Tasks, Task(t)
    PROVE  spared \subseteq spared'
<1> USE DEF NothingKept, history
<1>1. CASE Begin(t) \/ RefuseInside(t) \/ FailQuietly(t) \/ (Asking(t) /\ NothingKept) \/ AllCopied(t)
           \/ AllDeleted(t) \/ Fill(t) \/ Send(t) \/ Truncate(t)
  BY <1>1 DEF Begin, RefuseInside, FailQuietly, AllCopied, AllDeleted, Fill, Send, Truncate
<1>2. CASE Copy(t) \/ CopyFails(t)
  BY <1>2 DEF Copy, CopyFails, CopyEach
<1>3. CASE DeleteSome(t) \/ DeleteFails(t)
  BY <1>3 DEF DeleteSome, DeleteFails
<1> QED BY <1>1, <1>2, <1>3 DEF Task

(* What still counts as standing has not been touched, but by itself. *)
LEMMA WhatStands ==
    ASSUME Types, NEW t \in Tasks, Task(t), NEW u \in Tasks, Begin(t) => u # t
    PROVE  \A k \in stood'[u] : /\ k \in stood[u]
                                /\ objects'[k] = objects[k] \/ (u = t /\ objects'[k] = None)
<1> USE DEF NothingKept, history, Types
<1>1. CASE UNCHANGED <<objects, stood>>
  BY <1>1
<1>2. CASE \E after : Change(t, after)
  BY <1>2 DEF Change
<1>3. CASE Begin(t)
  BY <1>3 DEF Begin
<1>4. CASE RefuseInside(t) \/ FailQuietly(t) \/ (Asking(t) /\ NothingKept) \/ AllCopied(t) \/ AllDeleted(t)
  BY <1>1, <1>4 DEF RefuseInside, FailQuietly, AllCopied, AllDeleted
<1>5. CASE Send(t) \/ Truncate(t) \/ Fill(t)
  BY <1>2, <1>5 DEF Send, Truncate, Fill
<1>6. CASE Copy(t) \/ CopyFails(t)
  BY <1>2, <1>6 DEF Copy, CopyFails, CopyEach
<1>7. CASE DeleteSome(t) \/ DeleteFails(t)
  BY <1>2, <1>7 DEF DeleteSome, DeleteFails, DeleteEach
<1> QED BY <1>3, <1>4, <1>5, <1>6, <1>7 DEF Task

LEMMA SeenByOthers ==
    ASSUME Inv, NEW t \in Tasks, Task(t), NEW u \in Tasks, u # t, Seen(u)
    PROVE  Seen(u)'
<1>1. /\ make' = make /\ op' = op /\ phase'[u] = phase[u] /\ folder'[u] = folder[u]
      /\ keys'[u] = keys[u] /\ moved'[u] = moved[u] /\ cursor'[u] = cursor[u]
  BY OthersStay DEF Inv, Apart
<1>2. \A k \in stood'[u] : k \in stood[u] /\ objects'[k] = objects[k]
  BY WhatStands DEF Inv
<1>3. spared \subseteq spared'
  BY SparedStays
<1>4. (IsObjectStore)' = IsObjectStore /\ \A k : IsMeant(u, k)' <=> IsMeant(u, k)
  BY <1>1 DEF IsObjectStore, IsMeant
<1>5. Noted(u)' /\ Wanted(u)'
  BY <1>1, <1>2, <1>4 DEF Seen, Noted, Wanted
<1>6. Named(u)'
  BY <1>1, <1>2 DEF Seen, Named
<1>7. AllNamed(u)'
  BY <1>1, <1>2, <1>3, <1>4 DEF Seen, AllNamed
<1>8. Told(u)'
  BY <1>1, <1>2, <1>3, <1>4 DEF Seen, Told
<1> QED BY <1>5, <1>6, <1>7, <1>8 DEF Seen

(* Under what it was asked for, or that itself. *)
LEMMA NotedStep ==
    ASSUME Inv, NEW t \in Tasks, Task(t), Seen(t)
    PROVE  Noted(t)'
<1>1. Types /\ Noted(t) /\ op' = op
  BY OthersStay DEF Inv, Seen, Apart
<1>2. folder'[t] \in BOOLEAN
  <2>1. folder' = folder \/ folder' = [folder EXCEPT ![t] = FALSE] \/ folder' = [folder EXCEPT ![t] = TRUE]
        \/ folder' = [folder EXCEPT ![t] = There(objects, Folder(op[t].at))]
    BY DEF Task, Asking, Begin, RefuseInside, FailQuietly, Fail, Send, Truncate, Fill, LeafPage, HeadFile,
           HeadNothing, StatOne, Probe, Page, Copy, CopyFails, AllCopied, DeleteSome, DeleteFails,
           AllDeleted, mine
  <2>2. There(objects, Folder(op[t].at)) \in BOOLEAN
    BY DEF There
  <2> QED BY <2>1, <2>2, <1>1 DEF Noted, Types
<1>3. CASE Begin(t)
  <2>1. stood'[t] = Held(Under(op[t].at) \cup {File(op[t].at)}) /\ objects' = objects
    BY <1>1, <1>3 DEF Begin, Types
  <2>2. /\ stood'[t] \subseteq Keys /\ stood'[t] \subseteq Under(op[t].at) \cup {File(op[t].at)}
        /\ \A k \in stood'[t] : objects'[k] # None
    BY <2>1 DEF Held, There
  <2> QED BY <2>2, <1>1, <1>2 DEF Noted
<1>4. CASE ~Begin(t)
  <2>1. \A k \in stood'[t] : k \in stood[t] /\ (objects'[k] = objects[k] \/ objects'[k] = None)
    BY <1>1, <1>4, WhatStands
  <2>2. SUFFICES ASSUME phase'[t] \notin {"idle", "deleting", "done", "failed"}, NEW k \in stood'[t]
                 PROVE  objects'[k] # None
    BY <2>1, <1>1, <1>2 DEF Noted
  <2>3. k \in stood[t] /\ k \in Keys
    BY <2>1, <1>1 DEF Noted
  <2>4. objects[k] # None /\ phase[t] \notin {"idle", "deleting", "done", "failed"}
    <3>1. phase[t] # "idle"
      <4>1. phase[t] = "idle" => RefuseInside(t)
        BY <1>4 DEF Task, Asking, FailQuietly, Fail, Live, Over, Send, Truncate, Fill, LeafPage, HeadFile,
           HeadNothing, StatOne, Probe, Page, Copy, CopyFails, AllCopied, DeleteSome, DeleteFails,
           AllDeleted
      <4>2. RefuseInside(t) => phase'[t] = "failed"
        BY <1>1 DEF RefuseInside, Step, Types
      <4> QED BY <4>1, <4>2, <2>2
    <3>2. phase[t] \notin {"done", "failed"}
      BY <1>4, <3>1 DEF Task, Asking, RefuseInside, FailQuietly, Fail, Live, Over, Send, Truncate, Fill,
           LeafPage, HeadFile, HeadNothing, StatOne, Probe, Page, Copy, CopyFails, AllCopied,
           DeleteSome, DeleteFails, AllDeleted
    <3>3. phase[t] # "deleting"
      <4>1. phase[t] = "deleting" => DeleteSome(t) \/ DeleteFails(t) \/ AllDeleted(t)
        BY <1>4 DEF Task, Asking, RefuseInside, FailQuietly, Fail, Send, Truncate, Fill,
           LeafPage, HeadFile, HeadNothing, StatOne, Probe, Page, Copy, CopyFails, AllCopied
      <4>2. DeleteSome(t) \/ DeleteFails(t) \/ AllDeleted(t) =>
                phase'[t] \in {"deleting", "failed", "done"} \/ phase[t] # "deleting"
        BY <1>1 DEF DeleteSome, DeleteFails, AllDeleted, Fail, Done, Step, Types
      <4> QED BY <4>1, <4>2, <2>2
    <3> QED BY <3>1, <3>2, <3>3, <2>3, <1>1 DEF Noted
  <2>5. CASE objects' = objects
    BY <2>4, <2>5
  <2>6. CASE Truncate(t)
    <3>1. objects'[k] = IF k = File(op[t].at) THEN Torn[t] ELSE objects[k]
      BY <2>3, <2>6 DEF Truncate, Change, Put, Inv, Types, Trees
    <3>2. Torn[t] # None
      BY StoresAssumption, TreeAssumption
    <3> QED BY <3>1, <3>2, <2>4
  <2>7. CASE Copy(t)
    <3>1. PICK ks \in SUBSET Held(InTheAir(t)) : objects' = Copied(t, ks)
      BY <2>7 DEF Copy, CopyEach, Change
    <3>2. CASE \E j \in ks : Target(t, j) = k
      <4>1. objects'[k] = objects[CHOOSE j \in ks : Target(t, j) = k]
        BY <3>1, <3>2, <2>3 DEF Copied
      <4>2. (CHOOSE j \in ks : Target(t, j) = k) \in ks
        BY <3>2
      <4>3. objects[CHOOSE j \in ks : Target(t, j) = k] # None
        BY <4>2 DEF Held, There
      <4> QED BY <4>1, <4>3
    <3>3. CASE ~ \E j \in ks : Target(t, j) = k
      BY <3>1, <3>3, <2>3, <2>4 DEF Copied
    <3> QED BY <3>2, <3>3
  <2>8. CASE Send(t) \/ Fill(t) \/ CopyFails(t) \/ DeleteFails(t) \/ DeleteSome(t)
    <3>1. phase'[t] \in {"done", "failed", "deleting"}
      BY <1>1, <2>8 DEF Send, Fill, CopyFails, DeleteFails, DeleteSome, Fail, Done, Step, Types
    <3> QED BY <3>1, <2>2
  <2>9. CASE RefuseInside(t) \/ FailQuietly(t) \/ (Asking(t) /\ NothingKept) \/ AllCopied(t) \/ AllDeleted(t)
    <3>1. objects' = objects
      BY <2>9 DEF RefuseInside, FailQuietly, NothingKept, AllCopied, AllDeleted
    <3> QED BY <3>1, <2>5
  <2> QED BY <1>4, <2>6, <2>7, <2>8, <2>9 DEF Task
<1> QED BY <1>3, <1>4

LEMMA WantedStep ==
    ASSUME Inv, NEW t \in Tasks, Task(t), Seen(t)
    PROVE  Wanted(t)'
<1>1. Types /\ Course(t) /\ Wanted(t) /\ op' = op /\ make' = make
  BY OthersStay DEF Inv, Courses, Seen, Apart
<1>2. (IsObjectStore)' = IsObjectStore
  BY <1>1 DEF IsObjectStore
<1> USE DEF Step
<1>3. CASE phase'[t] \in {"done", "failed", "copying"}
  BY <1>3 DEF Wanted
<1>4. CASE Begin(t)
  <2>1. phase'[t] = (CASE op[t].do = "write" -> "sending"
                 [] op[t].do = "list" /\ IsObjectStore -> "leafing"
                 [] op[t].do = "create" /\ IsObjectStore -> "probing"
                 [] op[t].do \in {"delete", "rename"} /\ IsObjectStore -> "heading"
                 [] op[t].do = "delete" /\ make = "sftp" -> "heading"
                 [] OTHER -> "sending")
    BY <1>1, <1>4 DEF Begin, Types
  <2>2. make = "sftp" => ~IsObjectStore
    BY DEF IsObjectStore, ObjectStores
  <2>3. op[t].do \in {"write", "read", "list", "delete", "create", "rename"}
    BY <1>1, OpIs
  <2>4. \/ phase'[t] = "sending" /\ (IsObjectStore => op[t].do \notin {"delete", "list", "rename"})
        \/ phase'[t] = "leafing" /\ op[t].do = "list"
        \/ phase'[t] = "probing" /\ op[t].do = "create"
        \/ phase'[t] = "heading" /\ (IsObjectStore => op[t].do \in {"delete", "rename"})
    BY <2>1, <2>2, <2>3
  <2> QED BY <2>4, <1>1, <1>2 DEF Wanted
<1>5. CASE RefuseInside(t) \/ FailQuietly(t) \/ Send(t) \/ Fill(t) \/ CopyFails(t) \/ DeleteFails(t)
           \/ AllDeleted(t)
  <2>1. phase'[t] \in {"failed", "done"}
    BY <1>1, <1>5 DEF RefuseInside, FailQuietly, Fail, Send, Fill, Done, CopyFails, DeleteFails,
                      AllDeleted, Types
  <2> QED BY <2>1, <1>3
<1>6. CASE Truncate(t)
  <2>1. phase'[t] = "filling" /\ make = "sftp"
    BY <1>1, <1>6 DEF Truncate, Types
  <2>2. ~IsObjectStore
    BY <2>1 DEF IsObjectStore, ObjectStores
  <2> QED BY <2>1, <2>2, <1>2 DEF Wanted
<1>7. CASE LeafPage(t)
  <2>1. phase[t] = "leafing" /\ phase'[t] \in {"leafing", "done"}
    BY <1>1, <1>7 DEF LeafPage, Done, Types
  <2> QED BY <2>1, <1>1 DEF Wanted
<1>8. CASE HeadFile(t)
  <2>1. phase[t] = "heading" /\ phase'[t] \in {"copying", "deleting"} /\ IsObjectStore
    BY <1>1, <1>8 DEF HeadFile, Types
  <2> QED BY <2>1, <1>1 DEF Wanted
<1>9. CASE HeadNothing(t)
  <2>1. phase[t] = "heading" /\ phase'[t] = "probing" /\ IsObjectStore
    BY <1>1, <1>9 DEF HeadNothing, Types
  <2> QED BY <2>1, <1>1 DEF Wanted
<1>10. CASE StatOne(t)
  <2>1. phase'[t] = "sending" /\ ~IsObjectStore
    BY <1>1, <1>10 DEF StatOne, Types
  <2> QED BY <2>1, <1>2 DEF Wanted
<1>11. CASE Probe(t)
  <2>1. /\ phase[t] = "probing"
        /\ IF op[t].do = "create" THEN phase'[t] = "sending" ELSE phase'[t] = "listing"
    BY <1>1, <1>11 DEF Probe, Types
  <2> QED BY <2>1, <1>1 DEF Wanted
<1>12. CASE Page(t)
  <2>1. phase[t] = "listing" /\ phase'[t] \in {"listing", "copying", "deleting"}
    BY <1>1, <1>12 DEF Page, Types
  <2> QED BY <2>1, <1>1 DEF Wanted
<1>13. CASE Copy(t)
  <2>1. phase'[t] = "copying"
    BY <1>13 DEF Copy
  <2> QED BY <2>1, <1>3
<1>14. CASE AllCopied(t)
  <2>1. phase[t] = "copying" /\ phase'[t] \in {"deleting", "heading"}
    BY <1>1, <1>14 DEF AllCopied, Types
  <2> QED BY <2>1, <1>1 DEF Wanted, Course
<1>15. CASE DeleteSome(t)
  <2>1. phase[t] = "deleting" /\ phase'[t] = "deleting"
    BY <1>15 DEF DeleteSome
  <2> QED BY <2>1, <1>1 DEF Wanted
<1> QED BY <1>4, <1>5, <1>6, <1>7, <1>8, <1>9, <1>10, <1>11, <1>12, <1>13, <1>14, <1>15 DEF Task, Asking

(* A page of everything under a prefix. *)
LEMMA PageStep ==
    ASSUME Inv, NEW t \in Tasks, Page(t), NothingKept, Seen(t)
    PROVE  Named(t)' /\ AllNamed(t)'
<1> DEFINE p == op[t].at
           rest == {k \in Held(Under(p)) : Rank(k) > cursor[t]}
           answer == Heard(Answered(rest, {}))
           ours == stood[t] \cap Under(p)
<1>1. /\ Types /\ Course(t) /\ Noted(t) /\ Named(t)
      /\ op' = op /\ stood' = stood /\ objects' = objects /\ phase[t] = "listing"
      /\ folder' = folder /\ moved' = moved /\ folder[t] /\ moved[t] = {}
  BY DEF Inv, Courses, Seen, Page, NothingKept, Course
<1>2. rest \subseteq Keys
  BY DEF Held, There
<1>3. keys'[t] = keys[t] \cup answer.blobs
  BY <1>1 DEF Page, Types
<1>4. \/ NoMorePages(answer) /\ cursor' = cursor /\ phase'[t] \in {"copying", "deleting"}
      \/ ~NoMorePages(answer) /\ cursor'[t] = answer.next[1] /\ phase' = phase
  BY <1>1 DEF Page, Step, Types
<1>5. /\ answer.folders \subseteq {}
      /\ NoMorePages(answer) => answer.blobs \cup answer.folders = rest
      /\ ~NoMorePages(answer) =>
            /\ answer.next[1] \in Nat
            /\ \A k \in rest : Rank(k) <= answer.next[1] => k \in answer.blobs \cup answer.folders
  <2> HIDE DEF rest
  <2>1. PageNames(answer, rest, {})
    BY <1>2, PageOf
  <2> HIDE DEF answer
  <2> QED BY <2>1 DEF PageNames
<1>6. \A k \in ours : k \in Keys /\ Rank(k) \in Nat /\ (k \in rest \/ Rank(k) <= cursor[t])
  <2> SUFFICES ASSUME NEW k \in ours
               PROVE  k \in Keys /\ Rank(k) \in Nat /\ (k \in rest \/ Rank(k) <= cursor[t])
    OBVIOUS
  <2>1. k \in Keys /\ objects[k] # None
    BY <1>1 DEF Noted
  <2>2. Rank(k) \in Nat /\ cursor[t] \in Nat
    BY <2>1, <1>1, RankIs DEF Named
  <2>3. k \in Held(Under(p))
    BY <2>1 DEF Held, There
  <2> QED BY <2>1, <2>2, <2>3
<1>7. \A k \in ours : Rank(k) <= cursor[t] => k \in keys[t]
  BY <1>1 DEF Named
<1>8. stood'[t] \cap Under(op'[t].at) = ours
  BY <1>1
<1>9. \A k \in stood[t] : IsMeant(t, k)' => k \in ours
  BY <1>1 DEF IsMeant, Noted
<1> HIDE DEF answer, rest, ours, p
<1>10. CASE NoMorePages(answer)
  <2>1. ours \subseteq keys'[t]
    BY <1>3, <1>5, <1>6, <1>7, <1>10
  <2>2. phase'[t] \in {"copying", "deleting"} /\ cursor' = cursor
    BY <1>4, <1>10
  <2>3. Named(t)'
    BY <2>2, <1>1 DEF Named
  <2>4. AllNamed(t)'
    BY <2>1, <2>2, <1>1, <1>9 DEF AllNamed
  <2> QED BY <2>3, <2>4
<1>11. CASE ~NoMorePages(answer)
  <2>1. cursor'[t] = answer.next[1] /\ phase' = phase /\ cursor'[t] \in Nat
    BY <1>4, <1>5, <1>11
  <2>2. \A k \in ours : Rank(k) <= cursor'[t] => k \in keys'[t]
    BY <2>1, <1>3, <1>5, <1>6, <1>7, <1>11
  <2>3. Named(t)'
    BY <2>1, <2>2, <1>1, <1>8 DEF Named
  <2>4. AllNamed(t)'
    BY <2>1, <1>1 DEF AllNamed
  <2> QED BY <2>3, <2>4
<1> QED BY <1>10, <1>11

(* A page of what lies directly in a folder. *)
LEMMA LeafPageStep ==
    ASSUME Inv, NEW t \in Tasks, LeafPage(t), NothingKept, Seen(t)
    PROVE  Named(t)' /\ AllNamed(t)' /\ Told(t)'
<1> DEFINE p == op[t].at
           rest == {k \in Directly(p) \cup Deeper(p) : Rank(k) > cursor[t]}
           answer == Heard(Answered(rest, Deeper(p)))
           ours == (stood[t] \cap Under(p)) \ {Folder(p)}
<1>1. /\ Types /\ Noted(t) /\ Named(t) /\ Wanted(t)
      /\ op' = op /\ stood' = stood /\ objects' = objects /\ phase[t] = "leafing"
      /\ op[t].do = "list"
  BY DEF Inv, Seen, LeafPage, NothingKept, Wanted
<1>2. p \in Paths \cup {<<>>}
  BY <1>1, OpIs
<1>3. rest \subseteq Keys
  BY <1>2, DeeperAreKeys
<1>4. keys'[t] = keys[t] \cup Entries(p, answer)
  BY <1>1 DEF LeafPage, Types
<1>5. \/ NoMorePages(answer) /\ cursor' = cursor /\ phase'[t] = "done"
      \/ ~NoMorePages(answer) /\ cursor'[t] = answer.next[1] /\ phase' = phase
  BY <1>1 DEF LeafPage, Done, Step, Types
<1>6. /\ NoMorePages(answer) => answer.blobs \cup answer.folders = rest
      /\ ~NoMorePages(answer) =>
            /\ answer.next[1] \in Nat
            /\ \A k \in rest : Rank(k) <= answer.next[1] => k \in answer.blobs \cup answer.folders
  <2> HIDE DEF rest, p
  <2>1. PageNames(answer, rest, Deeper(p))
    BY <1>3, PageOf
  <2> HIDE DEF answer
  <2> QED BY <2>1 DEF PageNames
<1>7. \A k \in ours : /\ Shown(p, k) \in Keys /\ Shown(p, k) # Folder(p) /\ Rank(Shown(p, k)) \in Nat
                      /\ Shown(p, k) \in rest \/ Rank(Shown(p, k)) <= cursor[t]
  <2> SUFFICES ASSUME NEW k \in ours
               PROVE  /\ Shown(p, k) \in Keys /\ Shown(p, k) # Folder(p) /\ Rank(Shown(p, k)) \in Nat
                      /\ Shown(p, k) \in rest \/ Rank(Shown(p, k)) <= cursor[t]
    OBVIOUS
  <2>1. k \in Keys /\ objects[k] # None /\ There(objects, k)
    BY <1>1 DEF Noted, There
  <2>2. Shown(p, k) \in Keys /\ Shown(p, k) # Folder(p)
    BY <1>2, ShownIs
  <2>3. Shown(p, k) \in Directly(p) \cup Deeper(p)
    <3>1. \/ ~k.folder /\ Len(k.path) = Len(p) + 1 /\ k \in Directly(p)
          \/ ~(~k.folder /\ Len(k.path) = Len(p) + 1) /\ Shown(p, k) \in Deeper(p)
      BY <1>2, <2>1, ShownIs
    <3> HIDE DEF p
    <3>2. CASE ~k.folder /\ Len(k.path) = Len(p) + 1 /\ k \in Directly(p)
      BY <3>2 DEF Shown
    <3> QED BY <3>1, <3>2
  <2>4. Rank(Shown(p, k)) \in Nat /\ cursor[t] \in Nat
    BY <2>2, <1>1, RankIs DEF Named
  <2> QED BY <2>2, <2>3, <2>4
<1>8. \A k \in ours : Rank(Shown(p, k)) <= cursor[t] => Shown(p, k) \in keys[t]
  BY <1>1 DEF Named
<1>9. (stood'[t] \cap Under(op'[t].at)) \ {Folder(op'[t].at)} = ours /\ op'[t].at = p
  BY <1>1
<1>10. \A k : k \in answer.blobs \cup answer.folders /\ k # Folder(p) => k \in Entries(p, answer)
  BY DEF Entries
<1> HIDE DEF answer, rest, ours, p
<1>11. CASE NoMorePages(answer)
  <2>1. \A k \in ours : Shown(p, k) \in keys'[t]
    BY <1>4, <1>6, <1>7, <1>8, <1>10, <1>11
  <2>2. phase'[t] = "done" /\ cursor' = cursor
    BY <1>5, <1>11
  <2>3. Named(t)' /\ AllNamed(t)'
    BY <2>2, <1>1 DEF Named, AllNamed
  <2>4. Told(t)'
    BY <2>1, <2>2, <1>1, <1>9 DEF Told
  <2> QED BY <2>3, <2>4
<1>12. CASE ~NoMorePages(answer)
  <2>1. cursor'[t] = answer.next[1] /\ phase' = phase /\ cursor'[t] \in Nat
    BY <1>5, <1>6, <1>12
  <2>2. \A k \in ours : Rank(Shown(p, k)) <= cursor'[t] => Shown(p, k) \in keys'[t]
    BY <2>1, <1>4, <1>6, <1>7, <1>8, <1>10, <1>12
  <2>3. Named(t)'
    BY <2>1, <2>2, <1>1, <1>9 DEF Named
  <2>4. AllNamed(t)' /\ Told(t)'
    BY <2>1, <1>1 DEF AllNamed, Told
  <2> QED BY <2>3, <2>4
<1> QED BY <1>11, <1>12

LEMMA NamedStep ==
    ASSUME Inv, NEW t \in Tasks, Task(t), Seen(t)
    PROVE  Named(t)'
<1>1. Types /\ Named(t) /\ Noted(t) /\ op' = op
  BY OthersStay DEF Inv, Seen, Apart
<1> USE DEF Step, mine, history
<1>2. CASE cursor' = cursor /\ phase'[t] \notin {"listing", "leafing"}
  BY <1>1, <1>2 DEF Named
<1>3. CASE Begin(t)
  <2>1. cursor' = cursor /\ cursor[t] = 0 /\ phase'[t] # "listing"
    BY <1>1, <1>3 DEF Begin, Types, Seen, Wanted
  <2>2. stood'[t] \subseteq Keys
    BY <1>1, <1>3 DEF Begin, Held, There, Types
  <2>3. ASSUME NEW k \in (stood'[t] \cap Under(op[t].at)) \ {Folder(op[t].at)}
        PROVE  ~(Rank(Shown(op[t].at, k)) <= 0)
    <3>1. Shown(op[t].at, k) \in Keys
      BY <1>1, OpIs, ShownIs
    <3> QED BY <3>1, RankIs
  <2> QED BY <2>1, <2>3, <1>1 DEF Named
<1>4. CASE Probe(t) /\ NothingKept
  <2>1. stood' = stood /\ stood[t] \subseteq Keys
    BY <1>1, <1>4 DEF NothingKept, Noted
  <2>2. CASE op[t].do = "create"
    <3>1. cursor' = cursor /\ phase'[t] = "sending"
      BY <1>1, <1>4, <2>2 DEF Probe, Types
    <3> QED BY <3>1, <1>2
  <2>3. CASE op[t].do # "create"
    <3>1. cursor'[t] = 0 /\ phase'[t] = "listing"
      BY <1>1, <1>4, <2>3 DEF Probe, Types
    <3>2. \A k \in stood'[t] : ~(Rank(k) <= 0)
      BY <2>1, RankIs
    <3> QED BY <3>1, <3>2 DEF Named
  <2> QED BY <2>2, <2>3
<1>5. CASE RefuseInside(t) \/ FailQuietly(t) \/ Send(t) \/ Fill(t) \/ CopyFails(t) \/ DeleteFails(t)
           \/ AllDeleted(t)
  <2>1. phase'[t] \in {"failed", "done"} /\ cursor' = cursor
    BY <1>1, <1>5 DEF RefuseInside, FailQuietly, Fail, Send, Fill, Done, CopyFails, DeleteFails,
                      AllDeleted, Types
  <2> QED BY <2>1, <1>2
<1>6. CASE Truncate(t) \/ Copy(t) \/ AllCopied(t) \/ DeleteSome(t)
  <2>1. phase'[t] \in {"filling", "copying", "deleting", "heading"} /\ cursor' = cursor
    BY <1>1, <1>6 DEF Truncate, Copy, AllCopied, DeleteSome, Types
  <2> QED BY <2>1, <1>2
<1>7. CASE HeadFile(t) \/ HeadNothing(t) \/ StatOne(t)
  <2>1. phase'[t] \in {"copying", "deleting", "probing", "sending"} /\ cursor' = cursor
    BY <1>1, <1>7 DEF HeadFile, HeadNothing, StatOne, Types
  <2> QED BY <2>1, <1>2
<1>8. CASE LeafPage(t) /\ NothingKept
  BY <1>8, LeafPageStep
<1>9. CASE Page(t) /\ NothingKept
  BY <1>9, PageStep
<1> QED BY <1>3, <1>4, <1>5, <1>6, <1>7, <1>8, <1>9 DEF Task, Asking

LEMMA AllNamedStep ==
    ASSUME Inv, NEW t \in Tasks, Task(t), Seen(t)
    PROVE  AllNamed(t)'
<1>1. Types /\ Named(t) /\ Noted(t) /\ AllNamed(t) /\ op' = op /\ Course(t)
  BY OthersStay DEF Inv, Courses, Seen, Apart
<1> USE DEF Step, mine, history
<1>2. CASE phase'[t] \notin {"copying", "deleting"}
  BY <1>2 DEF AllNamed
<1>3. CASE Begin(t)
  <2>1. phase'[t] \notin {"copying", "deleting"}
    BY <1>1, <1>3 DEF Begin, Types
  <2> QED BY <2>1, <1>2
<1>4. CASE RefuseInside(t) \/ FailQuietly(t) \/ Send(t) \/ Fill(t) \/ CopyFails(t) \/ DeleteFails(t)
           \/ AllDeleted(t)
  <2>1. phase'[t] \in {"failed", "done"}
    BY <1>1, <1>4 DEF RefuseInside, FailQuietly, Fail, Send, Fill, Done, CopyFails, DeleteFails,
                      AllDeleted, Types
  <2> QED BY <2>1, <1>2
<1>5. CASE Truncate(t) \/ HeadNothing(t) \/ StatOne(t) \/ Probe(t)
  <2>1. phase'[t] \in {"filling", "probing", "sending", "listing"}
    BY <1>1, <1>5 DEF Truncate, HeadNothing, StatOne, Probe, Types
  <2> QED BY <2>1, <1>2
<1>6. CASE HeadFile(t) /\ NothingKept
  <2>1. keys'[t] = {File(op[t].at)} /\ ~folder'[t] /\ moved'[t] = {}
    BY <1>1, <1>6 DEF HeadFile, Types
  <2> QED BY <2>1, <1>1 DEF AllNamed, IsMeant
<1>7. CASE LeafPage(t) /\ NothingKept
  BY <1>7, LeafPageStep
<1>8. CASE Page(t) /\ NothingKept
  BY <1>8, PageStep
<1>9. CASE Copy(t)
  <2>1. phase[t] = "copying" /\ phase' = phase /\ folder' = folder /\ keys' = keys /\ ~Begin(t)
    BY <1>9 DEF Copy, Begin
  <2>2. stood'[t] \subseteq stood[t]
    BY <2>1, <1>1, StoodShrinks
  <2> QED BY <2>1, <2>2, <1>1 DEF AllNamed, IsMeant
<1>10. CASE AllCopied(t)
  <2>1. phase[t] = "copying" /\ stood' = stood /\ folder' = folder /\ keys' = keys /\ moved'[t] = {}
    BY <1>1, <1>10 DEF AllCopied, Types
  <2> QED BY <2>1, <1>1 DEF AllNamed, IsMeant
<1>11. CASE DeleteSome(t)
  <2>1. phase[t] = "deleting" /\ phase' = phase /\ folder' = folder /\ keys' = keys /\ ~Begin(t)
    BY <1>11 DEF DeleteSome, Begin
  <2>2. \A k \in stood'[t] : k \in stood[t] /\ (objects'[k] = objects[k] \/ objects'[k] = None)
    BY <2>1, <1>1, WhatStands
  <2>3. moved'[t] = moved[t] \cup Batch(t)
    BY <1>1, <1>11 DEF DeleteSome, Types
  <2>4. PICK left : DeleteEach(t, Batch(t) \ left) /\ spared' = spared \cup Held(left)
    BY <1>11 DEF DeleteSome
  <2>5. \A k \in Keys : objects'[k] = IF k \in Batch(t) \ left THEN None ELSE objects[k]
    BY <2>4 DEF DeleteEach, Change, Without
  <2>6. ASSUME NEW k \in moved'[t] \cap stood'[t]
        PROVE  objects'[k] = None \/ k \in spared'
    <3>1. k \in stood[t] /\ k \in Keys
      BY <2>2, <1>1 DEF Noted
    <3>2. CASE k \in moved[t]
      <4>1. objects[k] = None \/ k \in spared
        BY <3>1, <3>2, <2>1, <1>1 DEF AllNamed
      <4> QED BY <4>1, <3>1, <2>4, <2>5
    <3>3. CASE k \in Batch(t) \ left
      BY <3>1, <3>3, <2>5
    <3>4. CASE k \in left
      <4>1. objects[k] # None => k \in Held(left)
        BY <3>1, <3>4 DEF Held, There
      <4> QED BY <4>1, <3>1, <2>4, <2>5
    <3> QED BY <3>2, <3>3, <3>4, <2>3
  <2>7. \A k \in stood'[t] : IsMeant(t, k)' => k \in keys'[t]
    BY <2>1, <2>2, <1>1 DEF AllNamed, IsMeant
  <2> QED BY <2>6, <2>7 DEF AllNamed
<1> QED BY <1>3, <1>4, <1>5, <1>6, <1>7, <1>8, <1>9, <1>10, <1>11 DEF Task, Asking

LEMMA ToldStep ==
    ASSUME Inv, NEW t \in Tasks, Task(t), Seen(t)
    PROVE  Told(t)'
<1>1. Types /\ Wanted(t) /\ AllNamed(t) /\ Course(t) /\ op' = op /\ make' = make
  BY OthersStay DEF Inv, Courses, Seen, Apart
<1>2. (IsObjectStore)' = IsObjectStore
  BY <1>1 DEF IsObjectStore
<1> USE DEF Step, mine, history
<1>3. CASE phase'[t] # "done"
  BY <1>3 DEF Told
<1>4. CASE LeafPage(t) /\ NothingKept
  BY <1>4, LeafPageStep
<1>5. CASE Send(t)
  <2>1. phase[t] = "sending"
    BY <1>5 DEF Send
  <2> QED BY <2>1, <1>1, <1>2 DEF Told, Wanted
<1>6. CASE Fill(t)
  <2>1. phase[t] = "filling"
    BY <1>6 DEF Fill
  <2> QED BY <2>1, <1>1, <1>2 DEF Told, Wanted
<1>7. CASE AllDeleted(t)
  <2>1. /\ phase[t] = "deleting" /\ moved[t] = keys[t] /\ folder' = folder /\ stood' = stood
        /\ objects' = objects /\ spared' = spared
    BY <1>7 DEF AllDeleted, AllMoved, NothingKept
  <2>2. op[t].do \in {"delete", "rename"}
    BY <2>1, <1>1 DEF Wanted
  <2> QED BY <2>1, <2>2, <1>1 DEF Told, AllNamed, IsMeant
<1>8. CASE ~Send(t) /\ ~Fill(t) /\ ~AllDeleted(t) /\ ~(LeafPage(t) /\ NothingKept)
  <2>1. CASE Begin(t) \/ RefuseInside(t) \/ FailQuietly(t) \/ Truncate(t) \/ CopyFails(t)
             \/ DeleteFails(t) \/ AllCopied(t)
    <3>1. phase'[t] # "done"
      BY <1>1, <2>1 DEF Begin, RefuseInside, FailQuietly, Fail, Truncate, CopyFails, DeleteFails,
                        AllCopied, Types
    <3> QED BY <3>1, <1>3
  <2>2. CASE HeadFile(t) \/ HeadNothing(t) \/ StatOne(t) \/ Probe(t)
    <3>1. phase'[t] # "done"
      BY <1>1, <2>2 DEF HeadFile, HeadNothing, StatOne, Probe, Types
    <3> QED BY <3>1, <1>3
  <2>3. CASE Page(t)
    <3>1. phase'[t] # "done"
      BY <1>1, <2>3 DEF Page, Types
    <3> QED BY <3>1, <1>3
  <2>4. CASE Copy(t) \/ DeleteSome(t)
    <3>1. phase'[t] # "done"
      BY <1>1, <2>4 DEF Copy, DeleteSome
    <3> QED BY <3>1, <1>3
  <2> QED BY <1>8, <2>1, <2>2, <2>3, <2>4 DEF Task, Asking
<1> QED BY <1>4, <1>5, <1>6, <1>7, <1>8

(* However many pages a folder is listed in, and whatever comes and goes   *)
(* between them, a listing of S3's or Azure's names all that was there     *)
(* throughout, and a deletion or a renaming that is done has taken away    *)
(* all that was - but what S3 spared without saying so                     *)
(* (NothingIsOverlooked, of s3.rs and azure/mod.rs).                       *)
THEOREM NothingIsEverOverlooked == Spec => []NothingIsOverlooked
<1> DEFINE All == \A t \in Tasks : Seen(t)
<1>1. Init => Inv /\ All
  BY InvInit, SeenInit
<1>2. ASSUME Inv, All, [Next]_vars
      PROVE  Inv' /\ All'
  <2>1. Inv'
    BY <1>2, InvStep
  <2>2. CASE UNCHANGED vars
    <3>1. /\ UNCHANGED <<objects, make, op, phase, folder, keys, moved, cursor, stood, spared>>
      BY <2>2 DEF vars, mine, history
    <3>2. ASSUME NEW t \in Tasks
          PROVE  Seen(t)'
      <4>1. Seen(t)
        BY <1>2
      <4>2. Noted(t)' /\ Wanted(t)' /\ Named(t)'
        BY <3>1, <4>1 DEF Seen, Noted, Wanted, Named, IsObjectStore
      <4>3. AllNamed(t)'
        BY <3>1, <4>1 DEF Seen, AllNamed, IsMeant
      <4>4. Told(t)'
        BY <3>1, <4>1 DEF Seen, Told, IsMeant, IsObjectStore
      <4> QED BY <4>2, <4>3, <4>4 DEF Seen
    <3> QED BY <3>2, <2>1
  <2>3. ASSUME NEW t \in Tasks, Task(t)
        PROVE  All'
    <3>1. ASSUME NEW u \in Tasks
          PROVE  Seen(u)'
      <4>1. Seen(u)
        BY <1>2
      <4>2. CASE u # t
        BY <4>1, <4>2, <2>3, <1>2, SeenByOthers
      <4>3. CASE u = t
        <5>1. Noted(t)' /\ Wanted(t)' /\ Named(t)' /\ AllNamed(t)' /\ Told(t)'
          BY <4>1, <4>3, <2>3, <1>2, NotedStep, WantedStep, NamedStep, AllNamedStep, ToldStep
        <5> QED BY <5>1, <4>3 DEF Seen
      <4> QED BY <4>2, <4>3
    <3> QED BY <3>1
  <2> QED BY <2>1, <2>2, <2>3, <1>2 DEF Next
<1>3. Inv /\ All => NothingIsOverlooked
  <2> SUFFICES ASSUME Inv, All, NEW t \in Tasks, phase[t] = "done", IsObjectStore
               PROVE  /\ op[t].do \in {"delete", "rename"} =>
                            \A k \in stood[t] : folder[t] = (k # File(op[t].at)) =>
                                objects[k] = None \/ k \in spared
                      /\ op[t].do = "list" =>
                            \A k \in (stood[t] \cap Under(op[t].at)) \ {Folder(op[t].at)} :
                                \E shown \in keys[t] :
                                    k = shown \/ (shown.folder /\ IsPrefix(shown.path, k.path))
    BY DEF NothingIsOverlooked
  <2>1. Told(t) /\ folder[t] \in BOOLEAN
    BY DEF Seen, Noted
  <2>2. ASSUME op[t].do \in {"delete", "rename"}, NEW k \in stood[t], folder[t] = (k # File(op[t].at))
        PROVE  objects[k] = None \/ k \in spared
    <3>1. IsMeant(t, k)
      <4>1. CASE k = File(op[t].at)
        <5>1. ~folder[t]
          BY <2>2, <4>1
        <5> QED BY <5>1, <4>1 DEF IsMeant
      <4>2. CASE k # File(op[t].at)
        <5>1. folder[t]
          BY <2>2, <4>2
        <5> QED BY <5>1, <4>2 DEF IsMeant
      <4> QED BY <4>1, <4>2
    <3> QED BY <3>1, <2>1, <2>2 DEF Told
  <2>3. ASSUME op[t].do = "list", NEW k \in (stood[t] \cap Under(op[t].at)) \ {Folder(op[t].at)}
        PROVE  \E shown \in keys[t] : k = shown \/ (shown.folder /\ IsPrefix(shown.path, k.path))
    <3>1. Shown(op[t].at, k) \in keys[t]
      BY <2>1, <2>3 DEF Told
    <3>2. op[t].at \in Paths \cup {<<>>}
      BY OpIs DEF Inv
    <3>3. \/ k = Shown(op[t].at, k)
          \/ Shown(op[t].at, k).folder /\ IsPrefix(Shown(op[t].at, k).path, k.path)
      BY <3>2, <2>3, ShownIs
    <3> QED BY <3>1, <3>3
  <2> QED BY <2>2, <2>3
<1> HIDE DEF All
<1> QED BY <1>1, <1>2, <1>3, PTL DEF Spec


-----------------------------------------------------------------------------
(* The elements of webdav's answer. *)

DavTags == {"multistatus", "response", "href", "resourcetype", "collection", "displayname",
            "amp"}

KindOf(k) == IF k.folder THEN "folder" ELSE "file"
AsFound(k) == [href |-> AsRead(k), isCollection |-> KindOf(k) = "folder"]

InPlace(found, href, kind, ins) ==
    [found |-> found, current |-> [href |-> href, isCollection |-> kind = "folder"],
     inside |-> ins, inResponse |-> TRUE, isListing |-> TRUE]

AfterPlaces(found, ins) ==
    [found |-> found, current |-> Found, inside |-> ins, inResponse |-> FALSE, isListing |-> TRUE]

(* An element with nothing in it but a text, or nothing at all. *)
LEMMA HrefIsRead ==
    ASSUME NEW V, DavTags \subseteq V, NEW k \in V, AsRead(k) \in V, NEW f, NEW h, NEW c, NEW ins
    PROVE  /\ Element("href", AsText(k)) \in Seq(Words(V))
           /\ Reads("dav", InPlace(f, h, c, ins), Element("href", AsText(k)), InPlace(f, AsRead(k), c, ""))
<1>1. /\ ReadNext("dav", InPlace(f, h, c, ins), Tag("start", "href")) = InPlace(f, h, c, "href")
      /\ ReadNext("dav", InPlace(f, h, c, "href"), Tag("text", k)) = InPlace(f, k, c, "href")
      /\ ReadNext("dav", InPlace(f, k, c, "href"), Tag("reference", "amp")) = InPlace(f, k, c, "href")
      /\ ReadNext("dav", InPlace(f, k, c, "href"), Tag("text", AsRead(k))) = InPlace(f, AsRead(k), c, "href")
      /\ ReadNext("dav", InPlace(f, h, c, "href"), Tag("text", AsRead(k))) = InPlace(f, AsRead(k), c, "href")
      /\ ReadNext("dav", InPlace(f, AsRead(k), c, "href"), Tag("end", "href")) = InPlace(f, AsRead(k), c, "")
  <2>1. ReadNext("dav", InPlace(f, h, c, ins), Tag("start", "href")) = InPlace(f, h, c, "href")
    BY DEF ReadNext, ReadOn, Opens, Closes, IsCollection, Tag, InPlace
  <2>2. ReadNext("dav", InPlace(f, h, c, "href"), Tag("text", k)) = InPlace(f, k, c, "href")
    BY DEF ReadNext, ReadOn, Opens, Closes, IsCollection, Tag, InPlace
  <2>5. ReadNext("dav", InPlace(f, k, c, "href"), Tag("text", AsRead(k))) = InPlace(f, AsRead(k), c, "href")
    BY DEF ReadNext, ReadOn, Opens, Closes, IsCollection, Tag, InPlace
  <2>6. ReadNext("dav", InPlace(f, h, c, "href"), Tag("text", AsRead(k))) = InPlace(f, AsRead(k), c, "href")
    BY DEF ReadNext, ReadOn, Opens, Closes, IsCollection, Tag, InPlace
  <2>4. ReadNext("dav", InPlace(f, k, c, "href"), Tag("reference", "amp")) = InPlace(f, k, c, "href")
    BY DEF ReadNext, ReadOn, Opens, Closes, IsCollection, Tag, InPlace
  <2>3. ReadNext("dav", InPlace(f, AsRead(k), c, "href"), Tag("end", "href")) = InPlace(f, AsRead(k), c, "")
    BY DEF ReadNext, ReadOn, Opens, Closes, IsCollection, Tag, InPlace
  <2> QED BY <2>1, <2>2, <2>3, <2>4, <2>5, <2>6
<1>3. "href" \in V /\ "amp" \in V
  BY DEF DavTags
<1>2. /\ AsText(k) \in Seq(Words(V))
      /\ Reads("dav", ReadNext("dav", InPlace(f, h, c, ins), Tag("start", "href")), AsText(k),
               InPlace(f, AsRead(k), c, "href"))
  BY <1>1, <1>3, NameIsWritten
<1> QED BY <1>1, <1>2, <1>3, ElementIsRead

LEMMA NameIsRead ==
    ASSUME NEW V, DavTags \subseteq V, NEW k \in V, AsRead(k) \in V, NEW f, NEW h, NEW c, NEW ins
    PROVE  /\ Element("displayname", AsText(k)) \in Seq(Words(V))
           /\ Reads("dav", InPlace(f, h, c, ins), Element("displayname", AsText(k)), InPlace(f, h, c, ""))
<1>1. /\ ReadNext("dav", InPlace(f, h, c, ins), Tag("start", "displayname")) = InPlace(f, h, c, "displayname")
      /\ ReadNext("dav", InPlace(f, h, c, "displayname"), Tag("text", k)) = InPlace(f, h, c, "displayname")
      /\ ReadNext("dav", InPlace(f, h, c, "displayname"), Tag("text", AsRead(k))) = InPlace(f, h, c, "displayname")
      /\ ReadNext("dav", InPlace(f, h, c, "displayname"), Tag("reference", "amp")) = InPlace(f, h, c, "displayname")
      /\ ReadNext("dav", InPlace(f, h, c, "displayname"), Tag("end", "displayname")) = InPlace(f, h, c, "")
  <2>1. ReadNext("dav", InPlace(f, h, c, ins), Tag("start", "displayname")) = InPlace(f, h, c, "displayname")
    BY DEF ReadNext, ReadOn, Opens, Closes, IsCollection, Tag, InPlace
  <2>2. ReadNext("dav", InPlace(f, h, c, "displayname"), Tag("text", k)) = InPlace(f, h, c, "displayname")
    BY DEF ReadNext, ReadOn, Opens, Closes, IsCollection, Tag, InPlace
  <2>5. ReadNext("dav", InPlace(f, h, c, "displayname"), Tag("text", AsRead(k))) = InPlace(f, h, c, "displayname")
    BY DEF ReadNext, ReadOn, Opens, Closes, IsCollection, Tag, InPlace
  <2>4. ReadNext("dav", InPlace(f, h, c, "displayname"), Tag("reference", "amp")) = InPlace(f, h, c, "displayname")
    BY DEF ReadNext, ReadOn, Opens, Closes, IsCollection, Tag, InPlace
  <2>3. ReadNext("dav", InPlace(f, h, c, "displayname"), Tag("end", "displayname")) = InPlace(f, h, c, "")
    BY DEF ReadNext, ReadOn, Opens, Closes, IsCollection, Tag, InPlace
  <2> QED BY <2>1, <2>2, <2>3, <2>4, <2>5
<1>3. "displayname" \in V /\ "amp" \in V
  BY DEF DavTags
<1>2. /\ AsText(k) \in Seq(Words(V))
      /\ Reads("dav", ReadNext("dav", InPlace(f, h, c, ins), Tag("start", "displayname")), AsText(k),
               InPlace(f, h, c, "displayname"))
  BY <1>1, <1>3, NameIsWritten
<1> QED BY <1>1, <1>2, <1>3, ElementIsRead

(* A folder says so, in one tag or in two. *)
KindWritten(k, style) ==
    IF style = "full" THEN Element("resourcetype", IF KindOf(k) = "folder" THEN Element("collection", <<>>) ELSE <<>>)
    ELSE IF KindOf(k) = "folder" THEN Element("resourcetype", Empty("collection"))
    ELSE Empty("resourcetype")

LEMMA KindIsRead ==
    ASSUME NEW V, DavTags \subseteq V, NEW k, NEW style \in {"full", "short"},
           NEW f, NEW h
    PROVE  /\ KindWritten(k, style) \in Seq(Words(V))
           /\ \A ins : \E last : Reads("dav", InPlace(f, h, "file", ins), KindWritten(k, style),
                                       InPlace(f, h, KindOf(k), last))
<1>1. "resourcetype" \in V /\ "collection" \in V
  BY DEF DavTags
<1>2. <<>> \in Seq(Words(V))
  OBVIOUS
<1>8. KindOf(k) \in {"folder", "file"}
  BY DEF KindOf
<1> DEFINE inner == InPlace(f, h, "file", "resourcetype")
           folder1 == InPlace(f, h, "folder", "resourcetype")
           folder2 == InPlace(f, h, "folder", "")
<1>3. /\ \A ins : ReadNext("dav", InPlace(f, h, "file", ins), Tag("start", "resourcetype")) = inner
      /\ ReadNext("dav", inner, Tag("start", "collection")) = folder1
      /\ ReadNext("dav", inner, Tag("empty", "collection")) = folder1
      /\ ReadNext("dav", folder1, Tag("end", "collection")) = folder2
      /\ ReadNext("dav", folder1, Tag("end", "resourcetype")) = folder2
      /\ ReadNext("dav", folder2, Tag("end", "resourcetype")) = folder2
      /\ ReadNext("dav", inner, Tag("end", "resourcetype")) = InPlace(f, h, "file", "")
      /\ \A ins : ReadNext("dav", InPlace(f, h, "file", ins), Tag("empty", "resourcetype"))
                    = InPlace(f, h, "file", ins)
  <2>1. \A ins : ReadNext("dav", InPlace(f, h, "file", ins), Tag("start", "resourcetype")) = inner
    BY DEF ReadNext, ReadOn, Opens, Closes, IsCollection, Tag, InPlace
  <2>2. ReadNext("dav", inner, Tag("start", "collection")) = folder1
    BY DEF ReadNext, ReadOn, Opens, Closes, IsCollection, Tag, InPlace
  <2>3. ReadNext("dav", inner, Tag("empty", "collection")) = folder1
    BY DEF ReadNext, ReadOn, Opens, Closes, IsCollection, Tag, InPlace
  <2>4. ReadNext("dav", folder1, Tag("end", "collection")) = folder2
    BY DEF ReadNext, ReadOn, Opens, Closes, IsCollection, Tag, InPlace
  <2>5. ReadNext("dav", folder1, Tag("end", "resourcetype")) = folder2
    BY DEF ReadNext, ReadOn, Opens, Closes, IsCollection, Tag, InPlace
  <2>6. ReadNext("dav", folder2, Tag("end", "resourcetype")) = folder2
    BY DEF ReadNext, ReadOn, Opens, Closes, IsCollection, Tag, InPlace
  <2>7. ReadNext("dav", inner, Tag("end", "resourcetype")) = InPlace(f, h, "file", "")
    BY DEF ReadNext, ReadOn, Opens, Closes, IsCollection, Tag, InPlace
  <2>8. \A ins : ReadNext("dav", InPlace(f, h, "file", ins), Tag("empty", "resourcetype"))
           = InPlace(f, h, "file", ins)
    BY DEF ReadNext, ReadOn, Opens, Closes, IsCollection, Tag, InPlace
  <2> QED BY <2>1, <2>2, <2>3, <2>4, <2>5, <2>6, <2>7, <2>8
<1> HIDE DEF inner, folder1
<1>4. CASE style = "full" /\ KindOf(k) = "folder"
  <2> DEFINE within == Element("collection", <<>>)
  <2>1. Reads("dav", ReadNext("dav", inner, Tag("start", "collection")), <<>>, folder1)
    BY <1>3, NothingToRead
  <2>2. within \in Seq(Words(V)) /\ Reads("dav", inner, within, folder2)
    <3>1. /\ within \in Seq(Words(V))
          /\ Reads("dav", inner, within, ReadNext("dav", folder1, Tag("end", "collection")))
      BY <1>1, <1>2, <2>1, ElementIsRead
    <3> QED BY <3>1, <1>3
  <2> HIDE DEF within, folder2
  <2>3. KindWritten(k, style) = Element("resourcetype", within)
    BY <1>4 DEF KindWritten, within
  <2>4. ASSUME NEW ins
        PROVE  /\ Element("resourcetype", within) \in Seq(Words(V))
               /\ Reads("dav", InPlace(f, h, "file", ins), Element("resourcetype", within), folder2)
    <3>1. Reads("dav", ReadNext("dav", InPlace(f, h, "file", ins), Tag("start", "resourcetype")), within, folder2)
      BY <1>3, <2>2
    <3>2. /\ Element("resourcetype", within) \in Seq(Words(V))
          /\ Reads("dav", InPlace(f, h, "file", ins), Element("resourcetype", within),
                   ReadNext("dav", folder2, Tag("end", "resourcetype")))
      BY <3>1, <1>1, <2>2, ElementIsRead
    <3> QED BY <3>2, <1>3
  <2> QED BY <2>3, <2>4, <1>4 DEF folder2
<1>5. CASE style = "full" /\ KindOf(k) # "folder"
  <2>1. KindWritten(k, style) = Element("resourcetype", <<>>)
    BY <1>5 DEF KindWritten
  <2>2. ASSUME NEW ins
        PROVE  /\ Element("resourcetype", <<>>) \in Seq(Words(V))
               /\ Reads("dav", InPlace(f, h, "file", ins), Element("resourcetype", <<>>), InPlace(f, h, "file", ""))
    <3>1. Reads("dav", ReadNext("dav", InPlace(f, h, "file", ins), Tag("start", "resourcetype")), <<>>, inner)
      BY <1>3, NothingToRead
    <3>2. /\ Element("resourcetype", <<>>) \in Seq(Words(V))
          /\ Reads("dav", InPlace(f, h, "file", ins), Element("resourcetype", <<>>),
                   ReadNext("dav", inner, Tag("end", "resourcetype")))
      BY <3>1, <1>1, <1>2, ElementIsRead
    <3> QED BY <3>2, <1>3
  <2> QED BY <2>1, <2>2, <1>5, <1>8
<1>6. CASE style # "full" /\ KindOf(k) = "folder"
  <2> DEFINE within == Empty("collection")
  <2>1. within = <<Tag("empty", "collection")>>
    BY DEF Empty, Tag
  <2>2. within \in Seq(Words(V)) /\ Reads("dav", inner, within, folder1)
    <3>1. Tag("empty", "collection") \in Words(V)
      BY <1>1, TagsAreWords
    <3>2. Reads("dav", inner, <<Tag("empty", "collection")>>, folder1)
      BY <1>3, OneIsRead
    <3>3. <<Tag("empty", "collection")>> \in Seq(Words(V))
      BY <3>1
    <3> HIDE DEF within
    <3> QED BY <2>1, <3>2, <3>3
  <2> HIDE DEF within, folder2
  <2>3. KindWritten(k, style) = Element("resourcetype", within)
    BY <1>6 DEF KindWritten, within
  <2>4. ASSUME NEW ins
        PROVE  /\ Element("resourcetype", within) \in Seq(Words(V))
               /\ Reads("dav", InPlace(f, h, "file", ins), Element("resourcetype", within), folder2)
    <3>1. Reads("dav", ReadNext("dav", InPlace(f, h, "file", ins), Tag("start", "resourcetype")), within, folder1)
      BY <1>3, <2>2
    <3>2. /\ Element("resourcetype", within) \in Seq(Words(V))
          /\ Reads("dav", InPlace(f, h, "file", ins), Element("resourcetype", within),
                   ReadNext("dav", folder1, Tag("end", "resourcetype")))
      BY <3>1, <1>1, <2>2, ElementIsRead
    <3> QED BY <3>2, <1>3
  <2> QED BY <2>3, <2>4, <1>6 DEF folder2
<1>7. CASE style # "full" /\ KindOf(k) # "folder"
  <2>1. KindWritten(k, style) = <<Tag("empty", "resourcetype")>>
    BY <1>7 DEF KindWritten, Empty, Tag
  <2>2. Tag("empty", "resourcetype") \in Words(V)
    BY <1>1, TagsAreWords
  <2>3. \A ins : Reads("dav", InPlace(f, h, "file", ins), <<Tag("empty", "resourcetype")>>,
                       InPlace(f, h, "file", ins))
    BY <1>3, OneIsRead
  <2>4. <<Tag("empty", "resourcetype")>> \in Seq(Words(V))
    BY <2>2
  <2> QED BY <2>1, <2>3, <2>4, <1>7, <1>8
<1> QED BY <1>4, <1>5, <1>6, <1>7

(* A place is read for what it is, whichever way it is written. *)
ResponseOf(k, style) == IF style = "full" THEN ResponseInFull(k) ELSE Response(k)

LEMMA ResponseIsRead ==
    ASSUME NEW V, DavTags \subseteq V, NEW k \in V, AsRead(k) \in V, NEW style \in {"full", "short"},
           NEW f, NEW ins
    PROVE  /\ ResponseOf(k, style) \in Seq(Words(V))
           /\ Reads("dav", AfterPlaces(f, ins), ResponseOf(k, style), AfterPlaces(Append(f, AsFound(k)), ""))
<1> DEFINE r == InPlace(f, <<>>, "file", ins)
           kind == KindWritten(k, style)
           href == Element("href", AsText(k))
           name == Element("displayname", AsText(k))
           W == Words(V)
<1>1. "response" \in V
  BY DEF DavTags
<1>2. /\ ReadNext("dav", AfterPlaces(f, ins), Tag("start", "response")) = r
      /\ \A last : ReadNext("dav", InPlace(f, AsRead(k), KindOf(k), last), Tag("end", "response"))
                     = AfterPlaces(Append(f, AsFound(k)), "")
  <2>1. ReadNext("dav", AfterPlaces(f, ins), Tag("start", "response")) = r
    BY DEF ReadNext, ReadOn, Opens, Closes, IsCollection, Tag, InPlace, AsFound, AfterPlaces, Found
  <2>2. \A last : ReadNext("dav", InPlace(f, AsRead(k), KindOf(k), last), Tag("end", "response"))
           = AfterPlaces(Append(f, AsFound(k)), "")
    BY DEF ReadNext, ReadOn, Opens, Closes, IsCollection, Tag, InPlace, AsFound, AfterPlaces, Found
  <2> QED BY <2>1, <2>2
<1>3. kind \in Seq(W) /\ href \in Seq(W) /\ name \in Seq(W)
  <2>1. kind \in Seq(W)
    BY KindIsRead
  <2>2. href \in Seq(W)
    BY HrefIsRead
  <2>3. name \in Seq(W)
    BY NameIsRead
  <2> QED BY <2>1, <2>2, <2>3
<1>4. ASSUME NEW within \in Seq(W), NEW last, Reads("dav", r, within, InPlace(f, AsRead(k), KindOf(k), last))
      PROVE  /\ Element("response", within) \in Seq(W)
             /\ Reads("dav", AfterPlaces(f, ins), Element("response", within),
                      AfterPlaces(Append(f, AsFound(k)), ""))
  <2>1. Reads("dav", ReadNext("dav", AfterPlaces(f, ins), Tag("start", "response")), within,
              InPlace(f, AsRead(k), KindOf(k), last))
    BY <1>2, <1>4
  <2>2. /\ Element("response", within) \in Seq(W)
        /\ Reads("dav", AfterPlaces(f, ins), Element("response", within),
                 ReadNext("dav", InPlace(f, AsRead(k), KindOf(k), last), Tag("end", "response")))
    BY <1>1, <2>1, ElementIsRead
  <2> QED BY <2>2, <1>2
<1>5. CASE style = "full"
  <2>1. PICK last : Reads("dav", r, kind, InPlace(f, <<>>, KindOf(k), last))
    BY KindIsRead
  <2>2. Reads("dav", InPlace(f, <<>>, KindOf(k), last), href, InPlace(f, AsRead(k), KindOf(k), ""))
    BY HrefIsRead
  <2>3. ResponseOf(k, style) = Element("response", kind \o href)
    BY <1>5 DEF ResponseOf, ResponseInFull, KindWritten, KindOf
  <2> HIDE DEF kind, href, W, r
  <2>4. kind \o href \in Seq(W) /\ Reads("dav", r, kind \o href, InPlace(f, AsRead(k), KindOf(k), ""))
    <3>1. kind \o href \in Seq(W)
      BY <1>3
    <3> QED BY <3>1, <1>3, <2>1, <2>2, ReadOneAfterTheOther
  <2> QED BY <2>3, <2>4, <1>4 DEF W
<1>6. CASE style # "full"
  <2>1. Reads("dav", r, href, InPlace(f, AsRead(k), "file", ""))
    BY HrefIsRead
  <2>2. PICK last : Reads("dav", InPlace(f, AsRead(k), "file", ""), kind, InPlace(f, AsRead(k), KindOf(k), last))
    BY KindIsRead
  <2>3. Reads("dav", InPlace(f, AsRead(k), KindOf(k), last), name, InPlace(f, AsRead(k), KindOf(k), ""))
    BY NameIsRead
  <2>4. ResponseOf(k, style) = Element("response", href \o kind \o name)
    BY <1>6 DEF ResponseOf, Response, KindWritten, KindOf
  <2> HIDE DEF kind, href, name, W, r
  <2>5. href \o kind \in Seq(W) /\ Reads("dav", r, href \o kind, InPlace(f, AsRead(k), KindOf(k), last))
    <3>1. href \o kind \in Seq(W)
      BY <1>3
    <3> QED BY <3>1, <1>3, <2>1, <2>2, ReadOneAfterTheOther
  <2> DEFINE both == href \o kind
  <2> HIDE DEF both
  <2>6. both \o name \in Seq(W) /\ Reads("dav", r, both \o name, InPlace(f, AsRead(k), KindOf(k), ""))
    <3>1. both \in Seq(W) /\ Reads("dav", r, both, InPlace(f, AsRead(k), KindOf(k), last))
      BY <2>5 DEF both
    <3>2. both \o name \in Seq(W)
      BY <1>3, <3>1
    <3> QED BY <3>1, <3>2, <1>3, <2>3, ReadOneAfterTheOther
  <2> QED BY <2>4, <2>6, <1>4 DEF W, both
<1> QED BY <1>5, <1>6

LEMMA PlacesAreRead ==
    ASSUME NEW V, DavTags \subseteq V, NEW ks, ks \subseteq V, IsFiniteSet(ks),
            \A k \in ks : AsRead(k) \in V,
            NEW style \in {"full", "short"}, NEW ins
    PROVE  \E body \in Seq(Words(V)) : \E last :
              /\ body = IF style = "full" THEN Written(ks, ResponseInFull) ELSE Written(ks, Response)
              /\ Reads("dav", AfterPlaces(<<>>, ins), body,
                       AfterPlaces([i \in 1 .. Cardinality(ks) |-> AsFound(SetToSeq(ks)[i])], last))
<1> DEFINE n == Cardinality(ks)
           all == SetToSeq(ks)
           bodies == [i \in 1 .. n |-> ResponseOf(all[i], style)]
           places(m) == [i \in 1 .. m |-> AsFound(all[i])]
           st == [i \in 0 .. n |-> AfterPlaces(places(i), IF i = 0 THEN ins ELSE "")]
<1>1. n \in Nat /\ (\A i \in 1 .. n : all[i] \in ks)
  BY AllInSequence
<1>2. Together(bodies) = IF style = "full" THEN Written(ks, ResponseInFull) ELSE Written(ks, Response)
  BY DEF Written, ResponseOf
<1>15. [i \in 1 .. Cardinality(ks) |-> AsFound(SetToSeq(ks)[i])] = places(n)
  OBVIOUS
<1> HIDE DEF n, all
<1>3. bodies \in Seq(Seq(Words(V))) /\ Len(bodies) = n
  <2>1. \A i \in 1 .. n : ResponseOf(all[i], style) \in Seq(Words(V))
    BY <1>1, ResponseIsRead
  <2> QED BY <2>1, <1>1
<1>4. ASSUME NEW i \in 1 .. Len(bodies)
      PROVE  Reads("dav", st[i - 1], bodies[i], st[i])
  <2>1. i \in 1 .. n /\ i \in 0 .. n /\ i - 1 \in 0 .. n /\ i # 0 /\ i - 1 \in Nat /\ (i - 1) + 1 = i
    BY <1>1, <1>3
  <2>2. places(i) = Append(places(i - 1), AsFound(all[i]))
    <3>1. places(i - 1) \in Seq({AsFound(all[j]) : j \in 1 .. i}) /\ Len(places(i - 1)) = i - 1
      BY <2>1
    <3>2. \A j \in 1 .. i : Append(places(i - 1), AsFound(all[i]))[j] = AsFound(all[j])
      BY <2>1, <3>1
    <3>3. Append(places(i - 1), AsFound(all[i])) \in Seq({AsFound(all[j]) : j \in 1 .. i})
          /\ Len(Append(places(i - 1), AsFound(all[i]))) = i
      BY <2>1, <3>1
    <3>4. places(i) \in Seq({AsFound(all[j]) : j \in 1 .. i}) /\ Len(places(i)) = i
          /\ \A j \in 1 .. i : places(i)[j] = AsFound(all[j])
      BY <2>1
    <3> HIDE DEF places
    <3> QED BY <3>2, <3>3, <3>4, SeqEqual
  <2>3. all[i] \in V /\ AsRead(all[i]) \in V
    BY <2>1, <1>1
  <2> HIDE DEF places
  <2>4. \A there : Reads("dav", AfterPlaces(places(i - 1), there), ResponseOf(all[i], style),
                         AfterPlaces(Append(places(i - 1), AsFound(all[i])), ""))
    BY <2>3, ResponseIsRead
  <2>5. st[i] = AfterPlaces(places(i), "")
    BY <2>1
  <2>6. \E there : st[i - 1] = AfterPlaces(places(i - 1), there)
    BY <2>1
  <2>7. bodies[i] = ResponseOf(all[i], style)
    BY <2>1
  <2> HIDE DEF st, bodies
  <2> QED BY <2>2, <2>4, <2>5, <2>6, <2>7
<1>5. st[0] = AfterPlaces(<<>>, ins)
  <2>1. 0 \in 0 .. n /\ places(0) = <<>>
    BY <1>1
  <2> QED BY <2>1
<1>6. \E last : st[n] = AfterPlaces(places(n), last)
  <2>1. n \in 0 .. n
    BY <1>1
  <2>2. st[n] = AfterPlaces(places(n), IF n = 0 THEN ins ELSE "")
    BY <2>1
  <2> HIDE DEF places, st
  <2> QED BY <2>2
<1> HIDE DEF st, bodies, places
<1>7. Together(bodies) \in Seq(Words(V)) /\ Reads("dav", st[0], Together(bodies), st[n])
  <2>1. /\ Together(bodies) \in Seq(Words(V))
        /\ Reads("dav", st[0], Together(bodies), st[Len(bodies)])
    BY <1>3, <1>4, TogetherIsRead
  <2> QED BY <2>1, <1>3
<1> QED BY <1>2, <1>5, <1>6, <1>7, <1>15

(* Whatever places a server names, parse_multistatus reads them all, in    *)
(* the order they came, which of them are folders, and every name as what  *)
(* is behind its last reference: as it is, if it has none.                 *)
THEOREM DavIsUnderstood ==
    ASSUME NEW ks, IsFiniteSet(ks), NEW inFull
    PROVE  parse_multistatus(MultistatusOf(ks, inFull))
             = [i \in 1 .. Cardinality(ks) |-> AsFound(SetToSeq(ks)[i])]
<1> DEFINE V == DavTags \cup ks \cup ReadOf(ks)
           found == [i \in 1 .. Cardinality(ks) |-> AsFound(SetToSeq(ks)[i])]
<1>1. DavTags \subseteq V /\ ks \subseteq V /\ \A k \in ks : AsRead(k) \in V
  BY DEF ReadOf
<1>2. "multistatus" \in V
  BY DEF DavTags
<1> HIDE DEF V
<1>11. PICK style \in {"full", "short"} : style = IF inFull THEN "full" ELSE "short"
  OBVIOUS
<1>3. PICK body \in Seq(Words(V)) : \E last :
         /\ body = IF style = "full" THEN Written(ks, ResponseInFull) ELSE Written(ks, Response)
         /\ Reads("dav", AfterPlaces(<<>>, ""), body, AfterPlaces(found, last))
  BY <1>1, PlacesAreRead
<1> HIDE DEF found
<1>10. PICK last : Reads("dav", AfterPlaces(<<>>, ""), body, AfterPlaces(found, last))
  BY <1>3
<1>4. /\ ReadNext("dav", ToRead, Tag("start", "multistatus")) = AfterPlaces(<<>>, "")
      /\ ReadNext("dav", AfterPlaces(found, last), Tag("end", "multistatus")) = AfterPlaces(found, "")
  <2>1. ReadNext("dav", ToRead, Tag("start", "multistatus")) = AfterPlaces(<<>>, "")
    BY DEF ReadNext, ReadOn, Opens, Tag, ToRead, AfterPlaces
  <2>2. ReadNext("dav", AfterPlaces(found, last), Tag("end", "multistatus")) = AfterPlaces(found, "")
    BY DEF ReadNext, ReadOn, Opens, Closes, IsCollection, Tag, AfterPlaces
  <2> QED BY <2>1, <2>2
<1>5. Reads("dav", ReadNext("dav", ToRead, Tag("start", "multistatus")), body, AfterPlaces(found, last))
  BY <1>10, <1>4
<1>6. /\ Element("multistatus", body) \in Seq(Words(V))
      /\ Reads("dav", ToRead, Element("multistatus", body), AfterPlaces(found, ""))
  <2>1. /\ Element("multistatus", body) \in Seq(Words(V))
        /\ Reads("dav", ToRead, Element("multistatus", body),
                 ReadNext("dav", AfterPlaces(found, last), Tag("end", "multistatus")))
    BY <1>2, <1>5, ElementIsRead
  <2> QED BY <2>1, <1>4
<1>7. MultistatusOf(ks, inFull) = Element("multistatus", body)
  BY <1>3, <1>11 DEF MultistatusOf
<1>8. AfterPlaces(found, "").isListing /\ AfterPlaces(found, "").found = found
  BY DEF AfterPlaces
<1>9. parse_multistatus(Element("multistatus", body)) = found
  BY <1>6, <1>8, MultistatusIs
<1> QED BY <1>7, <1>9 DEF found

-----------------------------------------------------------------------------
(* Trees in which nothing is a file and a folder at once. *)

OneOfEach(t) == \A p \in Paths : ~(There(t, File(p)) /\ There(t, Folder(p)))

LEMMA WellFormedIs ==
    ASSUME NEW t
    PROVE  WellFormed(t) <=> Parented(t) /\ OneOfEach(t)
<1>1. ASSUME WellFormed(t)
      PROVE  Parented(t) /\ OneOfEach(t)
  <2>1. Parented(t)
    BY <1>1 DEF WellFormed, Parented
  <2>2. ASSUME NEW p \in Paths, There(t, File(p))
        PROVE  ~There(t, Folder(p))
    <3>1. File(p) \in Keys /\ t[File(p)] # None /\ File(p).path = p
      BY <2>2, KeysApart DEF There
    <3> QED BY <3>1, <2>2, <1>1 DEF WellFormed
  <2> QED BY <2>1, <2>2 DEF OneOfEach
<1>2. ASSUME Parented(t), OneOfEach(t)
      PROVE  WellFormed(t)
  <2>1. \A k \in Keys : k.path \in Paths
    BY DEF Paths
  <2> QED BY <2>1, <1>2 DEF WellFormed, Parented, OneOfEach
<1> QED BY <1>1, <1>2

LEMMA OneOfEachAfterPut ==
    ASSUME NEW t \in Trees, NEW c \in Contents, OneOfEach(t), NEW p,
           NEW k, (k = File(p) /\ ~There(t, Folder(p))) \/ (k = Folder(p) /\ ~There(t, File(p)))
    PROVE  OneOfEach(Put(t, k, c))
<1> SUFFICES ASSUME NEW q \in Paths, There(Put(t, k, c), File(q)), There(Put(t, k, c), Folder(q))
             PROVE  FALSE
  BY DEF OneOfEach
<1>1. \A j : There(Put(t, k, c), j) => j = k \/ There(t, j)
  BY DEF Put, There, Trees
<1>2. \/ There(t, File(q)) /\ Folder(q) = k
      \/ There(t, Folder(q)) /\ File(q) = k
  BY <1>1, KeysApart DEF OneOfEach
<1>3. q = p
  BY <1>2, KeysApart
<1> QED BY <1>2, <1>3, KeysApart

LEMMA OneOfEachWithout ==
    ASSUME NEW t, OneOfEach(t), NEW ks
    PROVE  OneOfEach(Without(t, ks))
<1>1. \A j : There(Without(t, ks), j) => There(t, j)
  BY DEF Without, There
<1> QED BY <1>1 DEF OneOfEach

(* What a deletion or a renaming takes along. *)
Going(t, p) == {k \in Moving(t, p) : There(t, k)}

(* Where something goes nothing was, and it is not below what is moved. *)
LEMMA WhereItGoes ==
    ASSUME NEW t, Parented(t), NEW p \in Paths, NEW q \in Paths, CanRename(t, p, q), Fits(p, q),
           NEW j \in Moving(t, p), There(t, j)
    PROVE  /\ j \in Keys /\ IsPrefix(p, j.path)
           /\ Rebase(j, p, q) \in Keys /\ ~There(t, Rebase(j, p, q))
           /\ ~IsPrefix(p, Rebase(j, p, q).path) /\ Rebase(j, p, q).folder = j.folder
<1> DEFINE r == Rebase(j, p, q).path
<1>1. j \in Keys /\ IsPrefix(p, j.path) /\ Rebase(j, p, q) \in Keys
  BY WhatMoves DEF Fits
<1>2. p \in Seq(Letters) /\ p # <<>> /\ q \in Seq(Letters) /\ q # <<>>
  BY PathsOfKeys
<1>3. r \in Seq(Letters) /\ Rebase(j, p, q).folder = j.folder
  BY <1>1, PathsOfKeys, RebaseOfKey DEF Rebased
<1>4. ~There(t, File(q)) /\ ~There(t, Folder(q))
  BY DEF CanRename, IsFree, HasFolder
<1>5. IsPrefix(q, r)
  <2>1. CASE j.path = p
    <3>1. r = q
      BY <2>1, <1>1, RebaseOfKey
    <3> QED BY <3>1, <1>2, LenProperties, PrefixIs
  <2>2. CASE j.path # p
    BY <2>2, <1>1, RebaseOfKey
  <2> QED BY <2>1, <2>2
<1>6. ~There(t, Rebase(j, p, q))
  <2> SUFFICES ASSUME There(t, Rebase(j, p, q)) PROVE FALSE
    OBVIOUS
  <2>1. CASE r = q
    <3>1. Rebase(j, p, q) = File(q) \/ Rebase(j, p, q) = Folder(q)
      BY <2>1, <1>1, PathsOfKeys
    <3> QED BY <3>1, <1>4
  <2>2. CASE r # q
    <3>1. There(t, Folder(q))
      BY <2>2, <1>1, <1>2, <1>5, FoldersAbove DEF There
    <3> QED BY <3>1, <1>4
  <2> QED BY <2>1, <2>2
<1>7. ~IsPrefix(p, r)
  <2> SUFFICES ASSUME IsPrefix(p, r) PROVE FALSE
    OBVIOUS
  <2> HIDE DEF r
  <2>1. /\ Len(p) \in Nat /\ Len(q) \in Nat /\ Len(p) <= Len(r) /\ Len(q) <= Len(r) /\ Len(r) \in Nat
        /\ \A i \in 1 .. Len(p) : p[i] = r[i]
        /\ \A i \in 1 .. Len(q) : q[i] = r[i]
    BY <1>2, <1>3, <1>5, LenProperties, PrefixIs
  <2>2. CASE Len(p) <= Len(q)
    <3>1. \A i \in 1 .. Len(p) : p[i] = q[i]
      BY <2>1, <2>2
    <3>2. IsPrefix(p, q)
      BY <3>1, <2>2, <1>2, PrefixIs
    <3> QED BY <3>2 DEF CanRename
  <2>3. CASE Len(q) < Len(p)
    <3>1. \A i \in 1 .. Len(q) : q[i] = p[i]
      BY <2>1, <2>3
    <3>2. IsPrefix(q, p) /\ q # p
      BY <3>1, <2>1, <2>3, <1>2, PrefixIs
    <3>3. There(t, File(p)) \/ There(t, Folder(p))
      BY <1>2 DEF CanRename, IsFree, HasFolder
    <3>4. \E k \in Keys : t[k] # None /\ k.path = p
      BY <3>3, KeysApart DEF There
    <3>5. There(t, Folder(q))
      BY <3>2, <3>4, <1>2, FoldersAbove
    <3> QED BY <3>5, <1>4
  <2> QED BY <2>1, <2>2, <2>3
<1> QED BY <1>1, <1>3, <1>6, <1>7 DEF r

LEMMA OneOfEachMoved ==
    ASSUME NEW t, Parented(t), OneOfEach(t), NEW p \in Paths, NEW q \in Paths,
           CanRename(t, p, q), Fits(p, q)
    PROVE  OneOfEach(Moved(t, p, q))
<1> DEFINE u == Moved(t, p, q)
<1> SUFFICES ASSUME NEW s \in Paths, There(u, File(s)), There(u, Folder(s))
             PROVE  FALSE
  BY DEF OneOfEach
<1>1. \A k \in Keys : u[k] # None =>
         \/ k \notin Moving(t, p) /\ t[k] # None
         \/ \E j \in Moving(t, p) : t[j] # None /\ Rebase(j, p, q) = k
  BY MoveIs
<1> HIDE DEF u
<1>2. p \in Seq(Letters) /\ q \in Seq(Letters) /\ q # <<>>
  BY PathsOfKeys
<1>3. ASSUME NEW k \in Keys, k.path = s, NEW i \in Keys, i.path = s, k.folder # i.folder,
             NEW j \in Moving(t, p), t[j] # None, Rebase(j, p, q) = k, u[i] # None
      PROVE  \E h \in Moving(t, p) : t[h] # None /\ Rebase(h, p, q) = i
  <2> SUFFICES ASSUME i \notin Moving(t, p), t[i] # None PROVE FALSE
    BY <1>1, <1>3
  <2>1. j \in Keys /\ IsPrefix(p, j.path)
    BY WhatMoves
  <2>2. ~There(t, File(q)) /\ ~There(t, Folder(q))
    BY DEF CanRename, IsFree, HasFolder
  <2>3. CASE j.path = p
    <3>1. i.path = q
      BY <2>1, <2>3, <1>3, RebaseOfKey
    <3> QED BY <3>1, <2>2, PathsOfKeys DEF There
  <2>4. CASE j.path # p
    <3>1. IsPrefix(q, i.path) /\ q # i.path
      BY <2>1, <2>4, <1>3, RebaseOfKey
    <3> QED BY <3>1, <2>2, <1>2, FoldersAbove
  <2> QED BY <2>3, <2>4
<1>4. /\ File(s) \in Keys /\ Folder(s) \in Keys /\ u[File(s)] # None /\ u[Folder(s)] # None
      /\ File(s).path = s /\ Folder(s).path = s /\ File(s).folder = FALSE /\ Folder(s).folder = TRUE
  BY KeysApart DEF There, File, Folder
<1>5. CASE t[File(s)] # None /\ t[Folder(s)] # None
  BY <1>4, <1>5 DEF OneOfEach, There
<1>6. CASE \/ \E j \in Moving(t, p) : t[j] # None /\ Rebase(j, p, q) = File(s)
           \/ \E j \in Moving(t, p) : t[j] # None /\ Rebase(j, p, q) = Folder(s)
  <2>1. /\ \E j \in Moving(t, p) : t[j] # None /\ Rebase(j, p, q) = File(s)
        /\ \E j \in Moving(t, p) : t[j] # None /\ Rebase(j, p, q) = Folder(s)
    BY <1>3, <1>4, <1>6
  <2>2. PICK i \in Moving(t, p) : t[i] # None /\ Rebase(i, p, q) = File(s)
    BY <2>1
  <2>3. PICK j \in Moving(t, p) : t[j] # None /\ Rebase(j, p, q) = Folder(s)
    BY <2>1
  <2>4. i \in Keys /\ IsPrefix(p, i.path) /\ j \in Keys /\ IsPrefix(p, j.path)
    BY WhatMoves
  <2>5. Rebased(i, p, q) /\ Rebased(j, p, q)
    BY <2>4, RebaseOfKey
  <2>6. i.folder = FALSE /\ j.folder = TRUE
    BY <2>2, <2>3, <2>5, <1>4 DEF Rebased
  <2>7. /\ Len(i.path) = Len(j.path)
        /\ \A n \in 1 .. Len(i.path) - Len(p) : i.path[Len(p) + n] = j.path[Len(p) + n]
    <3>1. Len(p) \in Nat /\ Len(q) \in Nat /\ Len(i.path) \in Nat /\ Len(j.path) \in Nat
      BY <1>2, <2>4, PathsOfKeys, LenProperties
    <3>2. Len(s) = Len(q) + (Len(i.path) - Len(p)) /\ Len(s) = Len(q) + (Len(j.path) - Len(p))
      BY <2>2, <2>3, <2>5, <1>4 DEF Rebased
    <3>3. Len(i.path) = Len(j.path)
      BY <3>1, <3>2
    <3>4. \A n \in 1 .. Len(i.path) - Len(p) : s[Len(q) + n] = i.path[Len(p) + n]
      BY <2>2, <2>5, <1>4 DEF Rebased
    <3>5. \A n \in 1 .. Len(j.path) - Len(p) : s[Len(q) + n] = j.path[Len(p) + n]
      BY <2>3, <2>5, <1>4 DEF Rebased
    <3> QED BY <3>3, <3>4, <3>5
  <2>8. i.path = j.path
    <3>1. /\ i.path \in Seq(Letters) /\ j.path \in Seq(Letters) /\ Len(p) \in Nat
          /\ Len(i.path) \in Nat
      BY <1>2, <2>4, PathsOfKeys, LenProperties
    <3>2. /\ Len(p) <= Len(i.path) /\ \A n \in 1 .. Len(p) : p[n] = i.path[n] /\ p[n] = j.path[n]
      BY <3>1, <2>4, <1>2, PrefixIs
    <3>3. ASSUME NEW n \in 1 .. Len(i.path)
          PROVE  i.path[n] = j.path[n]
      <4>1. CASE n <= Len(p)
        BY <4>1, <3>1, <3>2
      <4>2. CASE n > Len(p)
        <5>1. n - Len(p) \in 1 .. Len(i.path) - Len(p) /\ Len(p) + (n - Len(p)) = n
          BY <4>2, <3>1
        <5>2. i.path[Len(p) + (n - Len(p))] = j.path[Len(p) + (n - Len(p))]
          BY <5>1, <2>7
        <5> QED BY <5>1, <5>2
      <4> QED BY <4>1, <4>2, <3>1
    <3> QED BY <3>1, <3>3, <2>7, SeqEqual
  <2>9. i = File(i.path) /\ j = Folder(i.path) /\ i.path \in Paths
    <3>1. (i = File(i.path) \/ i = Folder(i.path)) /\ (j = File(j.path) \/ j = Folder(j.path))
      BY <2>4, PathsOfKeys
    <3>2. File(i.path).folder = FALSE /\ Folder(i.path).folder = TRUE
      BY DEF File, Folder
    <3> QED BY <3>1, <3>2, <2>4, <2>6, <2>8 DEF Paths
  <2> QED BY <2>2, <2>3, <2>4, <2>9 DEF OneOfEach, There
<1> QED BY <1>1, <1>4, <1>5, <1>6

-----------------------------------------------------------------------------
(* The tree s while something is under way in it: some of what goes from p *)
(* to q is copied, and some of it deleted.                                 *)
Stage(r, s, p, q, copied, deleted) ==
    /\ \A j \in copied : r[Rebase(j, p, q)] = s[j]
    /\ \A k \in Keys : (\A j \in copied : Rebase(j, p, q) # k) =>
          r[k] = IF k \in deleted THEN None ELSE s[k]

Movable(s, p, q) == Parented(s) /\ p \in Paths /\ q \in Paths /\ CanRename(s, p, q) /\ Fits(p, q)

LEMMA StageOfNothing ==
    ASSUME NEW r \in Trees, NEW s \in Trees, NEW p, NEW q
    PROVE  Stage(r, s, p, q, {}, {}) <=> r = s
<1>1. Stage(r, s, p, q, {}, {}) <=> \A k \in Keys : r[k] = s[k]
  BY DEF Stage
<1>2. r = [k \in Keys |-> r[k]] /\ s = [k \in Keys |-> s[k]]
  BY DEF Trees
<1>3. (\A k \in Keys : r[k] = s[k]) => r = s
  BY <1>2
<1> QED BY <1>1, <1>3

LEMMA StageOfADeletion ==
    ASSUME NEW r \in Trees, NEW s \in Trees, NEW p, NEW q, Stage(r, s, p, q, {}, Going(s, p))
    PROVE  r = Without(s, Moving(s, p))
<1>1. \A k \in Keys : r[k] = IF k \in Going(s, p) THEN None ELSE s[k]
  BY DEF Stage
<1>2. \A k \in Keys : r[k] = IF k \in Moving(s, p) THEN None ELSE s[k]
  BY <1>1 DEF Going, There
<1>3. r = [k \in Keys |-> r[k]]
  BY DEF Trees
<1> QED BY <1>2, <1>3 DEF Without

(* Below what is moved, nothing is copied to. *)
LEMMA StageUnder ==
    ASSUME NEW r, NEW s, NEW p, NEW q, NEW copied, NEW deleted,
           Stage(r, s, p, q, copied, deleted),
           copied \subseteq Going(s, p), copied = {} \/ Movable(s, p, q),
           NEW k \in Keys, IsPrefix(p, k.path)
    PROVE  r[k] = IF k \in deleted THEN None ELSE s[k]
<1>1. ASSUME NEW j \in copied
      PROVE  Rebase(j, p, q) # k
  <2>1. j \in Moving(s, p) /\ There(s, j) /\ Movable(s, p, q)
    BY DEF Going
  <2>2. ~IsPrefix(p, Rebase(j, p, q).path)
    BY <2>1, WhereItGoes DEF Movable
  <2> QED BY <2>2
<1> QED BY <1>1 DEF Stage

LEMMA StageOfACopy ==
    ASSUME NEW r \in Trees, NEW s, NEW p, NEW q, NEW copied \in SUBSET Going(s, p),
           Movable(s, p, q), Stage(r, s, p, q, copied, {}), NEW j \in Going(s, p),
           NEW after, \A k \in Keys : after[k] = IF k = Rebase(j, p, q) THEN r[j] ELSE r[k]
    PROVE  Stage(after, s, p, q, copied \cup {j}, {})
<1>1. \A i \in Going(s, p) : /\ i \in Keys /\ IsPrefix(p, i.path) /\ Rebase(i, p, q) \in Keys
  BY WhereItGoes DEF Movable, Going
<1>2. r[j] = s[j]
  BY <1>1, StageUnder
<1>3. p \in Seq(Letters) /\ q \in Seq(Letters)
  BY PathsOfKeys DEF Movable
<1>4. ASSUME NEW i \in copied \cup {j}
      PROVE  after[Rebase(i, p, q)] = s[i]
  <2>1. CASE Rebase(i, p, q) = Rebase(j, p, q)
    <3>1. i = j
      BY <2>1, <1>1, <1>3, RebaseTellsApart
    <3> QED BY <3>1, <1>1, <1>2
  <2>2. CASE Rebase(i, p, q) # Rebase(j, p, q)
    <3>1. i \in copied
      BY <2>2
    <3>2. after[Rebase(i, p, q)] = r[Rebase(i, p, q)]
      BY <2>2, <3>1, <1>1
    <3> QED BY <3>1, <3>2 DEF Stage
  <2> QED BY <2>1, <2>2
<1>5. ASSUME NEW k \in Keys, \A i \in copied \cup {j} : Rebase(i, p, q) # k
      PROVE  after[k] = s[k]
  <2>1. after[k] = r[k]
    BY <1>5
  <2> QED BY <2>1, <1>5 DEF Stage
<1> QED BY <1>4, <1>5 DEF Stage

LEMMA StageOfADelete ==
    ASSUME NEW r \in Trees, NEW s, NEW p, NEW q, NEW copied \in SUBSET Going(s, p), NEW deleted,
           copied = {} \/ Movable(s, p, q), Stage(r, s, p, q, copied, deleted),
           NEW ks \in SUBSET Going(s, p), \A k \in ks : IsPrefix(p, k.path)
    PROVE  Stage(Without(r, ks), s, p, q, copied, deleted \cup ks)
<1>1. \A k \in Keys : Without(r, ks)[k] = IF k \in ks THEN None ELSE r[k]
  BY DEF Without
<1>2. ASSUME NEW i \in copied
      PROVE  Without(r, ks)[Rebase(i, p, q)] = s[i]
  <2>1. i \in Moving(s, p) /\ There(s, i) /\ Movable(s, p, q)
    BY DEF Going
  <2>2. ~IsPrefix(p, Rebase(i, p, q).path) /\ Rebase(i, p, q) \in Keys
    BY <2>1, WhereItGoes DEF Movable
  <2>3. Rebase(i, p, q) \notin ks
    BY <2>2
  <2> QED BY <2>2, <2>3, <1>1 DEF Stage
<1>3. ASSUME NEW k \in Keys, \A i \in copied : Rebase(i, p, q) # k
      PROVE  Without(r, ks)[k] = IF k \in deleted \cup ks THEN None ELSE s[k]
  <2>1. r[k] = IF k \in deleted THEN None ELSE s[k]
    BY <1>3 DEF Stage
  <2> QED BY <2>1, <1>1
<1> QED BY <1>2, <1>3 DEF Stage

LEMMA StageOfARenaming ==
    ASSUME NEW r \in Trees, NEW s \in Trees, NEW p, NEW q, Movable(s, p, q),
           Stage(r, s, p, q, Going(s, p), Going(s, p))
    PROVE  r = Moved(s, p, q)
<1> DEFINE m == Moved(s, p, q)
<1>1. /\ \A j \in Moving(s, p) : s[j] # None => Rebase(j, p, q) \in Keys /\ m[Rebase(j, p, q)] = s[j]
      /\ \A k \in Keys \ Moving(s, p) : s[k] # None => m[k] = s[k]
      /\ \A k \in Keys : m[k] # None =>
            \/ k \notin Moving(s, p) /\ s[k] # None
            \/ \E j \in Moving(s, p) : s[j] # None /\ Rebase(j, p, q) = k
  BY MoveIs DEF Movable
<1>2. m \in Trees
  BY TreesAgain DEF Movable
<1> HIDE DEF m
<1>3. \A j \in Moving(s, p) : j \in Keys
  BY WhatMoves DEF Movable
<1>4. ASSUME NEW k \in Keys
      PROVE  r[k] = m[k]
  <2>1. CASE \E j \in Going(s, p) : Rebase(j, p, q) = k
    <3>1. PICK j \in Going(s, p) : Rebase(j, p, q) = k
      BY <2>1
    <3>2. j \in Moving(s, p) /\ s[j] # None
      BY DEF Going, There
    <3>3. r[k] = s[j]
      BY <3>1 DEF Stage
    <3> QED BY <3>1, <3>2, <3>3, <1>1
  <2>2. CASE \A j \in Going(s, p) : Rebase(j, p, q) # k
    <3>1. r[k] = IF k \in Going(s, p) THEN None ELSE s[k]
      BY <2>2 DEF Stage
    <3>2. ~\E j \in Moving(s, p) : s[j] # None /\ Rebase(j, p, q) = k
      BY <2>2, <1>3 DEF Going, There
    <3>3. CASE k \in Moving(s, p)
      <4>1. m[k] = None
        BY <3>2, <3>3, <1>1
      <4>2. r[k] = None
        BY <3>1, <3>3 DEF Going, There
      <4> QED BY <4>1, <4>2
    <3>4. CASE k \notin Moving(s, p)
      <4>1. r[k] = s[k]
        BY <3>1, <3>4 DEF Going
      <4>2. s[k] # None => m[k] = s[k]
        BY <3>4, <1>1
      <4>3. s[k] = None => m[k] = None
        BY <3>2, <1>1
      <4> QED BY <4>1, <4>2, <4>3
    <3> QED BY <3>3, <3>4
  <2> QED BY <2>1, <2>2
<1>5. r = [k \in Keys |-> r[k]] /\ m = [k \in Keys |-> m[k]]
  BY <1>2 DEF Trees
<1>6. r = m
  BY <1>4, <1>5
<1> QED BY <1>6 DEF m

-----------------------------------------------------------------------------
(* Trees as somebody sees them who does one thing after another. *)

Orderly(s) == s \in Trees /\ WellFormed(s) /\ \A k \in Keys, t \in Tasks : s[k] # Torn[t]

(* A lawful operation leaves an orderly tree behind. *)
Outcome(o, t, s) ==
    CASE o.do = "write" -> Put(s, File(o.at), t)
      [] o.do = "create" -> Put(s, Folder(o.at), t)
      [] o.do = "delete" -> Without(s, Moving(s, o.at))
      [] o.do = "rename" -> Moved(s, o.at, o.to)
      [] o.do \in {"read", "list"} -> s

LEMMA LawfulIs ==
    ASSUME NEW o, o.at \in Paths \cup {<<>>}, o.to \in Paths, NEW s, Lawful(o, s)
    PROVE  /\ o.do \in {"write", "create", "delete", "read"} => o.at \in Paths
           /\ o.do = "rename" => o.at \in Paths /\ CanRename(s, o.at, o.to)
           /\ o.do = "write" => CanWrite(s, o.at)
           /\ o.do = "create" => CanCreate(s, o.at)
           /\ o.do = "delete" => CanDelete(s, o.at)
           /\ o.do = "read" => There(s, File(o.at))
           /\ o.do = "list" => HasFolder(s, o.at)
<1>1. File(o.at) \in Keys \/ Folder(o.at) \in Keys => o.at \in Paths
  BY KeysApart DEF Paths
<1>2. CASE o.do = "write"
  BY <1>2 DEF Lawful, CanWrite, HasParent
<1>3. CASE o.do = "create"
  BY <1>3 DEF Lawful, CanCreate, HasParent
<1>4. CASE o.do = "delete"
  BY <1>1, <1>4 DEF Lawful, CanDelete, There
<1>5. CASE o.do = "read"
  BY <1>1, <1>5 DEF Lawful, There
<1>6. CASE o.do = "rename"
  BY <1>6 DEF Lawful, CanRename
<1>7. CASE o.do = "list"
  BY <1>7 DEF Lawful
<1> QED BY <1>2, <1>3, <1>4, <1>5, <1>6, <1>7

LEMMA LawfulLeavesOrder ==
    ASSUME NEW o, o.at \in Paths \cup {<<>>}, o.to \in Paths,
           o.do \in {"write", "read", "list", "delete", "create", "rename"},
           o.do = "rename" => Fits(o.at, o.to),
           NEW s, Orderly(s), Lawful(o, s), NEW t \in Tasks
    PROVE  Orderly(Outcome(o, t, s))
<1>1. s \in Trees /\ Parented(s) /\ OneOfEach(s) /\ \A k \in Keys, u \in Tasks : s[k] # Torn[u]
  BY WellFormedIs DEF Orderly
<1>2. t \in Contents /\ t \in Contents \cup {None} /\ \A u \in Tasks : t # Torn[u] /\ None # Torn[u]
  BY StoresAssumption, TreeAssumption
<1>3. /\ o.do \in {"write", "create", "delete", "read"} => o.at \in Paths
      /\ o.do = "rename" => o.at \in Paths /\ CanRename(s, o.at, o.to)
      /\ o.do = "write" => CanWrite(s, o.at)
      /\ o.do = "create" => CanCreate(s, o.at)
  BY LawfulIs
<1>4. CASE o.do = "write"
  <2> DEFINE u == Put(s, File(o.at), t)
  <2>1. CanWrite(s, o.at) /\ u \in Trees /\ \A k \in Keys : u[k] = s[k] \/ u[k] = t
    BY <1>1, <1>2, <1>3, <1>4, TreesAgain DEF Put, Trees
  <2>2. HasParent(s, File(o.at).path) /\ ~There(s, Folder(o.at))
    BY <2>1, KeysApart DEF CanWrite, HasFolder
  <2>3. Parented(u)
    BY <1>1, <1>2, <2>2, ParentedAfterPut DEF Trees
  <2>4. OneOfEach(u)
    BY <1>1, <1>2, <2>2, OneOfEachAfterPut
  <2>5. Outcome(o, t, s) = u
    BY <1>4 DEF Outcome
  <2> HIDE DEF u
  <2> QED BY <1>1, <1>2, <2>1, <2>3, <2>4, <2>5, WellFormedIs DEF Orderly
<1>5. CASE o.do = "create"
  <2> DEFINE u == Put(s, Folder(o.at), t)
  <2>1. CanCreate(s, o.at) /\ u \in Trees /\ \A k \in Keys : u[k] = s[k] \/ u[k] = t
    BY <1>1, <1>2, <1>3, <1>5, TreesAgain DEF Put, Trees
  <2>2. HasParent(s, Folder(o.at).path) /\ ~There(s, File(o.at))
    BY <2>1, KeysApart DEF CanCreate, IsFree
  <2>3. Parented(u)
    BY <1>1, <1>2, <2>2, ParentedAfterPut DEF Trees
  <2>4. OneOfEach(u)
    BY <1>1, <1>2, <2>2, OneOfEachAfterPut
  <2>5. Outcome(o, t, s) = u
    BY <1>5 DEF Outcome
  <2> HIDE DEF u
  <2> QED BY <1>1, <1>2, <2>1, <2>3, <2>4, <2>5, WellFormedIs DEF Orderly
<1>6. CASE o.do = "delete"
  <2> DEFINE u == Without(s, Moving(s, o.at))
  <2>1. u \in Trees /\ \A k \in Keys : u[k] = s[k] \/ u[k] = None
    BY <1>1, TreesAgain DEF Without
  <2>2. Parented(u)
    BY <1>1, <1>3, <1>6, ParentedWithout
  <2>3. OneOfEach(u)
    BY <1>1, OneOfEachWithout
  <2>4. Outcome(o, t, s) = u
    BY <1>6 DEF Outcome
  <2> HIDE DEF u
  <2> QED BY <1>1, <1>2, <2>1, <2>2, <2>3, <2>4, WellFormedIs DEF Orderly
<1>7. CASE o.do = "rename"
  <2> DEFINE u == Moved(s, o.at, o.to)
  <2>1. u \in Trees /\ Parented(u) /\ OneOfEach(u)
    BY <1>1, <1>3, <1>7, TreesAgain, ParentedMoved, OneOfEachMoved
  <2>2. ASSUME NEW k \in Keys, u[k] # None
        PROVE  \E j \in Keys : u[k] = s[j]
    <3>1. \A j \in Moving(s, o.at) : s[j] # None => u[Rebase(j, o.at, o.to)] = s[j]
      BY <1>1, <1>3, <1>7, MoveIs
    <3>2. \A j \in Keys \ Moving(s, o.at) : s[j] # None => u[j] = s[j]
      BY <1>1, <1>3, <1>7, MoveIs
    <3>3. \/ k \notin Moving(s, o.at) /\ s[k] # None
          \/ \E j \in Moving(s, o.at) : s[j] # None /\ Rebase(j, o.at, o.to) = k
      BY <1>1, <1>3, <1>7, <2>2, MoveIs
    <3>4. \A j \in Moving(s, o.at) : j \in Keys
      BY <1>3, <1>7, WhatMoves
    <3> HIDE DEF u
    <3> QED BY <3>1, <3>2, <3>3, <3>4
  <2>3. Outcome(o, t, s) = u
    BY <1>7 DEF Outcome
  <2> HIDE DEF u
  <2>4. \A k \in Keys, v \in Tasks : u[k] # Torn[v]
    BY <1>1, <1>2, <2>2
  <2> QED BY <2>1, <2>3, <2>4, WellFormedIs DEF Orderly
<1>8. CASE o.do \in {"read", "list"}
  BY <1>8 DEF Outcome
<1> QED BY <1>4, <1>5, <1>6, <1>7, <1>8

-----------------------------------------------------------------------------
(* What is listed is what lies directly in the folder. *)

LEMMA ListedIs ==
    ASSUME NEW p \in Paths \cup {<<>>}, NEW t, NEW k \in Listed(t, p)
    PROVE  /\ k \in Keys /\ There(t, k) /\ IsPrefix(p, k.path) /\ p # k.path
           /\ Len(k.path) = Len(p) + 1 /\ k \in Under(p) /\ k # Folder(p) /\ k # File(p)
<1>1. k \in Keys /\ There(t, k) /\ Front(k.path) = p /\ k.path \in Seq(Letters) /\ k.path # <<>>
  BY PathsOfKeys DEF Listed, There
<1>2. p \in Seq(Letters)
  BY PathsOfKeys, EmptySeq
<1>3. Len(p) = Len(k.path) - 1 /\ Len(k.path) \in Nat \ {0}
  BY <1>1, FrontIs
<1>4. IsPrefix(p, Front(k.path))
  BY <1>1, <1>2, LenProperties, PrefixIs
<1>5. IsPrefix(p, k.path) /\ p # k.path
  BY <1>1, <1>2, <1>4, PrefixOfFront
<1>6. Len(k.path) = Len(p) + 1
  BY <1>3
<1>7. k # Folder(p) /\ k # File(p)
  BY <1>5, KeysApart
<1> QED BY <1>1, <1>5, <1>6, <1>7 DEF Under

LEMMA FrontOfCut ==
    ASSUME NEW p \in Seq(Letters), NEW s \in Seq(Letters), IsPrefix(p, s), Len(p) < Len(s)
    PROVE  /\ Len(p) + 1 \in 1 .. Len(s) /\ Cut(s, Len(p) + 1) \in Seq(Letters)
           /\ Cut(s, Len(p) + 1) # <<>> /\ IsPrefix(Cut(s, Len(p) + 1), s)
           /\ Len(Cut(s, Len(p) + 1)) = Len(p) + 1 /\ Front(Cut(s, Len(p) + 1)) = p
<1>1. Len(p) \in Nat /\ Len(s) \in Nat /\ \A i \in 1 .. Len(p) : p[i] = s[i]
  BY LenProperties, PrefixIs
<1> DEFINE n == Len(p) + 1
<1>2. n \in 0 .. Len(s) /\ n > 0 /\ n \in 1 .. Len(s) /\ n - 1 = Len(p) /\ Len(p) \in 0 .. Len(s)
  BY <1>1
<1>3. /\ Cut(s, n) \in Seq(Letters) /\ Cut(s, n) # <<>> /\ IsPrefix(Cut(s, n), s) /\ Len(Cut(s, n)) = n
      /\ Front(Cut(s, n)) = Cut(s, n - 1)
  BY <1>2, CutIs
<1>4. /\ Cut(s, Len(p)) \in Seq(Letters) /\ Len(Cut(s, Len(p))) = Len(p)
      /\ \A i \in 1 .. Len(p) : Cut(s, Len(p))[i] = s[i]
  BY <1>2, CutIs
<1>5. Cut(s, Len(p)) = p
  BY <1>1, <1>4, SeqEqual
<1> HIDE DEF n
<1>6. Front(Cut(s, n)) = p
  BY <1>2, <1>3, <1>5
<1> QED BY <1>2, <1>3, <1>6 DEF n

LEMMA EntriesAreListed ==
    ASSUME NEW p \in Paths \cup {<<>>}, Parented(objects)
    PROVE  /\ (Directly(p) \cup Deeper(p)) \ {Folder(p)} = Listed(objects, p)
           /\ Folder(p) \notin Deeper(p)
<1>1. p \in Seq(Letters) /\ Len(p) \in Nat
  BY PathsOfKeys, EmptySeq
<1>2. ASSUME NEW k \in Under(p), k # Folder(p)
      PROVE  /\ k \in Keys /\ k.path \in Seq(Letters) /\ k.path # <<>> /\ IsPrefix(p, k.path)
             /\ Len(p) < Len(k.path) /\ (k = File(k.path) \/ k = Folder(k.path)) /\ p # k.path
  <2>1. /\ k \in Keys /\ k.path \in Seq(Letters) /\ k.path # <<>> /\ IsPrefix(p, k.path) /\ k # File(p)
        /\ k = File(k.path) \/ k = Folder(k.path)
    BY PathsOfKeys DEF Under
  <2>2. k.path # p
    BY <2>1, <1>2
  <2>3. Len(p) <= Len(k.path) /\ Len(k.path) \in Nat /\ \A i \in 1 .. Len(p) : p[i] = k.path[i]
    BY <2>1, <1>1, PrefixIs
  <2>4. Len(p) # Len(k.path)
    BY <2>1, <2>2, <2>3, <1>1, SeqEqual
  <2> QED BY <2>1, <2>2, <2>3, <2>4, <1>1
<1>3. ASSUME NEW k \in Directly(p), k # Folder(p)
      PROVE  k \in Listed(objects, p)
  <2>1. k \in Under(p) /\ There(objects, k) /\ Len(k.path) = Len(p) + 1
    BY <1>3 DEF Directly, Held
  <2>2. /\ k \in Keys /\ k.path \in Seq(Letters) /\ IsPrefix(p, k.path) /\ Len(p) < Len(k.path)
    BY <2>1, <1>2, <1>3
  <2>3. Front(Cut(k.path, Len(k.path))) = p
    BY <2>1, <2>2, <1>1, FrontOfCut
  <2>4. Front(k.path) = p
    BY <2>2, <2>3, <1>2, <1>3, <2>1, FrontIs
  <2> QED BY <2>1, <2>2, <2>4 DEF Listed, There
<1>4. ASSUME NEW j \in Held(Under(p)) \ {Folder(p)}, j.folder \/ Len(j.path) > Len(p) + 1
      PROVE  /\ Folder(SubSeq(j.path, 1, Len(p) + 1)) \in Listed(objects, p)
             /\ Folder(SubSeq(j.path, 1, Len(p) + 1)) # Folder(p)
  <2> DEFINE c == Cut(j.path, Len(p) + 1)
  <2>1. j \in Under(p) /\ There(objects, j) /\ j # Folder(p)
    BY DEF Held
  <2>2. /\ j \in Keys /\ j.path \in Seq(Letters) /\ IsPrefix(p, j.path) /\ Len(p) < Len(j.path)
        /\ j = File(j.path) \/ j = Folder(j.path)
    BY <2>1, <1>2
  <2>3. /\ c \in Seq(Letters) /\ c # <<>> /\ IsPrefix(c, j.path) /\ Len(c) = Len(p) + 1 /\ Front(c) = p
    BY <2>2, <1>1, FrontOfCut
  <2>4. SubSeq(j.path, 1, Len(p) + 1) = c
    BY DEF Cut
  <2> HIDE DEF c
  <2>5. There(objects, Folder(c))
    <3>1. CASE c = j.path
      <4>1. j.folder
        BY <3>1, <2>3, <1>1, <1>4
      <4>2. j = Folder(c)
        BY <3>1, <4>1, <2>2, KeysApart
      <4> QED BY <4>2, <2>1
    <3>2. CASE c # j.path
      BY <3>2, <2>1, <2>2, <2>3, FoldersAbove DEF There
    <3> QED BY <3>1, <3>2
  <2>6. Folder(c) \in Listed(objects, p)
    BY <2>3, <2>5, KeysApart DEF Listed, There
  <2>7. c # p
    BY <2>3, <1>1
  <2> QED BY <2>4, <2>6, <2>7, KeysApart
<1>5. ASSUME NEW k \in Listed(objects, p)
      PROVE  k \in Directly(p) \cup Deeper(p) /\ k # Folder(p)
  <2>1. /\ k \in Keys /\ There(objects, k) /\ IsPrefix(p, k.path) /\ Len(k.path) = Len(p) + 1
        /\ k \in Under(p) /\ k # Folder(p)
    BY ListedIs
  <2>2. CASE ~k.folder
    BY <2>1, <2>2 DEF Directly, Held
  <2>3. CASE k.folder
    <3>1. k = Folder(k.path) /\ k.path \in Seq(Letters) /\ k.path # <<>>
      BY <2>1, <2>3, KeysApart, PathsOfKeys
    <3>2. SubSeq(k.path, 1, Len(p) + 1) = k.path
      <4>1. k.path = SubSeq(k.path, 1, Len(k.path))
        BY <3>1, FrontIs DEF Cut
      <4> QED BY <4>1, <2>1
    <3>3. k \in {j \in Held(Under(p)) \ {Folder(p)} : j.folder \/ Len(j.path) > Len(p) + 1}
      BY <2>1, <2>3 DEF Held
    <3> QED BY <3>1, <3>2, <3>3, <2>1 DEF Deeper
  <2> QED BY <2>1, <2>2, <2>3
<1>6. Deeper(p) \subseteq Listed(objects, p) /\ Folder(p) \notin Deeper(p)
  BY <1>4 DEF Deeper
<1> QED BY <1>3, <1>5, <1>6

(* And webdav's answer says so, once the folder itself is left out. *)
LEMMA DavListsIt ==
    ASSUME NEW p \in Paths \cup {<<>>}
    PROVE  ListedByDav(p) = Listed(objects, p)
<1> DEFINE ks == Held({File(p), Folder(p)}) \cup Listed(objects, p)
           n == Cardinality(ks)
           all == SetToSeq(ks)
           found == Propfind(p)
<1>1. ks \subseteq Keys
  BY DEF Held, There, Listed
<1>2. IsFiniteSet(ks)
  BY <1>1, KeysAreFinite, FS_Subset
<1> HIDE DEF ks
<1>3. /\ n \in Nat /\ \A i \in 1 .. n : all[i] \in ks
      /\ ks = {all[i] : i \in 1 .. n}
  BY <1>2, AllInSequence
<1>4. parse_multistatus(MultistatusOf(ks, Len(p) > 0)) = [i \in 1 .. n |-> AsFound(all[i])]
  BY <1>2, DavIsUnderstood
<1>5. found = [i \in 1 .. n |-> AsFound(all[i])]
  BY <1>4 DEF Propfind, ks
<1> HIDE DEF n, all, found
<1>6. ASSUME NEW i \in 1 .. n
      PROVE  /\ i \in DOMAIN found /\ IntoEntry(found[i]) = all[i]
             /\ IsSamePlaceAs(found[i].href, p) <=> all[i].path = p
  <2>1. all[i] \in Keys /\ found[i] = AsFound(all[i]) /\ i \in DOMAIN found
    BY <1>1, <1>3, <1>5
  <2>2. found[i].href = all[i] /\ found[i].isCollection = (KindOf(all[i]) = "folder")
    <3>1. AsFound(all[i]).href = all[i]
      <4>1. AsRead(all[i]) = all[i]
        BY <2>1, ReadAsItIs
      <4> QED BY <4>1 DEF AsFound
    <3>2. AsFound(all[i]).isCollection = (KindOf(all[i]) = "folder")
      BY Zenon DEF AsFound
    <3> QED BY <2>1, <3>1, <3>2
  <2>3. all[i] = IF all[i].folder THEN Folder(all[i].path) ELSE File(all[i].path)
    BY <2>1, PathsOfKeys, KeysApart
  <2>4. KindOf(all[i]) = "folder" <=> all[i].folder
    BY DEF KindOf
  <2>5. IntoEntry(found[i]) = all[i]
    BY <2>2, <2>3, <2>4 DEF IntoEntry
  <2> QED BY <2>1, <2>2, <2>5 DEF IsSamePlaceAs
<1>7. DOMAIN found = 1 .. n
  BY <1>5
<1>8. ListedByDav(p) = {IntoEntry(found[i]) : i \in {j \in DOMAIN found : ~IsSamePlaceAs(found[j].href, p)}}
  BY DEF ListedByDav, found
<1>9. ListedByDav(p) = {k \in ks : k.path # p}
  BY <1>3, <1>6, <1>7, <1>8
<1>10. \A k \in Listed(objects, p) : k.path # p
  BY ListedIs
<1>11. \A k \in Held({File(p), Folder(p)}) : k.path = p
  BY KeysApart DEF Held
<1> QED BY <1>9, <1>10, <1>11 DEF ks

-----------------------------------------------------------------------------
(* One operation after another: what each has done of what it is to do,    *)
(* while nobody comes between.                                             *)

CopiedBy(t) ==
    IF clearing[t] THEN Going(seen, op[t].at) ELSE IF phase[t] = "copying" THEN moved[t] ELSE {}
DeletedBy(t) == IF phase[t] = "deleting" THEN moved[t] ELSE {}

(* All that a listing has come to so far, of those it is to name. *)
ListedSoFar(t, all) == keys[t] \subseteq all /\ \A k \in all : Rank(k) <= cursor[t] => k \in keys[t]

HasDone(t) ==
    IF phase[t] = "filling"
    THEN op[t].do = "write" /\ objects = Put(seen, File(op[t].at), Torn[t])
    ELSE Stage(objects, seen, op[t].at, op[t].to, CopiedBy(t), DeletedBy(t))

AsAlone(t) ==
    /\ Lawful(op[t], seen)
    /\ HasDone(t)
    /\ clearing[t] => /\ op[t].do = "rename" /\ IsObjectStore
                      /\ phase[t] \in {"heading", "probing", "listing", "deleting"}
    /\ phase[t] = "sending" /\ IsObjectStore => op[t].do \in {"write", "read", "create"}
    /\ phase[t] = "leafing" =>
          op[t].do = "list" /\ ListedSoFar(t, Listed(seen, op[t].at))
    /\ phase[t] = "heading" => op[t].do \in {"delete", "rename"}
    /\ phase[t] = "probing" =>
          op[t].do = "create" \/ (op[t].do \in {"delete", "rename"} /\ ~There(seen, File(op[t].at)))
    /\ phase[t] = "listing" =>
          /\ op[t].do \in {"delete", "rename"} /\ There(seen, Folder(op[t].at))
          /\ ListedSoFar(t, Going(seen, op[t].at))
    /\ phase[t] \in {"copying", "deleting"} =>
          /\ op[t].do = (IF phase[t] = "copying" \/ clearing[t] THEN "rename" ELSE "delete")
          /\ keys[t] = Going(seen, op[t].at) /\ moved[t] \subseteq keys[t]
          /\ folder[t] <=> There(seen, Folder(op[t].at))

Ready(t) ==
    /\ cursor[t] \in Nat
    /\ phase[t] = "idle" => ~clearing[t] /\ cursor[t] = 0 /\ keys[t] = {}

OneAtATime ==
    /\ Orderly(seen)
    /\ \A t, u \in Tasks : Live(t) /\ Live(u) => t = u
    /\ (\A t \in Tasks : ~Live(t)) => objects = seen
    /\ \A t \in Tasks : Live(t) => AsAlone(t)

OneByOne ==
    /\ DOMAIN clearing = Tasks /\ \A t \in Tasks : Ready(t)
    /\ apart => OneAtATime

(* Of whatever lies below what goes, the destination keeps what is seen,   *)
(* unless it has been deleted.                                             *)
LEMMA WhileAlone ==
    ASSUME Inv, NEW t \in Tasks, Live(t), Orderly(seen), AsAlone(t)
    PROVE  /\ objects \in Trees /\ seen \in Trees /\ Parented(seen) /\ OneOfEach(seen)
           /\ op[t].at \in Paths \cup {<<>>} /\ op[t].to \in Paths
           /\ op[t].do # "list" => op[t].at \in Paths
           /\ op[t].do = "rename" => Movable(seen, op[t].at, op[t].to)
           /\ phase[t] \in {"sending", "leafing"} => objects = seen
           /\ phase[t] # "filling" =>
                 /\ CopiedBy(t) \subseteq Going(seen, op[t].at)
                 /\ CopiedBy(t) = {} \/ op[t].do = "rename"
                 /\ \A k \in Keys : IsPrefix(op[t].at, k.path) =>
                       objects[k] = IF k \in DeletedBy(t) THEN None ELSE seen[k]
<1> DEFINE p == op[t].at
           q == op[t].to
<1>1. /\ objects \in Trees /\ seen \in Trees /\ Parented(seen) /\ OneOfEach(seen)
  BY WellFormedIs DEF Inv, Types, Orderly
<1>2. /\ op[t].do \in {"write", "read", "list", "delete", "create", "rename"}
      /\ p \in Paths \cup {<<>>} /\ q \in Paths
      /\ op[t].do = "rename" /\ ~IsPrefix(p, q) => Fits(p, q)
  BY OpIs DEF Inv
<1>3. Lawful(op[t], seen)
  BY DEF AsAlone
<1>4. /\ op[t].do # "list" => p \in Paths
      /\ op[t].do = "rename" => CanRename(seen, p, q)
  BY <1>2, <1>3, LawfulIs
<1>5. op[t].do = "rename" => Movable(seen, p, q)
  BY <1>1, <1>2, <1>4 DEF Movable, CanRename
<1>6. phase[t] # "filling" =>
        /\ CopiedBy(t) \subseteq Going(seen, p)
        /\ CopiedBy(t) = {} \/ op[t].do = "rename"
        /\ Stage(objects, seen, p, q, CopiedBy(t), DeletedBy(t))
  BY DEF AsAlone, HasDone, CopiedBy
<1>7. ASSUME phase[t] # "filling", NEW k \in Keys, IsPrefix(p, k.path)
      PROVE  objects[k] = IF k \in DeletedBy(t) THEN None ELSE seen[k]
  <2> HIDE DEF p, q
  <2> QED BY <1>5, <1>6, <1>7, StageUnder
<1>8. ASSUME phase[t] \in {"sending", "leafing"}
      PROVE  objects = seen
  <2>1. CopiedBy(t) = {} /\ DeletedBy(t) = {} /\ phase[t] # "filling"
    BY <1>8 DEF AsAlone, CopiedBy, DeletedBy
  <2> QED BY <2>1, <1>1, <1>6, StageOfNothing
<1> QED BY <1>1, <1>2, <1>4, <1>5, <1>6, <1>7, <1>8

-----------------------------------------------------------------------------
(* A step of an operation takes it further, or ends it. *)

GoesOn(t) == AsAlone(t)' /\ Live(t)' /\ seen' = seen /\ heard' = heard

AnswerTo(t) ==
    CASE op[t].do = "read" -> {seen[File(op[t].at)]}
      [] op[t].do = "list" -> Listed(seen, op[t].at)
      [] OTHER -> heard

Finishes(t) ==
    /\ ~Live(t)' /\ objects' = seen'
    /\ seen' = Outcome(op[t], t, seen) /\ heard' = AnswerTo(t)

LEMMA BeginAlone ==
    ASSUME Inv, OneByOne, NEW t \in Tasks, Begin(t), apart'
    PROVE  GoesOn(t) /\ apart /\ \A u \in Tasks : ~Live(u)
<1>1. /\ phase[t] = "idle" /\ op' = op /\ make' = make /\ objects' = objects /\ keys' = keys
      /\ cursor' = cursor /\ clearing' = clearing /\ seen' = seen /\ heard' = heard
      /\ apart /\ (\A u \in Tasks : ~Live(u)) /\ Lawful(op[t], seen)
      /\ (IsObjectStore)' = IsObjectStore
  BY DEF Begin, mine, IsObjectStore
<1>2. /\ phase'[t] = (CASE op[t].do = "write" -> "sending"
                 [] op[t].do = "list" /\ IsObjectStore -> "leafing"
                 [] op[t].do = "create" /\ IsObjectStore -> "probing"
                 [] op[t].do \in {"delete", "rename"} /\ IsObjectStore -> "heading"
                 [] op[t].do = "delete" /\ make = "sftp" -> "heading"
                 [] OTHER -> "sending")
  BY DEF Begin, Step, Inv, Types
<1>3. op[t].do \in {"write", "read", "list", "delete", "create", "rename"}
  BY OpIs DEF Inv
<1>4. objects = seen /\ Orderly(seen) /\ ~clearing[t] /\ cursor[t] = 0 /\ keys[t] = {}
  BY <1>1 DEF OneByOne, OneAtATime, Ready
<1>5. \A k \in Listed(seen, op[t].at) : ~(Rank(k) <= 0)
  BY RankIs DEF Listed
<1>6. ListedSoFar(t, Listed(seen, op[t].at))'
  BY <1>1, <1>4, <1>5 DEF ListedSoFar
<1>7. /\ phase'[t] \in {"sending", "leafing", "probing", "heading"}
      /\ phase'[t] = "sending" /\ IsObjectStore => op[t].do \in {"write", "read", "create"}
      /\ phase'[t] = "leafing" => op[t].do = "list"
      /\ phase'[t] = "heading" => op[t].do \in {"delete", "rename"}
      /\ phase'[t] = "probing" => op[t].do = "create"
  BY <1>2, <1>3
<1>8. HasDone(t)'
  <2>1. Stage(objects, seen, op[t].at, op[t].to, {}, {})
    BY <1>4, StageOfNothing DEF Orderly
  <2>2. CopiedBy(t)' = {} /\ DeletedBy(t)' = {}
    BY <1>1, <1>4, <1>7 DEF CopiedBy, DeletedBy
  <2> QED BY <2>1, <2>2, <1>1, <1>7 DEF HasDone
<1>9. AsAlone(t)'
  BY <1>1, <1>4, <1>6, <1>7, <1>8 DEF AsAlone
<1>10. Live(t)'
  BY <1>7 DEF Live, Over
<1> QED BY <1>1, <1>9, <1>10 DEF GoesOn

LEMMA TruncateAlone ==
    ASSUME Inv, NEW t \in Tasks, Live(t), Orderly(seen), AsAlone(t), Truncate(t)
    PROVE  GoesOn(t) /\ apart' = apart
<1>1. /\ phase[t] = "sending" /\ op[t].do = "write" /\ op' = op
      /\ objects' = Put(objects, File(op[t].at), Torn[t]) /\ phase'[t] = "filling"
      /\ clearing' = clearing /\ seen' = seen /\ heard' = heard /\ apart' = apart
  BY DEF Truncate, Change, mine, Step, Inv, Types
<1>2. objects = seen
  BY <1>1, WhileAlone
<1>3. HasDone(t)'
  BY <1>1, <1>2 DEF HasDone
<1>4. Lawful(op[t], seen) /\ ~clearing[t]
  BY <1>1 DEF AsAlone
<1>5. AsAlone(t)'
  BY <1>1, <1>3, <1>4 DEF AsAlone
<1> QED BY <1>1, <1>5 DEF GoesOn, Live, Over

LEMMA HeadFileAlone ==
    ASSUME Inv, NEW t \in Tasks, Live(t), Orderly(seen), AsAlone(t), HeadFile(t), NothingKept
    PROVE  GoesOn(t) /\ apart' = apart
<1> DEFINE p == op[t].at
<1>1. /\ phase[t] = "heading" /\ There(objects, File(p)) /\ op' = op /\ objects' = objects
      /\ ~folder'[t] /\ keys'[t] = {File(p)} /\ moved'[t] = {} /\ clearing' = clearing
      /\ phase'[t] = (IF op[t].do = "rename" /\ ~clearing[t] THEN "copying" ELSE "deleting")
      /\ seen' = seen /\ heard' = heard /\ apart' = apart
  BY DEF HeadFile, NothingKept, Step, Inv, Types
<1>2. /\ op[t].do \in {"delete", "rename"} /\ Lawful(op[t], seen)
      /\ clearing[t] => op[t].do = "rename" /\ IsObjectStore
      /\ Stage(objects, seen, p, op[t].to, CopiedBy(t), DeletedBy(t))
      /\ DeletedBy(t) = {}
  BY <1>1 DEF AsAlone, HasDone, DeletedBy
<1>3. p \in Paths /\ OneOfEach(seen) /\ \A k \in Keys : IsPrefix(p, k.path) => objects[k] = seen[k]
  BY <1>1, <1>2, WhileAlone
<1>4. File(p) \in Keys /\ File(p).path = p /\ IsPrefix(p, p)
  <2>1. p \in Seq(Letters)
    BY <1>3, PathsOfKeys
  <2> QED BY <2>1, <1>1, LenProperties, PrefixIs, KeysApart DEF There
<1>5. There(seen, File(p))
  BY <1>1, <1>3, <1>4 DEF There
<1>6. ~There(seen, Folder(p))
  BY <1>3, <1>5 DEF OneOfEach
<1>7. Going(seen, p) = {File(p)}
  BY <1>5, <1>6 DEF Going, Moving
<1>8. phase'[t] \in {"copying", "deleting"} /\ (phase'[t] = "copying" => op[t].do = "rename" /\ ~clearing[t])
      /\ op[t].do = (IF phase'[t] = "copying" \/ clearing[t] THEN "rename" ELSE "delete")
      /\ (clearing[t] => phase'[t] = "deleting")
  BY <1>1, <1>2
<1>9. CopiedBy(t)' = CopiedBy(t) /\ DeletedBy(t)' = {}
  BY <1>1, <1>8 DEF CopiedBy, DeletedBy
<1> HIDE DEF p
<1>10. HasDone(t)'
  BY <1>1, <1>2, <1>8, <1>9 DEF HasDone, p
<1>11. IsObjectStore' = IsObjectStore
  BY DEF HeadFile, IsObjectStore
<1>12. AsAlone(t)'
  BY <1>1, <1>2, <1>6, <1>7, <1>8, <1>10, <1>11 DEF AsAlone, p
<1> QED BY <1>1, <1>8, <1>12 DEF GoesOn, Live, Over

LEMMA HeadNothingAlone ==
    ASSUME Inv, NEW t \in Tasks, Live(t), Orderly(seen), AsAlone(t), HeadNothing(t), NothingKept, apart'
    PROVE  GoesOn(t) /\ apart
<1> DEFINE p == op[t].at
<1>1. /\ phase[t] = "heading" /\ ~There(objects, File(p)) /\ op' = op /\ objects' = objects
      /\ clearing' = clearing /\ phase'[t] = "probing" /\ make' = make
      /\ seen' = seen /\ heard' = heard /\ apart
  BY DEF HeadNothing, NothingKept, Step, Inv, Types, mine
<1>2. /\ op[t].do \in {"delete", "rename"} /\ Lawful(op[t], seen)
      /\ clearing[t] => op[t].do = "rename" /\ IsObjectStore
      /\ Stage(objects, seen, p, op[t].to, CopiedBy(t), DeletedBy(t))
      /\ DeletedBy(t) = {}
  BY <1>1 DEF AsAlone, HasDone, DeletedBy
<1>3. p \in Paths /\ \A k \in Keys : IsPrefix(p, k.path) => objects[k] = seen[k]
  BY <1>1, <1>2, WhileAlone
<1>4. IsPrefix(p, p) /\ File(p).path = p
  <2>1. p \in Seq(Letters)
    BY <1>3, PathsOfKeys
  <2> QED BY <2>1, LenProperties, PrefixIs, KeysApart
<1>5. ~There(seen, File(p))
  BY <1>1, <1>3, <1>4 DEF There
<1>6. CopiedBy(t)' = CopiedBy(t) /\ DeletedBy(t)' = {}
  BY <1>1 DEF CopiedBy, DeletedBy
<1>7. HasDone(t)'
  BY <1>1, <1>2, <1>6 DEF HasDone
<1>8. IsObjectStore' = IsObjectStore
  BY <1>1 DEF IsObjectStore
<1>9. AsAlone(t)'
  BY <1>1, <1>2, <1>5, <1>7, <1>8 DEF AsAlone
<1> QED BY <1>1, <1>9 DEF GoesOn, Live, Over

LEMMA StatOneAlone ==
    ASSUME Inv, NEW t \in Tasks, Live(t), Orderly(seen), AsAlone(t), StatOne(t), NothingKept
    PROVE  GoesOn(t) /\ apart' = apart
<1>1. /\ phase[t] = "heading" /\ op' = op /\ objects' = objects /\ ~IsObjectStore
      /\ clearing' = clearing /\ phase'[t] = "sending" /\ make' = make
      /\ seen' = seen /\ heard' = heard /\ apart' = apart
  BY DEF StatOne, NothingKept, Step, Inv, Types
<1>2. Lawful(op[t], seen) /\ ~clearing[t] /\ HasDone(t)
  BY <1>1 DEF AsAlone
<1>3. CopiedBy(t)' = CopiedBy(t) /\ DeletedBy(t)' = DeletedBy(t)
  BY <1>1, <1>2 DEF CopiedBy, DeletedBy
<1>4. HasDone(t)'
  BY <1>1, <1>2, <1>3 DEF HasDone
<1>5. ~IsObjectStore'
  BY <1>1 DEF IsObjectStore
<1>6. AsAlone(t)'
  BY <1>1, <1>2, <1>4, <1>5 DEF AsAlone
<1> QED BY <1>1, <1>6 DEF GoesOn, Live, Over

LEMMA ProbeAlone ==
    ASSUME Inv, NEW t \in Tasks, Live(t), Orderly(seen), AsAlone(t), Probe(t), NothingKept
    PROVE  GoesOn(t) /\ apart' = apart
<1> DEFINE p == op[t].at
<1>1. /\ phase[t] = "probing" /\ op' = op /\ objects' = objects /\ clearing' = clearing /\ make' = make
      /\ seen' = seen /\ heard' = heard /\ apart' = apart
      /\ op[t].do # "create" => FolderExists(t)
      /\ op[t].do = "create" => phase'[t] = "sending"
      /\ op[t].do # "create" => phase'[t] = "listing" /\ cursor'[t] = 0 /\ keys'[t] = {} /\ moved'[t] = {}
  BY DEF Probe, NothingKept, Step, Inv, Types, mine
<1>2. /\ op[t].do \in {"create", "delete", "rename"} /\ Lawful(op[t], seen)
      /\ clearing[t] => op[t].do = "rename" /\ IsObjectStore
      /\ Stage(objects, seen, p, op[t].to, CopiedBy(t), DeletedBy(t))
      /\ DeletedBy(t) = {}
  BY <1>1 DEF AsAlone, HasDone, DeletedBy
<1>3. p \in Paths /\ Parented(seen) /\ \A k \in Keys : IsPrefix(p, k.path) => objects[k] = seen[k]
  BY <1>1, <1>2, WhileAlone
<1>4. ASSUME op[t].do # "create"
      PROVE  There(seen, Folder(p))
  <2>1. PICK k \in Under(p) : There(objects, k)
    BY <1>1, <1>4 DEF FolderExists, Held
  <2>2. k \in Keys /\ IsPrefix(p, k.path) /\ k # File(p) /\ seen[k] # None
    BY <2>1, <1>3 DEF Under, There
  <2>3. CASE k.path = p
    <3>1. k = Folder(p)
      BY <2>2, <2>3, PathsOfKeys
    <3> QED BY <3>1, <2>2 DEF There
  <2>4. CASE k.path # p
    <3>1. p \in Seq(Letters) /\ p # <<>>
      BY <1>3, PathsOfKeys
    <3> QED BY <3>1, <2>2, <2>4, <1>3, FoldersAbove
  <2> QED BY <2>3, <2>4
<1>5. \A k \in Going(seen, p) : ~(Rank(k) <= 0)
  BY RankIs DEF Going, There
<1>6. CopiedBy(t)' = CopiedBy(t) /\ DeletedBy(t)' = {}
  BY <1>1, <1>2 DEF CopiedBy, DeletedBy
<1>7. phase'[t] \in {"sending", "listing"} /\ Live(t)'
  BY <1>1 DEF Live, Over
<1>8. HasDone(t)'
  BY <1>1, <1>2, <1>6, <1>7 DEF HasDone
<1>9. IsObjectStore' = IsObjectStore
  BY <1>1 DEF IsObjectStore
<1>10. op[t].do # "create" => ListedSoFar(t, Going(seen, p))'
  BY <1>1, <1>5 DEF ListedSoFar
<1>11. AsAlone(t)'
  BY <1>1, <1>2, <1>4, <1>7, <1>8, <1>9, <1>10 DEF AsAlone
<1> QED BY <1>1, <1>7, <1>11 DEF GoesOn

LEMMA PageAlone ==
    ASSUME Inv, NEW t \in Tasks, Live(t), Orderly(seen), AsAlone(t), Page(t), NothingKept, Ready(t)
    PROVE  GoesOn(t) /\ apart' = apart /\ cursor'[t] \in Nat
<1> DEFINE p == op[t].at
           rest == {k \in Held(Under(p)) : Rank(k) > cursor[t]}
           answer == Heard(Answered(rest, {}))
           all == Going(seen, p)
<1>1. /\ phase[t] = "listing" /\ op' = op /\ objects' = objects /\ clearing' = clearing /\ make' = make
      /\ folder' = folder /\ moved' = moved /\ seen' = seen /\ heard' = heard /\ apart' = apart
      /\ folder[t] /\ moved[t] = {} /\ Types /\ cursor[t] \in Nat
  BY DEF Page, NothingKept, Inv, Courses, Course, Ready
<1>2. keys'[t] = keys[t] \cup answer.blobs
  BY <1>1 DEF Page, Types
<1>3. \/ /\ NoMorePages(answer) /\ cursor' = cursor
         /\ phase'[t] = IF op[t].do = "rename" /\ ~clearing[t] THEN "copying" ELSE "deleting"
      \/ ~NoMorePages(answer) /\ cursor'[t] = answer.next[1] /\ phase' = phase
  BY <1>1 DEF Page, Step, Types
<1>4. /\ op[t].do \in {"delete", "rename"} /\ Lawful(op[t], seen) /\ There(seen, Folder(p))
      /\ clearing[t] => op[t].do = "rename" /\ IsObjectStore
      /\ Stage(objects, seen, p, op[t].to, CopiedBy(t), DeletedBy(t))
      /\ DeletedBy(t) = {} /\ ListedSoFar(t, all)
  BY <1>1 DEF AsAlone, HasDone, DeletedBy
<1>5. \A k \in Keys : IsPrefix(p, k.path) => objects[k] = seen[k]
  BY <1>1, <1>4, WhileAlone
<1>6. Held(Under(p)) = all
  BY <1>4, <1>5 DEF Going, Moving, Held, Under, There
<1>7. rest \subseteq Keys /\ IsFiniteSet(rest) /\ rest \subseteq all
  <2>1. rest \subseteq Keys /\ rest \subseteq all
    BY <1>6 DEF Held, There
  <2> HIDE DEF rest
  <2> QED BY <2>1, KeysAreFinite, FS_Subset
<1>8. /\ answer.folders \subseteq {}
      /\ NoMorePages(answer) => answer.blobs \cup answer.folders = rest
      /\ ~NoMorePages(answer) =>
            /\ answer.next[1] \in Nat
            /\ \A k \in rest : Rank(k) <= answer.next[1] => k \in answer.blobs \cup answer.folders
  <2> HIDE DEF rest
  <2>1. PageNames(answer, rest, {})
    BY <1>7, PageOf
  <2> HIDE DEF answer
  <2> QED BY <2>1 DEF PageNames
<1>9. answer.blobs \subseteq rest
  <2>1. First(rest, PageSize) \subseteq rest
    BY <1>7, HeardIs
  <2>2. answer.blobs = First(rest, PageSize) \ {}
    <3> HIDE DEF rest
    <3> QED BY <1>7, HeardIs
  <2> HIDE DEF rest, answer
  <2> QED BY <2>1, <2>2
<1>10. \A k \in all : Rank(k) \in Nat /\ (k \in rest \/ Rank(k) <= cursor[t])
  <2>1. \A k \in all : Rank(k) \in Nat
    BY RankIs DEF Going, There
  <2> HIDE DEF all
  <2> QED BY <2>1, <1>1, <1>6
<1>11. keys[t] \subseteq all /\ \A k \in all : Rank(k) <= cursor[t] => k \in keys[t]
  BY <1>4 DEF ListedSoFar
<1>12. IsObjectStore' = IsObjectStore
  BY <1>1 DEF IsObjectStore
<1>13. all = Going(seen, op[t].at) /\ p = op[t].at
  OBVIOUS
<1> HIDE DEF answer, rest, all, p
<1>14. keys'[t] \subseteq all
  BY <1>2, <1>7, <1>9, <1>11
<1>15. CASE NoMorePages(answer)
  <2>1. /\ phase'[t] = (IF op[t].do = "rename" /\ ~clearing[t] THEN "copying" ELSE "deleting")
        /\ cursor' = cursor
    BY <1>3, <1>15
  <2>2. keys'[t] = all
    BY <1>2, <1>8, <1>10, <1>11, <1>14, <1>15
  <2>3. /\ phase'[t] \in {"copying", "deleting"}
        /\ phase'[t] = "copying" => op[t].do = "rename" /\ ~clearing[t]
        /\ op[t].do = (IF phase'[t] = "copying" \/ clearing[t] THEN "rename" ELSE "delete")
        /\ clearing[t] => phase'[t] = "deleting"
    BY <2>1, <1>4
  <2>4. CopiedBy(t)' = CopiedBy(t) /\ DeletedBy(t)' = {}
    BY <2>3, <1>1 DEF CopiedBy, DeletedBy
  <2>5. HasDone(t)'
    BY <2>3, <2>4, <1>1, <1>4, <1>13 DEF HasDone
  <2>6. AsAlone(t)'
    BY <2>2, <2>3, <2>5, <1>1, <1>4, <1>12, <1>13 DEF AsAlone
  <2> QED BY <2>1, <2>3, <2>6, <1>1 DEF GoesOn, Live, Over
<1>16. CASE ~NoMorePages(answer)
  <2>1. cursor'[t] = answer.next[1] /\ phase' = phase /\ cursor'[t] \in Nat
    BY <1>3, <1>8, <1>16
  <2>2. \A k \in all : Rank(k) <= cursor'[t] => k \in keys'[t]
    BY <2>1, <1>2, <1>8, <1>10, <1>11, <1>16
  <2>3. ListedSoFar(t, Going(seen, op[t].at))'
    BY <2>2, <1>1, <1>13, <1>14 DEF ListedSoFar
  <2>4. CopiedBy(t)' = CopiedBy(t) /\ DeletedBy(t)' = {}
    BY <2>1, <1>1 DEF CopiedBy, DeletedBy
  <2>5. HasDone(t)'
    BY <2>1, <2>4, <1>1, <1>4, <1>13 DEF HasDone
  <2>6. AsAlone(t)'
    BY <2>1, <2>3, <2>5, <1>1, <1>4, <1>12, <1>13 DEF AsAlone
  <2> QED BY <2>1, <2>6, <1>1 DEF GoesOn, Live, Over
<1> QED BY <1>15, <1>16

LEMMA CopyAlone ==
    ASSUME Inv, NEW t \in Tasks, Live(t), Orderly(seen), AsAlone(t), Copy(t)
    PROVE  GoesOn(t) /\ apart' = apart
<1> DEFINE p == op[t].at
           q == op[t].to
<1>1. PICK k \in Held(InTheAir(t)) : CopyEach(t, {k}) /\ moved' = [moved EXCEPT ![t] = @ \cup {k}]
  BY DEF Copy
<1>2. /\ phase[t] = "copying" /\ op' = op /\ objects' = Copied(t, {k}) /\ clearing' = clearing
      /\ make' = make /\ phase' = phase /\ keys' = keys /\ folder' = folder
      /\ seen' = seen /\ heard' = heard /\ apart' = apart /\ moved'[t] = moved[t] \cup {k}
  BY <1>1 DEF Copy, CopyEach, Change, Inv, Types
<1>3. k \in keys[t] /\ k \in Keys
  BY DEF Held, InTheAir, First, There
<1>4. /\ op[t].do = "rename" /\ Lawful(op[t], seen) /\ ~clearing[t]
      /\ keys[t] = Going(seen, p) /\ moved[t] \subseteq keys[t]
      /\ folder[t] <=> There(seen, Folder(p))
      /\ Stage(objects, seen, p, q, moved[t], {})
  BY <1>2 DEF AsAlone, HasDone, CopiedBy, DeletedBy
<1>5. Movable(seen, p, q) /\ objects \in Trees /\ p \in Paths /\ q \in Paths
  BY <1>4, WhileAlone DEF Movable
<1>6. Target(t, k) = Rebase(k, p, q)
  <2>1. CASE folder[t]
    BY <2>1 DEF Target
  <2>2. CASE ~folder[t]
    <3>1. k = File(p) /\ k.path = p
      BY <2>2, <1>3, <1>4, KeysApart DEF Going, Moving
    <3>2. p \in Seq(Letters) /\ IsPrefix(p, k.path)
      BY <3>1, <1>5, PathsOfKeys, PrefixIs, LenProperties
    <3>3. Rebase(k, p, q).path = q
      BY <3>1, <3>2, <1>3, <1>5, RebaseOfKey
    <3>4. Rebase(k, p, q) = File(Rebase(k, p, q).path)
      <4> DEFINE path == q \o SubSeq(k.path, Len(p) + 1, Len(k.path))
      <4>1. Rebase(k, p, q) = [k EXCEPT !.path = path]
        BY DEF Rebase
      <4>2. k = [path |-> p, folder |-> FALSE]
        BY <3>1 DEF File
      <4> HIDE DEF path, p, q
      <4> QED BY <4>1, <4>2 DEF File
    <3> QED BY <3>3, <3>4, <2>2 DEF Target
  <2> QED BY <2>1, <2>2
<1>7. \A j \in Keys : Copied(t, {k})[j] = IF j = Rebase(k, p, q) THEN objects[k] ELSE objects[j]
  <2>1. ASSUME NEW j \in Keys
        PROVE  Copied(t, {k})[j] = IF j = Target(t, k) THEN objects[k] ELSE objects[j]
    <3>1. (\E i \in {k} : Target(t, i) = j) <=> j = Target(t, k)
      OBVIOUS
    <3>2. j = Target(t, k) => (CHOOSE i \in {k} : Target(t, i) = j) = k
      OBVIOUS
    <3>3. Copied(t, {k})[j] = IF \E i \in {k} : Target(t, i) = j
                              THEN objects[CHOOSE i \in {k} : Target(t, i) = j] ELSE objects[j]
      BY DEF Copied
    <3> QED BY <3>1, <3>2, <3>3
  <2> QED BY <2>1, <1>6
<1> HIDE DEF p, q
<1>8. Stage(Copied(t, {k}), seen, p, q, moved[t] \cup {k}, {})
  BY <1>3, <1>4, <1>5, <1>7, StageOfACopy
<1>9. CopiedBy(t)' = moved[t] \cup {k} /\ DeletedBy(t)' = {}
  BY <1>2, <1>4 DEF CopiedBy, DeletedBy
<1>10. HasDone(t)'
  BY <1>2, <1>8, <1>9 DEF HasDone, p, q
<1>11. AsAlone(t)'
  BY <1>2, <1>3, <1>4, <1>10 DEF AsAlone, p, q
<1> QED BY <1>2, <1>11 DEF GoesOn, Live, Over

LEMMA AllCopiedAlone ==
    ASSUME Inv, NEW t \in Tasks, Live(t), Orderly(seen), AsAlone(t), AllCopied(t),
           DOMAIN clearing = Tasks
    PROVE  GoesOn(t) /\ apart' = apart
<1> DEFINE p == op[t].at
           q == op[t].to
<1>1. /\ phase[t] = "copying" /\ op' = op /\ objects' = objects /\ clearing'[t] /\ moved[t] = keys[t]
      /\ make' = make /\ keys' = keys /\ folder' = folder /\ moved'[t] = {}
      /\ phase'[t] = (IF make = "s3" THEN "deleting" ELSE "heading")
      /\ seen' = seen /\ heard' = heard /\ apart' = apart
  BY DEF AllCopied, Step, Inv, Types, AllMoved
<1>2. /\ op[t].do = "rename" /\ Lawful(op[t], seen) /\ ~clearing[t]
      /\ keys[t] = Going(seen, p)
      /\ folder[t] <=> There(seen, Folder(p))
      /\ Stage(objects, seen, p, q, moved[t], {})
  BY <1>1 DEF AsAlone, HasDone, CopiedBy, DeletedBy
<1>3. IsObjectStore /\ IsObjectStore'
  BY <1>1 DEF Inv, Courses, Course, IsObjectStore
<1>4. phase'[t] \in {"deleting", "heading"}
  BY <1>1
<1>5. CopiedBy(t)' = moved[t] /\ DeletedBy(t)' = {}
  BY <1>1, <1>2 DEF CopiedBy, DeletedBy
<1>6. HasDone(t)'
  BY <1>1, <1>2, <1>4, <1>5 DEF HasDone
<1>7. AsAlone(t)'
  BY <1>1, <1>2, <1>3, <1>4, <1>6 DEF AsAlone
<1> QED BY <1>1, <1>4, <1>7 DEF GoesOn, Live, Over

LEMMA DeleteSomeAlone ==
    ASSUME Inv, NEW t \in Tasks, Live(t), Orderly(seen), AsAlone(t), DeleteSome(t), apart'
    PROVE  GoesOn(t) /\ apart
<1> DEFINE p == op[t].at
           q == op[t].to
           ks == Batch(t)
<1>1. PICK kept : DeleteEach(t, Batch(t) \ kept) /\ apart' = (apart /\ kept = {})
  BY DEF DeleteSome
<1>2. apart /\ Batch(t) \ kept = ks
  BY <1>1
<1>3. /\ phase[t] = "deleting" /\ op' = op /\ objects' = Without(objects, ks) /\ clearing' = clearing
      /\ make' = make /\ phase' = phase /\ keys' = keys /\ folder' = folder
      /\ seen' = seen /\ heard' = heard /\ moved'[t] = moved[t] \cup ks
  BY <1>1, <1>2 DEF DeleteSome, DeleteEach, Change, Inv, Types
<1>4. ks \subseteq keys[t]
  BY DEF Batch, First
<1>5. /\ Lawful(op[t], seen)
      /\ op[t].do = (IF clearing[t] THEN "rename" ELSE "delete")
      /\ keys[t] = Going(seen, p) /\ moved[t] \subseteq keys[t]
      /\ folder[t] <=> There(seen, Folder(p))
      /\ Stage(objects, seen, p, q, CopiedBy(t), moved[t])
      /\ clearing[t] => IsObjectStore
  BY <1>3 DEF AsAlone, HasDone, DeletedBy
<1>6. /\ p \in Paths /\ objects \in Trees
      /\ CopiedBy(t) \subseteq Going(seen, p) /\ (CopiedBy(t) = {} \/ Movable(seen, p, q))
  BY <1>3, <1>5, WhileAlone
<1>7. \A k \in Going(seen, p) : IsPrefix(p, k.path)
  <2>1. p \in Seq(Letters)
    BY <1>6, PathsOfKeys
  <2>2. IsPrefix(p, p)
    BY <2>1, PrefixIs, LenProperties
  <2> QED BY <2>2, KeysApart DEF Going, Moving, Under
<1> HIDE DEF p, q, ks
<1>8. Stage(Without(objects, ks), seen, p, q, CopiedBy(t), moved[t] \cup ks)
  BY <1>4, <1>5, <1>6, <1>7, StageOfADelete
<1>9. CopiedBy(t)' = CopiedBy(t) /\ DeletedBy(t)' = moved[t] \cup ks
  BY <1>3 DEF CopiedBy, DeletedBy
<1>10. HasDone(t)'
  BY <1>3, <1>8, <1>9 DEF HasDone, p, q
<1>11. IsObjectStore' = IsObjectStore
  BY <1>3 DEF IsObjectStore
<1>12. AsAlone(t)'
  BY <1>3, <1>4, <1>5, <1>10, <1>11 DEF AsAlone, p, q
<1> QED BY <1>2, <1>3, <1>12 DEF GoesOn, Live, Over

LEMMA AllDeletedAlone ==
    ASSUME Inv, NEW t \in Tasks, Live(t), Orderly(seen), AsAlone(t), AllDeleted(t), apart
    PROVE  Finishes(t)
<1> DEFINE p == op[t].at
           q == op[t].to
<1>1. /\ phase[t] = "deleting" /\ objects' = objects /\ phase'[t] = "done"
      /\ seen' = objects /\ heard' = heard /\ moved[t] = keys[t]
  BY DEF AllDeleted, Done, NothingKept, Step, AllMoved, Inv, Types
<1>2. /\ op[t].do = (IF clearing[t] THEN "rename" ELSE "delete")
      /\ keys[t] = Going(seen, p)
      /\ Stage(objects, seen, p, q, CopiedBy(t), moved[t])
      /\ CopiedBy(t) = IF clearing[t] THEN Going(seen, p) ELSE {}
  BY <1>1 DEF AsAlone, HasDone, DeletedBy, CopiedBy
<1>3. /\ objects \in Trees /\ seen \in Trees
      /\ op[t].do = "rename" => Movable(seen, p, q)
  BY <1>2, WhileAlone
<1> HIDE DEF p, q
<1>4. CASE clearing[t]
  <2>1. objects = Moved(seen, p, q)
    BY <1>1, <1>2, <1>3, <1>4, StageOfARenaming
  <2> QED BY <2>1, <1>1, <1>2, <1>4 DEF Finishes, Outcome, AnswerTo, Live, Over, p, q
<1>5. CASE ~clearing[t]
  <2>1. objects = Without(seen, Moving(seen, p))
    BY <1>1, <1>2, <1>3, <1>5, StageOfADeletion
  <2> QED BY <2>1, <1>1, <1>2, <1>5 DEF Finishes, Outcome, AnswerTo, Live, Over, p, q
<1> QED BY <1>4, <1>5

LEMMA FillAlone ==
    ASSUME Inv, NEW t \in Tasks, Live(t), Orderly(seen), AsAlone(t), Fill(t), apart
    PROVE  Finishes(t)
<1> DEFINE f == File(op[t].at)
           filled == [k \in Keys |-> IF objects[k] = Torn[t] THEN t ELSE objects[k]]
<1>1. /\ phase[t] = "filling" /\ objects' = filled /\ phase'[t] = "done"
      /\ seen' = filled /\ heard' = heard
  BY DEF Fill, Change, Done, Step, Inv, Types
<1>2. op[t].do = "write" /\ objects = Put(seen, f, Torn[t])
  BY <1>1 DEF AsAlone, HasDone
<1>3. seen \in Trees /\ \A k \in Keys : seen[k] # Torn[t]
  BY DEF Orderly
<1> HIDE DEF f
<1>4. filled = Put(seen, f, t)
  <2>1. \A k \in Keys : objects[k] = IF k = f THEN Torn[t] ELSE seen[k]
    BY <1>2, <1>3 DEF Put, Trees
  <2>2. \A k \in Keys : filled[k] = Put(seen, f, t)[k]
    BY <2>1, <1>3 DEF Put, Trees
  <2>3. Put(seen, f, t) = [k \in Keys |-> Put(seen, f, t)[k]] /\ filled = [k \in Keys |-> filled[k]]
    BY <1>3 DEF Put, Trees
  <2> HIDE DEF filled
  <2> QED BY <2>2, <2>3
<1> QED BY <1>1, <1>2, <1>4 DEF Finishes, Outcome, AnswerTo, Live, Over, f

LEMMA SendAlone ==
    ASSUME Inv, NEW t \in Tasks, Live(t), Orderly(seen), AsAlone(t), Send(t), apart
    PROVE  Finishes(t)
<1>1. /\ phase[t] = "sending" /\ Takes(t) /\ objects' = Result(t) /\ phase'[t] = "done"
      /\ seen' = Result(t) /\ heard' = Reply(t)
  BY DEF Send, Change, Done, Step, Inv, Types
<1>2. objects = seen /\ op[t].at \in Paths \cup {<<>>}
  BY <1>1, WhileAlone
<1>3. op[t].do \in {"write", "read", "list", "delete", "create", "rename"}
  BY OpIs DEF Inv
<1>4. Result(t) = Outcome(op[t], t, seen)
  BY <1>2 DEF Result, Outcome
<1>5. Reply(t) = AnswerTo(t)
  <2>1. CASE op[t].do = "list"
    <3>1. ListedByDav(op[t].at) = Listed(seen, op[t].at)
      BY <1>2, DavListsIt
    <3> QED BY <2>1, <3>1, <1>2 DEF Reply, AnswerTo
  <2>2. CASE op[t].do = "read"
    BY <2>2, <1>2 DEF Reply, AnswerTo, Got
  <2>3. CASE op[t].do \notin {"list", "read"}
    BY <2>3 DEF Reply, AnswerTo
  <2> QED BY <2>1, <2>2, <2>3
<1> QED BY <1>1, <1>4, <1>5 DEF Finishes, Live, Over

LEMMA LeafPageAlone ==
    ASSUME Inv, NEW t \in Tasks, Live(t), Orderly(seen), AsAlone(t), LeafPage(t), NothingKept,
           Ready(t), apart
    PROVE  cursor'[t] \in Nat /\ (Finishes(t) \/ (GoesOn(t) /\ apart'))
<1> DEFINE p == op[t].at
           rest == {k \in Directly(p) \cup Deeper(p) : Rank(k) > cursor[t]}
           answer == Heard(Answered(rest, Deeper(p)))
           all == Listed(seen, p)
<1>1. /\ phase[t] = "leafing" /\ op' = op /\ objects' = objects /\ clearing' = clearing
      /\ folder' = folder /\ moved' = moved /\ Types /\ cursor[t] \in Nat
  BY DEF LeafPage, NothingKept, Inv, Ready
<1>2. objects = seen /\ Parented(seen) /\ p \in Paths \cup {<<>>}
  BY <1>1, WhileAlone
<1>3. /\ op[t].do = "list" /\ Lawful(op[t], seen) /\ ~clearing[t] /\ ListedSoFar(t, all) /\ HasDone(t)
  BY <1>1 DEF AsAlone
<1>4. keys'[t] = keys[t] \cup Entries(p, answer)
  BY <1>1 DEF LeafPage, Types
<1>5. \/ /\ NoMorePages(answer) /\ cursor' = cursor /\ phase'[t] = "done"
         /\ seen' = objects /\ heard' = keys'[t]
      \/ /\ ~NoMorePages(answer) /\ cursor'[t] = answer.next[1] /\ phase' = phase /\ make' = make
         /\ seen' = seen /\ heard' = heard /\ apart' = apart
  BY <1>1 DEF LeafPage, Done, Step, Types
<1>6. (Directly(p) \cup Deeper(p)) \ {Folder(p)} = all /\ Folder(p) \notin Deeper(p)
  <2>1. Parented(objects)
    BY <1>2
  <2> QED BY <2>1, <1>2, EntriesAreListed
<1>7. rest \subseteq Keys /\ IsFiniteSet(rest) /\ rest \subseteq all \cup {Folder(p)}
  <2>1. rest \subseteq Keys
    BY <1>2, DeeperAreKeys
  <2>2. rest \subseteq all \cup {Folder(p)}
    BY <1>6
  <2> HIDE DEF rest
  <2> QED BY <2>1, <2>2, KeysAreFinite, FS_Subset
<1>8. /\ answer.folders \subseteq Deeper(p)
      /\ NoMorePages(answer) => answer.blobs \cup answer.folders = rest
      /\ ~NoMorePages(answer) =>
            /\ answer.next[1] \in Nat
            /\ \A k \in rest : Rank(k) <= answer.next[1] => k \in answer.blobs \cup answer.folders
  <2> HIDE DEF rest, p
  <2>1. PageNames(answer, rest, Deeper(p))
    BY <1>7, PageOf
  <2> HIDE DEF answer
  <2> QED BY <2>1 DEF PageNames
<1>9. answer.blobs \subseteq rest /\ answer.folders \subseteq rest
  <2>1. First(rest, PageSize) \subseteq rest
    BY DEF First
  <2>2. answer.blobs = First(rest, PageSize) \ Deeper(p) /\ answer.folders = First(rest, PageSize) \cap Deeper(p)
    <3> HIDE DEF rest, p
    <3> QED BY <1>7, HeardIs
  <2> HIDE DEF rest, answer
  <2> QED BY <2>1, <2>2
<1>10. Entries(p, answer) = (answer.blobs \cup answer.folders) \ {Folder(p)}
  BY <1>6, <1>8 DEF Entries
<1>11. \A k \in all : k # Folder(p) /\ Rank(k) \in Nat /\ (k \in rest \/ Rank(k) <= cursor[t])
  <2>1. \A k \in all : Rank(k) \in Nat
    BY RankIs DEF Listed
  <2>2. \A k \in all : k # Folder(p) /\ k \in Directly(p) \cup Deeper(p)
    BY <1>6
  <2> HIDE DEF all
  <2> QED BY <2>1, <2>2, <1>1
<1>12. keys[t] \subseteq all /\ \A k \in all : Rank(k) <= cursor[t] => k \in keys[t]
  BY <1>3 DEF ListedSoFar
<1>13. all = Listed(seen, op[t].at) /\ p = op[t].at
  OBVIOUS
<1> HIDE DEF answer, rest, all, p
<1>14. keys'[t] \subseteq all
  BY <1>4, <1>7, <1>9, <1>10, <1>12
<1>15. CASE NoMorePages(answer)
  <2>1. keys'[t] = all
    BY <1>4, <1>8, <1>10, <1>11, <1>12, <1>14, <1>15
  <2>2. Finishes(t)
    BY <2>1, <1>1, <1>2, <1>3, <1>5, <1>13, <1>15 DEF Finishes, Outcome, AnswerTo, Live, Over
  <2> QED BY <2>2, <1>1, <1>5, <1>15
<1>16. CASE ~NoMorePages(answer)
  <2>1. /\ cursor'[t] = answer.next[1] /\ phase' = phase /\ cursor'[t] \in Nat /\ make' = make
        /\ seen' = seen /\ heard' = heard /\ apart' = apart
    BY <1>5, <1>8, <1>16
  <2>2. \A k \in all : Rank(k) <= cursor'[t] => k \in keys'[t]
    BY <2>1, <1>4, <1>8, <1>10, <1>11, <1>12, <1>16
  <2>3. ListedSoFar(t, Listed(seen, op[t].at))'
    BY <2>1, <2>2, <1>1, <1>13, <1>14 DEF ListedSoFar
  <2>4. CopiedBy(t)' = CopiedBy(t) /\ DeletedBy(t)' = DeletedBy(t)
    BY <2>1, <1>1, <1>3 DEF CopiedBy, DeletedBy
  <2>5. HasDone(t)'
    BY <2>1, <2>4, <1>1, <1>3 DEF HasDone
  <2>6. AsAlone(t)'
    BY <2>1, <2>3, <2>5, <1>1, <1>3 DEF AsAlone
  <2> QED BY <2>1, <2>6, <1>1 DEF GoesOn, Live, Over
<1> QED BY <1>15, <1>16

-----------------------------------------------------------------------------
(* So it is for all of them. *)

LEMMA AloneStep ==
    ASSUME Inv, OneByOne, NEW t \in Tasks, Task(t)
    PROVE  /\ apart' => apart
           /\ apart' => \/ RefuseInside(t)
                        \/ GoesOn(t) /\ (Live(t) \/ \A u \in Tasks : ~Live(u))
                        \/ Live(t) /\ Finishes(t)
           /\ (seen' = seen /\ heard' = heard) \/ (apart /\ Live(t) /\ Finishes(t))
           /\ cursor'[t] \in Nat /\ DOMAIN clearing' = Tasks
           /\ \A u \in Tasks \ {t} : clearing'[u] = clearing[u]
           /\ phase'[t] # "idle"
<1> USE DEF Step, mine, history
<1>1. Types /\ Ready(t) /\ DOMAIN clearing = Tasks
  BY DEF Inv, OneByOne
<1>2. apart /\ Live(t) => Orderly(seen) /\ AsAlone(t)
  BY DEF OneByOne, OneAtATime
<1>3. CASE Begin(t)
  <2>1. /\ apart' => apart /\ GoesOn(t) /\ \A u \in Tasks : ~Live(u)
    BY <1>3, BeginAlone DEF Begin
  <2>2. phase'[t] \in {"sending", "leafing", "probing", "heading"}
    BY <1>1, <1>3 DEF Begin, Types
  <2> QED BY <2>1, <2>2, <1>1, <1>3 DEF Begin, Ready
<1>4. CASE RefuseInside(t)
  BY <1>1, <1>4 DEF RefuseInside, Ready, Types
<1>5. CASE FailQuietly(t) \/ CopyFails(t) \/ DeleteFails(t)
  <2>1. Fail(t)
    BY <1>5 DEF FailQuietly, CopyFails, DeleteFails
  <2> QED BY <2>1, <1>1 DEF Fail, Ready, Types
<1>6. CASE Send(t)
  <2>1. /\ Live(t) /\ apart' = apart /\ cursor' = cursor /\ clearing' = clearing /\ phase'[t] = "done"
        /\ ~apart => seen' = seen /\ heard' = heard
    BY <1>1, <1>6 DEF Send, Done, Types, Live, Over
  <2> QED BY <2>1, <1>1, <1>2, <1>6, SendAlone DEF Ready
<1>7. CASE Truncate(t)
  <2>1. /\ Live(t) /\ apart' = apart /\ cursor' = cursor /\ clearing' = clearing /\ phase'[t] = "filling"
        /\ seen' = seen /\ heard' = heard
    BY <1>1, <1>7 DEF Truncate, Types, Live, Over
  <2> QED BY <2>1, <1>1, <1>2, <1>7, TruncateAlone DEF Ready
<1>8. CASE Fill(t)
  <2>1. /\ Live(t) /\ apart' = apart /\ cursor' = cursor /\ clearing' = clearing /\ phase'[t] = "done"
        /\ ~apart => seen' = seen /\ heard' = heard
    BY <1>1, <1>8 DEF Fill, Done, Types, Live, Over
  <2> QED BY <2>1, <1>1, <1>2, <1>8, FillAlone DEF Ready
<1>9. CASE LeafPage(t) /\ NothingKept
  <2>1. /\ Live(t) /\ apart' = apart /\ clearing' = clearing /\ phase'[t] # "idle"
        /\ ~apart => seen' = seen /\ heard' = heard
    BY <1>1, <1>9 DEF LeafPage, Done, Types, Live, Over
  <2>2. cursor'[t] \in Nat
    <3> DEFINE p == op[t].at
               rest == {k \in Directly(p) \cup Deeper(p) : Rank(k) > cursor[t]}
               answer == Heard(Answered(rest, Deeper(p)))
    <3>1. cursor' = cursor \/ (~NoMorePages(answer) /\ cursor'[t] = answer.next[1])
      BY <1>1, <1>9 DEF LeafPage, Types
    <3>2. rest \subseteq Keys
      <4>1. p \in Paths \cup {<<>>}
        BY <1>1, OpIs
      <4> QED BY <4>1, DeeperAreKeys
    <3> HIDE DEF rest, p
    <3>3. PageNames(answer, rest, Deeper(p))
      BY <3>2, PageOf
    <3> HIDE DEF answer
    <3> QED BY <3>1, <3>3, <1>1 DEF PageNames, Ready
  <2>3. apart => Finishes(t) \/ (GoesOn(t) /\ apart')
    BY <2>1, <1>1, <1>2, <1>9, LeafPageAlone
  <2> QED BY <2>1, <2>2, <2>3, <1>1 DEF GoesOn
<1>10. CASE HeadFile(t) /\ NothingKept
  <2>1. /\ Live(t) /\ apart' = apart /\ cursor' = cursor /\ clearing' = clearing
        /\ phase'[t] \in {"copying", "deleting"} /\ seen' = seen /\ heard' = heard
    BY <1>1, <1>10 DEF HeadFile, Types, Live, Over
  <2> QED BY <2>1, <1>1, <1>2, <1>10, HeadFileAlone DEF Ready
<1>11. CASE HeadNothing(t) /\ NothingKept
  <2>1. /\ Live(t) /\ (apart' => apart) /\ cursor' = cursor /\ clearing' = clearing
        /\ phase'[t] = "probing" /\ seen' = seen /\ heard' = heard
    BY <1>1, <1>11 DEF HeadNothing, Types, Live, Over
  <2> QED BY <2>1, <1>1, <1>2, <1>11, HeadNothingAlone DEF Ready
<1>12. CASE StatOne(t) /\ NothingKept
  <2>1. /\ Live(t) /\ apart' = apart /\ cursor' = cursor /\ clearing' = clearing
        /\ phase'[t] = "sending" /\ seen' = seen /\ heard' = heard
    BY <1>1, <1>12 DEF StatOne, Types, Live, Over
  <2> QED BY <2>1, <1>1, <1>2, <1>12, StatOneAlone DEF Ready
<1>13. CASE Probe(t) /\ NothingKept
  <2>1. /\ Live(t) /\ apart' = apart /\ clearing' = clearing
        /\ (cursor' = cursor \/ cursor'[t] = 0)
        /\ phase'[t] \in {"sending", "listing"} /\ seen' = seen /\ heard' = heard
    BY <1>1, <1>13 DEF Probe, Types, Live, Over
  <2>2. cursor'[t] \in Nat
    BY <2>1, <1>1 DEF Ready
  <2> QED BY <2>1, <2>2, <1>1, <1>2, <1>13, ProbeAlone
<1>14. CASE Page(t) /\ NothingKept
  <2>1. /\ Live(t) /\ apart' = apart /\ clearing' = clearing
        /\ phase'[t] # "idle" /\ seen' = seen /\ heard' = heard
    BY <1>1, <1>14 DEF Page, Types, Live, Over
  <2>2. cursor'[t] \in Nat
    <3> DEFINE rest == {k \in Held(Under(op[t].at)) : Rank(k) > cursor[t]}
               answer == Heard(Answered(rest, {}))
    <3>1. cursor' = cursor \/ (~NoMorePages(answer) /\ cursor'[t] = answer.next[1])
      BY <1>1, <1>14 DEF Page, Types
    <3>2. rest \subseteq Keys
      BY DEF Held, There
    <3> HIDE DEF rest
    <3>3. PageNames(answer, rest, {})
      BY <3>2, PageOf
    <3> HIDE DEF answer
    <3> QED BY <3>1, <3>3, <1>1 DEF PageNames, Ready
  <2> QED BY <2>1, <2>2, <1>1, <1>2, <1>14, PageAlone
<1>15. CASE Copy(t)
  <2>1. /\ Live(t) /\ apart' = apart /\ cursor' = cursor /\ clearing' = clearing
        /\ phase'[t] = "copying" /\ seen' = seen /\ heard' = heard
    BY <1>1, <1>15 DEF Copy, Types, Live, Over
  <2> QED BY <2>1, <1>1, <1>2, <1>15, CopyAlone DEF Ready
<1>16. CASE AllCopied(t)
  <2>1. /\ Live(t) /\ apart' = apart /\ cursor' = cursor /\ clearing' = [clearing EXCEPT ![t] = TRUE]
        /\ phase'[t] \in {"deleting", "heading"} /\ seen' = seen /\ heard' = heard
    BY <1>1, <1>16 DEF AllCopied, Types, Live, Over
  <2> QED BY <2>1, <1>1, <1>2, <1>16, AllCopiedAlone DEF Ready
<1>17. CASE DeleteSome(t)
  <2>1. /\ Live(t) /\ (apart' => apart) /\ cursor' = cursor /\ clearing' = clearing
        /\ phase'[t] = "deleting" /\ seen' = seen /\ heard' = heard
    BY <1>1, <1>17 DEF DeleteSome, Types, Live, Over
  <2> QED BY <2>1, <1>1, <1>2, <1>17, DeleteSomeAlone DEF Ready
<1>18. CASE AllDeleted(t)
  <2>1. /\ Live(t) /\ apart' = apart /\ cursor' = cursor /\ clearing' = clearing /\ phase'[t] = "done"
        /\ ~apart => seen' = seen /\ heard' = heard
    BY <1>1, <1>18 DEF AllDeleted, Done, Types, Live, Over
  <2> QED BY <2>1, <1>1, <1>2, <1>18, AllDeletedAlone DEF Ready
<1> QED BY <1>3, <1>4, <1>5, <1>6, <1>7, <1>8, <1>9, <1>10, <1>11, <1>12, <1>13, <1>14, <1>15,
           <1>16, <1>17, <1>18 DEF Task, Asking

LEMMA OneByOneInit ==
    ASSUME Init, WellFormed(AtFirst)
    PROVE  OneByOne
<1>1. Orderly(AtFirst)
  BY StoresAssumption DEF Orderly, Trees
<1>2. \A t \in Tasks : ~Live(t)
  BY DEF Init, Live, Over
<1> QED BY <1>1, <1>2 DEF Init, OneByOne, OneAtATime, Ready

LEMMA OneByOneStep ==
    ASSUME Inv, OneByOne, NEW t \in Tasks, Task(t)
    PROVE  OneByOne'
<1>1. /\ apart' => apart
      /\ apart' => \/ RefuseInside(t)
                   \/ GoesOn(t) /\ (Live(t) \/ \A u \in Tasks : ~Live(u))
                   \/ Live(t) /\ Finishes(t)
      /\ cursor'[t] \in Nat /\ DOMAIN clearing' = Tasks
      /\ \A u \in Tasks \ {t} : clearing'[u] = clearing[u]
      /\ phase'[t] # "idle"
  BY AloneStep
<1>2. Apart(t)
  BY OthersStay DEF Inv
<1>3. \A u \in Tasks : Ready(u)'
  BY <1>1, <1>2 DEF OneByOne, Ready, Apart
<1>4. \A u \in Tasks \ {t} : Live(u)' <=> Live(u)
  BY <1>2 DEF Apart, Live
<1>5. ASSUME apart'
      PROVE  OneAtATime'
  <2>1. /\ Orderly(seen) /\ \A u, v \in Tasks : Live(u) /\ Live(v) => u = v
        /\ (\A u \in Tasks : ~Live(u)) => objects = seen
        /\ \A u \in Tasks : Live(u) => AsAlone(u)
    BY <1>1, <1>5 DEF OneByOne, OneAtATime
  <2>2. CASE RefuseInside(t)
    <3>1. /\ phase[t] = "idle" /\ phase'[t] = "failed" /\ UNCHANGED <<make, objects, mine, history>>
      BY <2>2 DEF RefuseInside, Step, Inv, Types
    <3>2. ~Live(t) /\ ~Live(t)'
      BY <3>1 DEF Live, Over
    <3>3. ASSUME NEW u \in Tasks, Live(u)'
          PROVE  AsAlone(u)'
      <4>1. AsAlone(u) /\ phase'[u] = phase[u]
        BY <3>2, <3>3, <1>2, <1>4, <2>1 DEF Apart
      <4> QED BY <4>1, <3>1 DEF AsAlone, HasDone, CopiedBy, DeletedBy, ListedSoFar, IsObjectStore,
                                mine, history
    <3> QED BY <3>1, <3>2, <3>3, <1>4, <2>1 DEF OneAtATime, history
  <2>3. CASE GoesOn(t) /\ (Live(t) \/ \A u \in Tasks : ~Live(u))
    <3>1. \A u \in Tasks \ {t} : ~Live(u)'
      BY <2>1, <2>3, <1>4
    <3> QED BY <3>1, <2>1, <2>3 DEF OneAtATime, GoesOn
  <2>4. CASE Live(t) /\ Finishes(t)
    <3>1. \A u \in Tasks : ~Live(u)'
      BY <2>1, <2>4, <1>4 DEF Finishes
    <3>2. Lawful(op[t], seen)
      BY <2>1, <2>4 DEF AsAlone
    <3>3. /\ op[t].at \in Paths \cup {<<>>} /\ op[t].to \in Paths
          /\ op[t].do \in {"write", "read", "list", "delete", "create", "rename"}
          /\ op[t].do = "rename" /\ ~IsPrefix(op[t].at, op[t].to) => Fits(op[t].at, op[t].to)
      BY OpIs DEF Inv
    <3>4. op[t].do = "rename" => ~IsPrefix(op[t].at, op[t].to)
      BY <3>2, <3>3, LawfulIs DEF CanRename
    <3>5. Orderly(Outcome(op[t], t, seen))
      BY <2>1, <3>2, <3>3, <3>4, LawfulLeavesOrder
    <3>6. Orderly(seen')
      BY <2>4, <3>5 DEF Finishes
    <3>7. Orderly(seen)'
      BY <3>6
    <3> QED BY <3>1, <3>7, <2>4 DEF OneAtATime, Finishes
  <2> QED BY <2>2, <2>3, <2>4, <1>1, <1>5
<1> QED BY <1>1, <1>3, <1>5 DEF OneByOne

-----------------------------------------------------------------------------
(* What the provider in memory makes of it. *)

LEMMA MemoryIsATree ==
    /\ M!Paths = Paths
    /\ \A p : M!File(p) = File(p) /\ M!Folder(p) = Folder(p)
    /\ \A t, p : /\ M!There(t, p) <=> There(t, p)
                 /\ M!HasFolder(t, p) <=> HasFolder(t, p)
                 /\ M!CanWrite(t, p) <=> CanWrite(t, p)
                 /\ M!CanDelete(t, p) <=> CanDelete(t, p)
                 /\ M!CanCreate(t, p) <=> CanCreate(t, p)
                 /\ M!Moving(t, p) = Moving(t, p)
                 /\ M!Without(t, p) = Without(t, p)
                 /\ M!Listed(t, p) = Listed(t, p)
    /\ \A t, p, q : /\ M!CanRename(t, p, q) <=> CanRename(t, p, q)
                    /\ M!Moved(t, p, q) = Moved(t, p, q)
                    /\ M!Put(t, p, q) = Put(t, p, q)
    /\ \A t : M!WellFormed(t) <=> WellFormed(t)
<1>1. M!Paths = Paths
  BY DEF M!Paths, Paths
<1>2. \A p : M!File(p) = File(p) /\ M!Folder(p) = Folder(p)
  BY DEF M!File, M!Folder, File, Folder
<1>3. \A t, p : M!There(t, p) <=> There(t, p)
  BY DEF M!There, There
<1>4. \A t, p : M!HasFolder(t, p) <=> HasFolder(t, p)
  BY <1>2, <1>3 DEF M!HasFolder, HasFolder
<1>5. \A t, p : M!IsFree(t, p) <=> IsFree(t, p)
  BY <1>2, <1>3, <1>4 DEF M!IsFree, IsFree
<1>6. \A s : M!Front(s) = Front(s)
  BY DEF M!Front, Front
<1>7. \A p, q : M!IsPrefix(p, q) <=> IsPrefix(p, q)
  BY DEF M!IsPrefix, IsPrefix
<1>8. \A t, p : M!HasParent(t, p) <=> HasParent(t, p)
  BY <1>4, <1>6 DEF M!HasParent, HasParent
<1>9. \A p : M!Under(p) = Under(p)
  BY <1>2, <1>7 DEF M!Under, Under
<1>10. \A t, p : M!IsEmptyFolder(t, p) <=> IsEmptyFolder(t, p)
  BY <1>2, <1>9 DEF M!IsEmptyFolder, IsEmptyFolder
<1>12. \A t, p : M!Moving(t, p) = Moving(t, p)
  BY <1>2, <1>3, <1>9 DEF M!Moving, Moving
<1>13. \A t, p, q : M!Moved(t, p, q) = Moved(t, p, q)
  BY DEF M!Moved, Moved, M!Rebase, Rebase, M!Moving, Moving, M!Under, Under, M!There, There,
         M!File, File, M!Folder, Folder, M!IsPrefix, IsPrefix
<1>14. \A t, p : M!Without(t, p) = Without(t, p)
  BY DEF M!Without, Without
<1>15. \A t, p : M!Listed(t, p) = Listed(t, p)
  BY <1>6 DEF M!Listed, Listed
<1>16. \A t, p, q : M!Put(t, p, q) = Put(t, p, q)
  BY DEF M!Put, Put
<1>17. \A t, p : M!CanWrite(t, p) <=> CanWrite(t, p)
  BY <1>4, <1>8 DEF M!CanWrite, CanWrite
<1>18. \A t, p : M!CanDelete(t, p) <=> CanDelete(t, p)
  BY <1>2, <1>3, <1>10 DEF M!CanDelete, CanDelete
<1>19. \A t, p : M!CanCreate(t, p) <=> CanCreate(t, p)
  BY <1>5, <1>8 DEF M!CanCreate, CanCreate
<1>20. \A t, p, q : M!CanRename(t, p, q) <=> CanRename(t, p, q)
  BY <1>5, <1>7, <1>8 DEF M!CanRename, CanRename
<1>21. \A t : M!WellFormed(t) <=> WellFormed(t)
  BY <1>2, <1>3, <1>8 DEF M!WellFormed, WellFormed
<1> QED BY <1>1, <1>2, <1>3, <1>4, <1>12, <1>13, <1>14, <1>15, <1>16, <1>17, <1>18, <1>19, <1>20, <1>21

LEMMA MemoryTakes ==
    ASSUME Types, NEW t \in Tasks, Lawful(op[t], seen),
           seen' = Outcome(op[t], t, seen), heard' = AnswerTo(t)
    PROVE  M!Next
<1> DEFINE p == op[t].at
           q == op[t].to
<1>1. /\ op[t].do \in {"write", "read", "list", "delete", "create", "rename"}
      /\ p \in Paths \cup {<<>>} /\ q \in Paths /\ t \in Contents
  BY OpIs, StoresAssumption
<1>2. /\ op[t].do \in {"write", "create", "delete", "read"} => p \in Paths
      /\ op[t].do = "rename" => p \in Paths /\ CanRename(seen, p, q)
      /\ op[t].do = "write" => CanWrite(seen, p)
      /\ op[t].do = "create" => CanCreate(seen, p)
      /\ op[t].do = "delete" => CanDelete(seen, p)
      /\ op[t].do = "read" => There(seen, File(p))
      /\ op[t].do = "list" => HasFolder(seen, p)
  BY <1>1, LawfulIs
<1>3. CASE op[t].do = "write"
  <2>1. seen' = Put(seen, File(p), t) /\ heard' = heard
    BY <1>3 DEF Outcome, AnswerTo
  <2>2. M!Write(p, t)
    BY <2>1, <1>2, <1>3, MemoryIsATree DEF M!Write
  <2> QED BY <2>2, <1>1, <1>2, <1>3, MemoryIsATree DEF M!Next
<1>4. CASE op[t].do = "create"
  <2>1. seen' = Put(seen, Folder(p), t) /\ heard' = heard
    BY <1>4 DEF Outcome, AnswerTo
  <2>2. M!CreateFolder(p)
    BY <2>1, <1>1, <1>2, <1>4, MemoryIsATree DEF M!CreateFolder
  <2> QED BY <2>2, <1>1, <1>2, <1>4, MemoryIsATree DEF M!Next
<1>5. CASE op[t].do = "delete"
  <2>1. seen' = Without(seen, Moving(seen, p)) /\ heard' = heard
    BY <1>5 DEF Outcome, AnswerTo
  <2>2. M!Delete(p)
    BY <2>1, <1>2, <1>5, MemoryIsATree DEF M!Delete
  <2> QED BY <2>2, <1>1, <1>2, <1>5, MemoryIsATree DEF M!Next
<1>6. CASE op[t].do = "rename"
  <2>1. seen' = Moved(seen, p, q) /\ heard' = heard
    BY <1>6 DEF Outcome, AnswerTo
  <2>2. M!Rename(p, q)
    BY <2>1, <1>2, <1>6, MemoryIsATree DEF M!Rename
  <2> QED BY <2>2, <1>1, <1>2, <1>6, MemoryIsATree DEF M!Next
<1>7. CASE op[t].do = "read"
  <2>1. seen' = seen /\ heard' = {seen[File(p)]}
    BY <1>7 DEF Outcome, AnswerTo
  <2>2. M!Read(p)
    BY <2>1, <1>2, <1>7, MemoryIsATree DEF M!Read
  <2> QED BY <2>2, <1>1, <1>2, <1>7, MemoryIsATree DEF M!Next
<1>8. CASE op[t].do = "list"
  <2>1. seen' = seen /\ heard' = Listed(seen, p)
    BY <1>8 DEF Outcome, AnswerTo
  <2>2. M!List(p)
    BY <2>1, <1>2, <1>8, MemoryIsATree DEF M!List
  <2> QED BY <2>2, <1>1, MemoryIsATree DEF M!Next
<1> QED BY <1>1, <1>3, <1>4, <1>5, <1>6, <1>7, <1>8

(* To somebody who does one thing after another, each of them one that the *)
(* provider in memory takes, and sees no request refused, every            *)
(* destination is the provider in memory (conformance.rs).                 *)
THEOREM EveryDestinationIsTheMemory ==
    ASSUME WellFormed(AtFirst)
    PROVE  Spec => ConformsToMemory
<1>1. Init => Inv /\ OneByOne
  BY InvInit, OneByOneInit
<1>2. Init => M!Init
  <2>1. M!WellFormed(AtFirst)
    BY MemoryIsATree
  <2> QED BY <2>1, StoresAssumption DEF Init, M!Init
<1>3. Inv /\ OneByOne /\ [Next]_vars => (Inv /\ OneByOne)' /\ [M!Next]_M!vars
  <2> SUFFICES ASSUME Inv, OneByOne, [Next]_vars
               PROVE  (Inv /\ OneByOne)' /\ [M!Next]_M!vars
    OBVIOUS
  <2>1. Inv'
    BY InvStep
  <2>2. CASE UNCHANGED vars
    <3>1. OneByOne'
      BY <2>2 DEF OneByOne, OneAtATime, Ready, Live, AsAlone, HasDone, CopiedBy, DeletedBy, ListedSoFar,
                  IsObjectStore, vars, mine, history
    <3> QED BY <2>1, <2>2, <3>1 DEF M!vars, vars, history
  <2>3. ASSUME NEW t \in Tasks, Task(t)
        PROVE  OneByOne' /\ [M!Next]_M!vars
    <3>1. OneByOne'
      BY <2>3, OneByOneStep
    <3>2. (seen' = seen /\ heard' = heard) \/ (apart /\ Live(t) /\ Finishes(t))
      BY <2>3, AloneStep
    <3>3. CASE apart /\ Live(t) /\ Finishes(t)
      <4>1. Lawful(op[t], seen)
        BY <3>3 DEF OneByOne, OneAtATime, AsAlone
      <4>2. M!Next
        BY <4>1, <3>3, MemoryTakes DEF Finishes, Inv
      <4> QED BY <3>1, <4>2
    <3>4. CASE seen' = seen /\ heard' = heard
      BY <3>1, <3>4 DEF M!vars
    <3> QED BY <3>2, <3>3, <3>4
  <2> QED BY <2>1, <2>2, <2>3 DEF Next
<1> QED BY <1>1, <1>2, <1>3, PTL DEF Spec, ConformsToMemory, M!Spec
=============================================================================
