----------------------------- MODULE DiskProofs -----------------------------
(***************************************************************************)
(* What Disk keeps for any number of launches, attempts at connecting,     *)
(* connections and hosts, whatever ends in the middle of what.             *)
(***************************************************************************)
EXTENDS Disk, SequenceTheorems, WellFoundedInduction, TLAPS

-----------------------------------------------------------------------------
(* The list of connections. *)

ListTypes ==
    /\ list \in [Processes -> Lists]
    /\ wanted \in Lists
    /\ saving \subseteq up /\ up \subseteq Processes

(* While nobody has written unknowingly, whoever is in the middle of       *)
(* writing is alone in it, and has in memory what people want.             *)
WriterKnows ==
    "connections" \notin troubled =>
        /\ saving = {} => file = wanted
        /\ \A p \in saving : saving = {p} /\ file = NoList /\ list[p] = wanted

FileTypes == file \in Lists \cup {None}

ListInv == ListTypes /\ FileTypes /\ WriterKnows

LEMMA ListInit == Init => ListInv
<1> SUFFICES ASSUME Init
             PROVE  ListInv
  OBVIOUS
<1>1. NoList \in Lists /\ KeptAtFirst \in Lists
  BY DiskAssumption DEF NoList, Lists
<1> QED BY <1>1 DEF Init, ListInv, ListTypes, FileTypes, WriterKnows

(* Attempts read the list and never write it. *)
LEMMA AttemptsLeaveTheList ==
    ASSUME NEW a \in Attempts, Connect(a) \/ KeepSecrets(a)
    PROVE  UNCHANGED <<up, list, file, saving, wanted>> /\ troubled \subseteq troubled'
<1>1. CASE Connect(a)
  BY <1>1 DEF Connect, LookUp, GetSecret, Answer, GiveUp, Dial, Accept, SignIn, Offer,
              Kept, KeptSecrets, Store, BeginWriting, connections
<1>2. CASE KeepSecrets(a)
  BY <1>2 DEF KeepSecrets, Unlock, AlreadyOpen, Serialise, Empty, Write, WriteFails,
              BeginWriting, connections
<1> QED BY <1>1, <1>2

(* Whoever edits knowing what is on disk, and alone, knows what is wanted. *)
LEMMA EditKeepsTheList ==
    ASSUME ListInv, NEW p \in Processes, NEW after \in Lists, Edit(p, after)
    PROVE  ListInv'
<1>1. /\ list' = [list EXCEPT ![p] = after]
      /\ file' = NoList /\ saving' = saving \cup {p} /\ p \in up /\ UNCHANGED up
      /\ wanted' = [i \in IdSet |-> IF after[i] # list[p][i] THEN after[i] ELSE wanted[i]]
      /\ troubled' = troubled \cup
            (IF file = list[p] /\ saving = {} THEN {} ELSE {"connections"})
  BY DEF Edit, Persist
<1>2. /\ NoList \in Lists
      /\ wanted' \in Lists
  BY <1>1 DEF NoList, Lists, ListInv, ListTypes
<1>3. ListTypes' /\ FileTypes'
  BY <1>1, <1>2 DEF ListInv, ListTypes, FileTypes
<1>4. ASSUME "connections" \notin troubled'
      PROVE  wanted' = after /\ saving = {}
  <2>1. file = list[p] /\ saving = {} /\ "connections" \notin troubled
    BY <1>1, <1>4
  <2>2. wanted = list[p]
    BY <2>1 DEF ListInv, WriterKnows
  <2>3. wanted' = [i \in IdSet |-> after[i]]
    BY <1>1, <2>2
  <2>4. after = [i \in IdSet |-> after[i]]
    BY DEF Lists
  <2> QED BY <2>1, <2>3, <2>4
<1>5. WriterKnows'
  <2>1. list'[p] = after
    BY <1>1 DEF ListInv, ListTypes
  <2>2. "connections" \notin troubled' => saving' = {p} /\ wanted' = after
    BY <1>1, <1>4
  <2>3. file' = NoList'
    BY <1>1 DEF NoList
  <2> QED BY <2>1, <2>2, <2>3 DEF WriterKnows
<1> QED BY <1>3, <1>5 DEF ListInv

LEMMA KeepKeepsTheList ==
    ASSUME ListInv, NEW p \in Processes, Keep(p)
    PROVE  ListInv'
<1> USE DEF ListInv
<1>1. CASE Launch(p)
  <2>1. Load \in Lists
    BY DEF Load, NoList, Lists, FileTypes
  <2>2. p \notin saving
    BY <1>1 DEF Launch, ListTypes
  <2>3. ListTypes' /\ FileTypes'
    BY <1>1, <2>1 DEF Launch, ListTypes, FileTypes
  <2>4. \A q \in saving : list'[q] = list[q]
    BY <1>1, <2>2 DEF Launch, ListTypes
  <2>5. UNCHANGED <<file, saving, wanted, troubled>>
    BY <1>1 DEF Launch
  <2>6. WriterKnows'
    BY <2>4, <2>5 DEF WriterKnows, NoList
  <2> QED BY <2>3, <2>6
<1>2. CASE Exit(p)
  <2>1. /\ list' = [list EXCEPT ![p] = NoList]
        /\ up' = up \ {p} /\ saving' = saving \ {p} /\ UNCHANGED wanted
        /\ troubled \subseteq troubled'
        /\ p \in saving => "connections" \in troubled'
        /\ IF p \in saving THEN file' \in {file, None} ELSE UNCHANGED file
    BY <1>2 DEF Exit
  <2>2. ListTypes' /\ FileTypes'
    BY <2>1 DEF ListTypes, FileTypes, NoList, Lists
  <2>3. ASSUME "connections" \notin troubled'
        PROVE  UNCHANGED <<file, saving, wanted>> /\ (\A q \in saving : list'[q] = list[q])
    BY <2>1, <2>3 DEF ListTypes
  <2>4. WriterKnows'
    BY <2>1, <2>3 DEF WriterKnows, NoList
  <2> QED BY <2>2, <2>4
<1>3. CASE Add(p) \/ Change(p) \/ Forget(p)
  <2>1. \A i, d : d \in Destinations \cup {None} => [list[p] EXCEPT ![i] = d] \in Lists
    BY DEF ListTypes, Lists
  <2>2. \E i, d : d \in Destinations \cup {None} /\ Edit(p, [list[p] EXCEPT ![i] = d])
    BY <1>3 DEF Add, Change, Forget
  <2> QED BY <2>1, <2>2, EditKeepsTheList
<1>4. CASE Saved(p)
  <2>1. /\ p \in saving /\ saving' = saving \ {p} /\ UNCHANGED <<up, list, wanted, troubled>>
        /\ IF file = NoList THEN file' = list[p] ELSE file' \in {list[p], None}
    BY <1>4 DEF Saved
  <2>2. ListTypes' /\ FileTypes'
    BY <2>1 DEF ListTypes, FileTypes
  <2>3. WriterKnows'
    BY <2>1 DEF WriterKnows, NoList
  <2> QED BY <2>2, <2>3
<1> QED BY <1>1, <1>2, <1>3, <1>4 DEF Keep

LEMMA ListStep == ListInv /\ [Next]_vars => ListInv'
<1> SUFFICES ASSUME ListInv, [Next]_vars
             PROVE  ListInv'
  OBVIOUS
<1>1. ASSUME UNCHANGED <<up, list, file, saving, wanted>>, troubled \subseteq troubled'
      PROVE  ListInv'
  BY <1>1 DEF ListInv, ListTypes, FileTypes, WriterKnows, NoList
<1>2. ASSUME NEW a \in Attempts, Connect(a) \/ KeepSecrets(a)
      PROVE  ListInv'
  BY <1>1, <1>2, AttemptsLeaveTheList
<1>3. ASSUME NEW p \in Processes, Keep(p)
      PROVE  ListInv'
  BY <1>3, KeepKeepsTheList
<1>4. CASE UNCHANGED vars
  BY <1>1, <1>4 DEF vars, connections
<1> QED BY <1>2, <1>3, <1>4 DEF Next

(* What has been saved and not forgotten is on disk whenever nobody is in  *)
(* the middle of writing, over any number of launches that are ended       *)
(* anywhere, unless one of them wrote knowing less (connections.rs         *)
(* persist, config.rs save).                                               *)
THEOREM TheListIsOnDisk == Spec => []ListIsOnDisk
<1>1. ListInv => ListIsOnDisk
  BY DEF ListInv, WriterKnows, ListIsOnDisk
<1> QED BY <1>1, ListInit, ListStep, PTL DEF Spec
-----------------------------------------------------------------------------
(* Host keys. *)

KeyTypes ==
    /\ DOMAIN phase = Attempts /\ DOMAIN dest = Attempts
    /\ DOMAIN shown = Attempts /\ DOMAIN accepted = Attempts
    /\ known \in Seq(Range(known))

OnFile(lines, name, key) ==
    \E i \in DOMAIN lines :
        /\ ~lines[i].marked /\ lines[i].key = key
        /\ \E p \in lines[i].hosts : p.of = name

IsIn(a) == phase[a] \in {"signing in", "offering"} \/ (phase[a] = "done" /\ a \notin correcting)

Asked(a) == IsIn(a) => accepted[a] = shown[a] \/ OnFile(known, Host[dest[a]], shown[a])

Agreed(line, lines) == \E new \in lines : line = Line(new[1], new[2])

NoneInvented ==
    \A i \in DOMAIN known : (i <= Len(Trusted) /\ known[i] = Trusted[i]) \/ Agreed(known[i], agreed)

KeyInv == KeyTypes /\ NoneInvented /\ \A a \in Attempts : Asked(a)

LEMMA KeyInit == Init => KeyInv
<1> SUFFICES ASSUME Init
             PROVE  KeyInv
  OBVIOUS
<1>1. Trusted \in Seq(Range(Trusted)) /\ DOMAIN Trusted = 1 .. Len(Trusted)
  BY DiskAssumption, LenProperties
<1>2. KeyTypes /\ NoneInvented
  BY <1>1 DEF Init, KeyTypes, NoneInvented
<1>3. \A a \in Attempts : ~IsIn(a)
  BY DEF Init, IsIn
<1> QED BY <1>2, <1>3 DEF KeyInv, Asked

(* A line put at the end leaves those before it where they are.            *)
LEMMA Remembering ==
    ASSUME KeyTypes, NEW name, NEW key, known' = remember(known, name, key)
    PROVE  /\ known' \in Seq(Range(known'))
           /\ \A i \in DOMAIN known : i \in DOMAIN known' /\ known'[i] = known[i]
           /\ \A i \in DOMAIN known' : i \in DOMAIN known \/ known'[i] = Line(name, key)
<1> DEFINE new == Line(name, key)
           S == Range(known) \cup {new}
<1>1. known \in Seq(S) /\ new \in S
  BY SeqMonotonic DEF KeyTypes
<1>2. known' = Append(known, new)
  BY DEF remember
<1> HIDE DEF new, S
<1>3. /\ known' \in Seq(S) /\ Len(known') = Len(known) + 1
      /\ \A i \in 1 .. Len(known) : known'[i] = known[i]
      /\ known'[Len(known) + 1] = new
  BY <1>1, <1>2, AppendProperties
<1>4. /\ DOMAIN known = 1 .. Len(known) /\ Len(known) \in Nat
      /\ DOMAIN known' = 1 .. Len(known) + 1
  BY <1>1, <1>3, LenProperties
<1>5. known' \in Seq(Range(known'))
  BY <1>3, SeqOfRange
<1> QED BY <1>3, <1>4, <1>5 DEF new

(* Steps that ask about no key. *)
LEMMA NoNewKey ==
    ASSUME KeyInv, UNCHANGED <<known, agreed, correcting>>, KeyTypes',
           \A a \in Attempts : IsIn(a)' => /\ IsIn(a)
                                           /\ UNCHANGED <<accepted[a], shown[a], dest[a]>>
    PROVE  KeyInv'
<1>1. NoneInvented'
  BY DEF KeyInv, NoneInvented, Agreed
<1>2. ASSUME NEW a \in Attempts
      PROVE  Asked(a)'
  <2>1. Asked(a)
    BY DEF KeyInv
  <2>2. Host' = Host
    BY DEF Host, Config
  <2> QED BY <2>1, <2>2 DEF Asked
<1> QED BY <1>1, <1>2 DEF KeyInv

(* What known_hosts is asked for a name and a key, it has on a line.       *)
LEMMA KnownIsOnFile ==
    ASSUME NEW name, NEW key, verdict(known, name, key) = "known"
    PROVE  OnFile(known, name, key)
<1>1. key \in KeysOnFile(known, name)
  BY DEF verdict
<1>2. PICK i \in DOMAIN known : /\ key = known[i].key /\ parse_line(known[i])
                                /\ matches_host(known[i], name)
  BY <1>1 DEF KeysOnFile, Range
<1>3. PICK p \in known[i].hosts : match_pattern(p, name)
  BY <1>2 DEF matches_host
<1>4. p.of = name
  BY <1>3 DEF match_pattern, Digest, Plain
<1> QED BY <1>2, <1>3, <1>4 DEF OnFile, parse_line

LEMMA DialKeepsKeys ==
    ASSUME KeyInv, NEW a \in Attempts, Dial(a)
    PROVE  KeyInv'
<1>1. PICK key \in HostKeys :
          /\ shown' = [shown EXCEPT ![a] = key]
          /\ Go(a, CASE Verdict(a, key) = "known" -> "signing in"
                     [] Verdict(a, key) = "unknown" -> "asking about a new key"
                     [] Verdict(a, key) = "changed" -> "asking about another key")
  BY DEF Dial
<1>2. UNCHANGED <<known, agreed, correcting, dest, accepted>>
  BY DEF Dial, Kept
<1>3. Verdict(a, key) \in {"known", "unknown", "changed"}
  BY DEF Verdict, verdict
<1>4. /\ shown'[a] = key /\ (\A b \in Attempts \ {a} : shown'[b] = shown[b])
      /\ \A b \in Attempts \ {a} : phase'[b] = phase[b]
      /\ DOMAIN phase' = Attempts /\ DOMAIN shown' = Attempts
      /\ IsIn(a)' => Verdict(a, key) = "known"
  BY <1>1, <1>3 DEF Go, KeyInv, KeyTypes, IsIn
<1>5. KeyTypes' /\ NoneInvented'
  BY <1>2, <1>4 DEF KeyInv, KeyTypes, NoneInvented, Agreed
<1>6. Asked(a)'
  <2>1. IsIn(a)' => OnFile(known, Host[dest[a]], key)
    BY <1>4, KnownIsOnFile DEF Verdict
  <2>2. Host' = Host
    BY DEF Host, Config
  <2> QED BY <1>2, <1>4, <2>1, <2>2 DEF Asked
<1>7. ASSUME NEW b \in Attempts \ {a}
      PROVE  Asked(b)'
  <2>1. Asked(b) /\ IsIn(b)' = IsIn(b)
    BY <1>2, <1>4 DEF KeyInv, IsIn
  <2>2. Host' = Host
    BY DEF Host, Config
  <2> QED BY <1>2, <1>4, <2>1, <2>2 DEF Asked
<1> QED BY <1>5, <1>6, <1>7 DEF KeyInv

LEMMA AcceptKeepsKeys ==
    ASSUME KeyInv, NEW a \in Attempts, Accept(a)
    PROVE  KeyInv'
<1>1. /\ accepted' = [accepted EXCEPT ![a] = shown[a]]
      /\ phase' = [phase EXCEPT ![a] = "signing in"]
      /\ UNCHANGED <<correcting, dest, shown>>
  BY DEF Accept, Go
<1>2. /\ known' \in Seq(Range(known'))
      /\ \A i \in DOMAIN known : i \in DOMAIN known' /\ known'[i] = known[i]
      /\ agreed \subseteq agreed'
      /\ \A i \in DOMAIN known' : i \in DOMAIN known \/ Agreed(known'[i], agreed')
  <2>1. CASE known' = known /\ agreed \subseteq agreed'
    BY <2>1 DEF KeyInv, KeyTypes
  <2>2. CASE /\ known' = remember(known, Host[dest[a]], shown[a])
             /\ agreed' = agreed \cup {<<Host[dest[a]], shown[a]>>}
    <3>1. Agreed(Line(Host[dest[a]], shown[a]), agreed')
      <4> DEFINE new == <<Host[dest[a]], shown[a]>>
      <4>1. new \in agreed' /\ new[1] = Host[dest[a]] /\ new[2] = shown[a]
        BY <2>2
      <4> QED BY <4>1 DEF Agreed
    <3>2. /\ known' \in Seq(Range(known'))
          /\ \A i \in DOMAIN known : i \in DOMAIN known' /\ known'[i] = known[i]
          /\ \A i \in DOMAIN known' :
                i \in DOMAIN known \/ known'[i] = Line(Host[dest[a]], shown[a])
      BY <2>2, Remembering DEF KeyInv
    <3>3. \A i \in DOMAIN known' : i \in DOMAIN known \/ Agreed(known'[i], agreed')
      BY <3>1, <3>2 DEF Agreed
    <3> QED BY <2>2, <3>2, <3>3
  <2> QED BY <2>1, <2>2 DEF Accept
<1>3. NoneInvented'
  BY <1>2 DEF KeyInv, NoneInvented, Agreed
<1>4. KeyTypes'
  BY <1>1, <1>2 DEF KeyInv, KeyTypes
<1>5. Asked(a)'
  BY <1>1 DEF Asked, KeyInv, KeyTypes
<1>6. ASSUME NEW b \in Attempts \ {a}
      PROVE  Asked(b)'
  <2>1. \A name, key : OnFile(known, name, key) => OnFile(known', name, key)
    BY <1>2 DEF OnFile
  <2>2. IsIn(b)' = IsIn(b) /\ accepted'[b] = accepted[b]
    BY <1>1 DEF IsIn, KeyInv, KeyTypes
  <2>3. Host' = Host
    BY DEF Host, Config
  <2> QED BY <1>1, <2>1, <2>2, <2>3 DEF KeyInv, Asked
<1> QED BY <1>3, <1>4, <1>5, <1>6 DEF KeyInv

LEMMA ConnectKeepsKeys ==
    ASSUME KeyInv, NEW a \in Attempts, Connect(a)
    PROVE  KeyInv'
<1> USE DEF KeyInv, KeyTypes
<1>1. CASE LookUp(a)
  <2>1. /\ UNCHANGED <<known, agreed, correcting, shown, accepted>>
        /\ DOMAIN dest' = Attempts /\ DOMAIN phase' = Attempts
        /\ phase'[a] \in {"failed", "locked"}
        /\ \A b \in Attempts \ {a} : dest'[b] = dest[b] /\ phase'[b] = phase[b]
    BY <1>1 DEF LookUp, Go, KeptSecrets
  <2> QED BY <2>1, NoNewKey DEF IsIn
<1>2. CASE GetSecret(a) \/ Answer(a) \/ GiveUp(a)
  <2>1. /\ UNCHANGED <<known, agreed, correcting, dest, accepted>>
        /\ DOMAIN shown' = Attempts /\ DOMAIN phase' = Attempts
        /\ phase'[a] \in {"asking", "dialing", "failed", "serialising"}
        /\ \A b \in Attempts \ {a} : shown'[b] = shown[b] /\ phase'[b] = phase[b]
    BY <1>2 DEF GetSecret, Answer, GiveUp, Store, BeginWriting, Go, Kept, KeptSecrets
  <2> QED BY <2>1, NoNewKey DEF IsIn
<1>3. CASE SignIn(a) \/ Offer(a)
  <2>1. /\ UNCHANGED <<known, agreed, correcting, dest, accepted, shown>>
        /\ phase[a] \in {"signing in", "offering"}
        /\ DOMAIN phase' = Attempts
        /\ \A b \in Attempts \ {a} : phase'[b] = phase[b]
    BY <1>3 DEF SignIn, Offer, Go, Kept, KeptSecrets
  <2> QED BY <2>1, NoNewKey DEF IsIn
<1>4. CASE Dial(a)
  BY <1>4, DialKeepsKeys
<1>5. CASE Accept(a)
  BY <1>5, AcceptKeepsKeys
<1> QED BY <1>1, <1>2, <1>3, <1>4, <1>5 DEF Connect

(* At the file of secrets only a correction is done with. *)
LEMMA KeepSecretsKeepsKeys ==
    ASSUME KeyInv, NEW a \in Attempts, KeepSecrets(a)
    PROVE  KeyInv'
<1>1. /\ UNCHANGED <<known, agreed, correcting, dest, accepted, shown>>
      /\ DOMAIN phase' = Attempts
      /\ \A b \in Attempts \ {a} : phase'[b] = phase[b]
      /\ phase'[a] = "done" => a \in correcting
      /\ phase'[a] \notin {"signing in", "offering"}
  <2>1. CASE Unlock(a)
    BY <2>1 DEF Unlock, BeginWriting, Go, KeyInv, KeyTypes
  <2>2. CASE AlreadyOpen(a) \/ Serialise(a) \/ Empty(a)
    BY <2>2 DEF AlreadyOpen, Serialise, Empty, Go, KeyInv, KeyTypes
  <2>3. CASE Write(a)
    BY <2>3 DEF Write, Go, KeyInv, KeyTypes
  <2>4. CASE WriteFails(a)
    BY <2>4 DEF WriteFails, Go, KeyInv, KeyTypes
  <2> QED BY <2>1, <2>2, <2>3, <2>4 DEF KeepSecrets
<1> QED BY <1>1, NoNewKey DEF KeyInv, KeyTypes, IsIn

LEMMA KeepKeepsKeys ==
    ASSUME KeyInv, NEW p \in Processes, Keep(p)
    PROVE  KeyInv'
<1>1. CASE Exit(p)
  <2>1. /\ UNCHANGED <<known, agreed, correcting, dest, accepted, shown>>
        /\ DOMAIN phase' = Attempts
        /\ \A b \in Attempts : phase'[b] \in {phase[b], "failed"}
    BY <1>1 DEF Exit
  <2> QED BY <2>1, NoNewKey DEF KeyInv, KeyTypes, IsIn
<1>2. CASE ~Exit(p)
  <2>1. UNCHANGED <<known, agreed, correcting, dest, accepted, shown, phase>>
    BY <1>2 DEF Keep, Launch, Add, Change, Forget, Saved, Edit, attempt
  <2> QED BY <2>1, NoNewKey DEF KeyInv, KeyTypes, IsIn
<1> QED BY <1>1, <1>2

LEMMA KeyStep == KeyInv /\ [Next]_vars => KeyInv'
<1> SUFFICES ASSUME KeyInv, [Next]_vars
             PROVE  KeyInv'
  OBVIOUS
<1>1. ASSUME NEW p \in Processes, Keep(p)
      PROVE  KeyInv'
  BY <1>1, KeepKeepsKeys
<1>2. ASSUME NEW a \in Attempts, Connect(a) \/ KeepSecrets(a)
      PROVE  KeyInv'
  BY <1>2, ConnectKeepsKeys, KeepSecretsKeepsKeys
<1>3. CASE UNCHANGED vars
  BY <1>3, NoNewKey DEF vars, attempt, KeyInv, KeyTypes, IsIn
<1> QED BY <1>1, <1>2, <1>3 DEF Next

(* Nobody signs in to a host whose key was neither in known_hosts, under   *)
(* the name and port, nor accepted for this very attempt; and nothing gets *)
(* into known_hosts that nobody accepted as a new key of the host it names *)
(* (trust.rs verify).                                                      *)
THEOREM NoKeyIsTakenUnasked == Spec => []NoKeyUnasked
<1>1. KeyInv => NoKeyUnasked
  BY DEF KeyInv, NoneInvented, Asked, IsIn, OnFile, Agreed, NoKeyUnasked
<1> QED BY <1>1, KeyInit, KeyStep, PTL DEF Spec
-----------------------------------------------------------------------------
(* The file of secrets. *)

(* Who is opening it, and who has found it open. *)
Opens == {"emptying to open", "writing to open"}
Past == {"looking up", "asking", "dialing", "asking about a new key", "asking about another key",
         "signing in", "offering", "serialising", "emptying", "writing"}

VaultTypes ==
    /\ DOMAIN vault = Processes /\ DOMAIN phase = Attempts
    /\ DOMAIN secret = Attempts /\ DOMAIN snapshot = Attempts
    /\ \A p \in Processes :
          /\ DOMAIN vault[p] = {"key", "holds"}
          /\ vault[p] = Locked \/ vault[p] = Opening \/ vault[p].key \in Words

(* One attempt opens it in a process, and the others wait for that.        *)
OpenedOnce ==
    /\ \A a \in Attempts : phase[a] \in Past => vault[In[a]].key \in Words
    /\ \A a \in Attempts : phase[a] \in Opens => vault[In[a]] = Opening /\ secret[a] \in Words
    /\ \A a, b \in Attempts :
          phase[a] \in Opens /\ phase[b] \in Opens /\ In[a] = In[b] => a = b

(* While nobody has written beside another or was cut off: one attempt     *)
(* writes at most, in the one process that has the file open; that process *)
(* has what was given, the writer is about to write it, and a file that    *)
(* nobody is writing holds it.                                             *)
AllIsKept ==
    /\ \A a, b \in Attempts : phase[a] \in Writing /\ phase[b] \in Writing => a = b
    /\ \A p, q \in Processes : vault[p] # Locked /\ vault[q] # Locked => p = q
    /\ \A p \in Processes : vault[p].key \in Words => vault[p].holds = given
    /\ \A a \in Attempts : phase[a] \in Writing \ {"serialising"} => snapshot[a] = given
    /\ \A a \in Attempts : phase[a] \in {"writing", "writing to open"} => sealed = Torn
    /\ (\A a \in Attempts : phase[a] \notin Writing) => sealed.holds = given /\ sealed # Torn

SecretInv == VaultTypes /\ OpenedOnce /\ ("secrets" \notin troubled => AllIsKept)

LEMMA SecretInit == Init => SecretInv
<1> SUFFICES ASSUME Init
             PROVE  SecretInv
  OBVIOUS
<1>1. /\ Locked.key \notin Words /\ DOMAIN Locked = {"key", "holds"}
      /\ Missing.holds = NoSecrets /\ Missing # Torn
  <2>1. Missing.key = "missing" /\ Torn.key = None
    BY DEF Missing, Torn
  <2>2. None # "missing"
    BY DiskAssumption
  <2> QED BY <2>1, <2>2 DEF Locked, Words, Missing
<1>2. \A a \in Attempts : phase[a] = "idle"
  BY DEF Init
<1>3. VaultTypes
  BY <1>1 DEF Init, VaultTypes
<1>4. OpenedOnce
  BY <1>2 DEF OpenedOnce, Past, Opens
<1>5. AllIsKept
  BY <1>1, <1>2 DEF Init, AllIsKept, Writing
<1> QED BY <1>3, <1>4, <1>5 DEF SecretInv

(* Steps that leave the file and the vaults be, and write nothing.         *)
LEMMA NothingSealed ==
    ASSUME SecretInv, UNCHANGED <<sealed, vault, snapshot, given>>,
           "secrets" \in troubled => "secrets" \in troubled',
           DOMAIN phase' = Attempts, DOMAIN secret' = Attempts,
           \A a \in Attempts :
               \/ phase'[a] = phase[a] /\ (phase[a] \in Opens => secret'[a] = secret[a])
               \/ /\ phase[a] \notin Writing /\ phase'[a] \notin Writing
                  /\ phase'[a] \in Past => vault[In[a]].key \in Words
    PROVE  SecretInv'
<1>1. VaultTypes'
  BY DEF SecretInv, VaultTypes, Locked, Opening, NoSecrets
<1>2. \A a \in Attempts : /\ phase'[a] \in Writing => phase'[a] = phase[a]
                          /\ phase[a] \in Writing => phase'[a] = phase[a]
                          /\ phase'[a] \in Opens => phase'[a] \in Writing
  BY DEF Writing, Opens
<1>3. OpenedOnce'
  BY <1>2 DEF SecretInv, OpenedOnce, Opening, NoSecrets
<1>4. AllIsKept => AllIsKept'
  BY <1>2 DEF AllIsKept, Locked, Torn, NoSecrets, Writing
<1> QED BY <1>1, <1>3, <1>4 DEF SecretInv

LEMMA NothingIsWritten ==
    ASSUME SecretInv, NEW a \in Attempts, Connect(a), ~Answer(a)
    PROVE  /\ UNCHANGED <<sealed, vault, snapshot, given, troubled>>
           /\ DOMAIN phase' = Attempts /\ DOMAIN secret' = Attempts
           /\ \A b \in Attempts \ {a} : phase'[b] = phase[b] /\ secret'[b] = secret[b]
           /\ phase[a] \notin Writing /\ phase'[a] \notin Writing
           /\ phase'[a] \in Past => phase[a] \in Past
<1> USE DEF SecretInv, VaultTypes, Go, Kept, KeptSecrets, secrets, Writing, Past
<1>1. CASE LookUp(a)
  BY <1>1 DEF LookUp
<1>2. CASE GetSecret(a)
  BY <1>2 DEF GetSecret
<1>3. CASE GiveUp(a)
  BY <1>3 DEF GiveUp
<1>4. CASE Dial(a)
  <2>1. \A key : Verdict(a, key) \in {"known", "unknown", "changed"}
    BY DEF Verdict, verdict
  <2> QED BY <1>4, <2>1 DEF Dial
<1>5. CASE Accept(a)
  BY <1>5 DEF Accept
<1>6. CASE SignIn(a)
  BY <1>6 DEF SignIn
<1>7. CASE Offer(a)
  BY <1>7 DEF Offer
<1> QED BY <1>1, <1>2, <1>3, <1>4, <1>5, <1>6, <1>7 DEF Connect

LEMMA ConnectSealsNothing ==
    ASSUME SecretInv, NEW a \in Attempts, Connect(a), ~Answer(a)
    PROVE  SecretInv'
<1>1. /\ UNCHANGED <<sealed, vault, snapshot, given, troubled>>
      /\ DOMAIN phase' = Attempts /\ DOMAIN secret' = Attempts
      /\ \A b \in Attempts \ {a} : phase'[b] = phase[b] /\ secret'[b] = secret[b]
      /\ phase[a] \notin Writing /\ phase'[a] \notin Writing
      /\ phase'[a] \in Past => phase[a] \in Past
  BY NothingIsWritten
<1>2. phase[a] \in Past => vault[In[a]].key \in Words
  BY DEF SecretInv, OpenedOnce
<1> QED BY <1>1, <1>2, NothingSealed

(* What is given goes into what is open, and is about to be written. *)
LEMMA AnswerIsKept ==
    ASSUME SecretInv, NEW a \in Attempts, Answer(a)
    PROVE  SecretInv'
<1>1. PICK s : Store(a, s)
  BY DEF Answer
<1> DEFINE p == In[a]
<1>2. /\ vault' = [vault EXCEPT ![p].holds[To[a]] = s]
      /\ given' = [given EXCEPT ![To[a]] = s]
      /\ secret' = [secret EXCEPT ![a] = s]
      /\ phase' = [phase EXCEPT ![a] = "serialising"] /\ phase[a] = "asking"
      /\ UNCHANGED <<sealed, snapshot>>
  BY <1>1 DEF Answer, Store, BeginWriting, Go
<1>3. /\ "secrets" \in troubled => "secrets" \in troubled'
      /\ "secrets" \notin troubled' =>
            /\ \A b \in Attempts \ {a} : phase[b] \notin Writing
            /\ \A q \in Processes \ {p} : vault[q] = Locked
  BY <1>1 DEF Store, BeginWriting
<1>4. p \in Processes /\ vault[p].key \in Words
  BY <1>2, DiskAssumption DEF SecretInv, OpenedOnce, Past
<1>5. /\ DOMAIN vault' = Processes
      /\ vault'[p].key = vault[p].key /\ DOMAIN vault'[p] = {"key", "holds"}
      /\ vault'[p].holds = [vault[p].holds EXCEPT ![To[a]] = s]
      /\ \A q \in Processes \ {p} : vault'[q] = vault[q]
  BY <1>2, <1>4 DEF SecretInv, VaultTypes
<1>6. VaultTypes'
  BY <1>2, <1>4, <1>5 DEF SecretInv, VaultTypes, Locked, Opening, NoSecrets
<1>7. /\ \A b \in Attempts \ {a} : phase'[b] = phase[b] /\ secret'[b] = secret[b]
      /\ phase'[a] = "serialising"
  BY <1>2 DEF SecretInv, VaultTypes
<1>8. vault[p] # Opening /\ vault[p] # Locked
  BY <1>4 DEF Opening, Locked, Words
<1>9. OpenedOnce'
  <2>1. ASSUME NEW b \in Attempts, phase'[b] \in Past
        PROVE  vault'[In[b]].key \in Words
    BY <1>2, <1>4, <1>5, <1>7, <2>1, DiskAssumption DEF SecretInv, OpenedOnce, Past
  <2>2. ASSUME NEW b \in Attempts, phase'[b] \in Opens
        PROVE  phase[b] \in Opens /\ vault'[In[b]] = Opening' /\ secret'[b] \in Words
    <3>1. b # a /\ phase[b] \in Opens
      BY <1>7, <2>2 DEF Opens
    <3>2. vault[In[b]] = Opening /\ secret[b] \in Words /\ In[b] \in Processes
      BY <3>1, DiskAssumption DEF SecretInv, OpenedOnce
    <3>3. In[b] # p
      BY <1>8, <3>2
    <3> QED BY <1>5, <1>7, <3>1, <3>2, <3>3 DEF Opening, NoSecrets
  <2> QED BY <2>1, <2>2 DEF SecretInv, OpenedOnce
<1>10. ASSUME "secrets" \notin troubled'
       PROVE  AllIsKept'
  <2>1. AllIsKept
    BY <1>3, <1>10 DEF SecretInv
  <2>2. vault'[p].holds = given'
    BY <1>2, <1>4, <1>5, <2>1 DEF AllIsKept
  <2>3. \A q \in Processes \ {p} : vault'[q] = Locked /\ vault'[q].key \notin Words
    BY <1>3, <1>5, <1>10 DEF Locked, Words
  <2>4. \A b \in Attempts : phase'[b] \in Writing => b = a
    BY <1>3, <1>7, <1>10
  <2>5. a \in Attempts /\ phase'[a] \in Writing
    BY <1>7 DEF Writing
  <2>6. \A q, r \in Processes : vault'[q] # Locked /\ vault'[r] # Locked => q = r
    BY <2>3
  <2>7. \A q \in Processes : vault'[q].key \in Words => vault'[q].holds = given'
    BY <2>2, <2>3
  <2>8. \A b \in Attempts : phase'[b] \notin Writing \ {"serialising"}
    BY <1>7, <2>4
  <2>9. \A b \in Attempts : phase'[b] \notin {"writing", "writing to open"}
    BY <2>8 DEF Writing
  <2>10. Locked' = Locked
    BY DEF Locked, NoSecrets
  <2> QED BY <2>4, <2>5, <2>6, <2>7, <2>8, <2>9, <2>10 DEF AllIsKept
<1> QED BY <1>3, <1>6, <1>9, <1>10 DEF SecretInv
(* The passphrase fits: nothing else is open in this process. *)
LEMMA UnlockIsKept ==
    ASSUME SecretInv, NEW a \in Attempts, Unlock(a)
    PROVE  SecretInv'
<1> DEFINE p == In[a]
<1>1. p \in Processes /\ vault[p] = Locked /\ phase[a] = "locked"
  BY DiskAssumption DEF Unlock
<1>2. UNCHANGED <<sealed, given>>
  BY DEF Unlock
<1>3. CASE UNCHANGED <<vault, snapshot, secret, troubled>> /\ (Go(a, "failed") \/ UNCHANGED phase)
  <2>1. /\ DOMAIN phase' = Attempts
        /\ \A b \in Attempts : phase'[b] = phase[b] \/ (b = a /\ phase'[b] = "failed")
    BY <1>3 DEF Go, SecretInv, VaultTypes
  <2>2. \A b \in Attempts :
            \/ phase'[b] = phase[b] /\ (phase[b] \in Opens => secret'[b] = secret[b])
            \/ /\ phase[b] \notin Writing /\ phase'[b] \notin Writing
               /\ phase'[b] \in Past => vault[In[b]].key \in Words
    BY <1>1, <1>3, <2>1 DEF Writing, Past
  <2>3. DOMAIN secret' = Attempts
    BY <1>3 DEF SecretInv, VaultTypes
  <2> QED BY <1>2, <1>3, <2>1, <2>2, <2>3, NothingSealed
<1>4. ASSUME NEW word \in Words,
             vault' = [vault EXCEPT ![p] = Opening],
             snapshot' = [snapshot EXCEPT ![a] =
                             IF sealed = Missing THEN NoSecrets ELSE sealed.holds],
             secret' = [secret EXCEPT ![a] = word],
             BeginWriting(a, "emptying to open")
      PROVE  SecretInv'
  <2>1. /\ DOMAIN phase' = Attempts /\ phase'[a] = "emptying to open"
        /\ \A b \in Attempts \ {a} : phase'[b] = phase[b]
        /\ "secrets" \in troubled => "secrets" \in troubled'
        /\ "secrets" \notin troubled' =>
              /\ \A b \in Attempts \ {a} : phase[b] \notin Writing
              /\ \A q \in Processes \ {p} : vault[q] = Locked
    BY <1>4 DEF BeginWriting, Go, SecretInv, VaultTypes
  <2>2. /\ DOMAIN vault' = Processes /\ DOMAIN secret' = Attempts /\ DOMAIN snapshot' = Attempts
        /\ vault'[p] = Opening /\ secret'[a] = word
        /\ snapshot'[a] = IF sealed = Missing THEN NoSecrets ELSE sealed.holds
        /\ \A q \in Processes \ {p} : vault'[q] = vault[q]
        /\ \A b \in Attempts \ {a} : secret'[b] = secret[b] /\ snapshot'[b] = snapshot[b]
    BY <1>1, <1>4 DEF SecretInv, VaultTypes
  <2>3. DOMAIN Opening = {"key", "holds"} /\ Opening.key \notin Words /\ Opening' = Opening
    BY DEF Opening, Words, NoSecrets
  <2>4. Locked' = Locked /\ Locked.key \notin Words /\ Locked # Opening
    BY DEF Locked, Opening, Words, NoSecrets
  <2>5. VaultTypes'
    BY <2>1, <2>2, <2>3, <2>4 DEF SecretInv, VaultTypes
  <2>6. \A b \in Attempts : In[b] = p => phase[b] \notin Past \cup Opens
    BY <1>1, <2>4 DEF SecretInv, OpenedOnce
  <2>7. OpenedOnce'
    <3>1. ASSUME NEW b \in Attempts, phase'[b] \in Past
          PROVE  vault'[In[b]].key \in Words
      <4>1. b # a /\ phase[b] \in Past
        BY <2>1, <3>1 DEF Past
      <4>2. In[b] # p /\ In[b] \in Processes
        BY <2>6, <4>1, DiskAssumption
      <4> QED BY <2>2, <4>1, <4>2 DEF SecretInv, OpenedOnce
    <3>2. ASSUME NEW b \in Attempts, phase'[b] \in Opens
          PROVE  /\ vault'[In[b]] = Opening' /\ secret'[b] \in Words
                 /\ b = a \/ (phase[b] \in Opens /\ In[b] # p)
      <4>1. CASE b = a
        BY <2>2, <2>3, <4>1
      <4>2. CASE b # a
        <5>1. phase[b] \in Opens /\ In[b] # p /\ In[b] \in Processes
          BY <2>1, <2>6, <3>2, <4>2, DiskAssumption
        <5> QED BY <2>2, <2>3, <4>2, <5>1 DEF SecretInv, OpenedOnce
      <4> QED BY <4>1, <4>2
    <3>3. ASSUME NEW b \in Attempts, NEW c \in Attempts, phase'[b] \in Opens,
                 phase'[c] \in Opens, In[b] = In[c]
          PROVE  b = c
      BY <3>2, <3>3 DEF SecretInv, OpenedOnce
    <3> QED BY <3>1, <3>2, <3>3 DEF OpenedOnce
  <2>8. ASSUME "secrets" \notin troubled'
        PROVE  AllIsKept'
    <3>1. AllIsKept /\ (\A b \in Attempts : phase[b] \notin Writing)
      BY <1>1, <2>1, <2>8 DEF SecretInv, Writing
    <3>2. sealed.holds = given
      BY <3>1 DEF AllIsKept
    <3>3. snapshot'[a] = given'
      BY <1>2, <2>2, <3>2 DEF Missing
    <3>4. \A b \in Attempts : phase'[b] \in Writing => b = a
      BY <2>1, <3>1
    <3>5. phase'[a] \in Writing /\ phase'[a] \notin {"writing", "writing to open"}
      BY <2>1 DEF Writing
    <3>6. \A q \in Processes : q = p \/ vault'[q] = Locked
      BY <2>1, <2>2, <2>8
    <3>7. \A q \in Processes : vault'[q].key \notin Words
      BY <2>2, <2>3, <2>4, <3>6
    <3>8. \A b \in Attempts : phase'[b] \notin {"writing", "writing to open"}
      BY <3>4, <3>5 DEF Writing
    <3>9. \A q, r \in Processes : vault'[q] # Locked' /\ vault'[r] # Locked' => q = r
      BY <2>4, <3>6
    <3> QED BY <3>3, <3>4, <3>5, <3>7, <3>8, <3>9 DEF AllIsKept
  <2> QED BY <2>1, <2>5, <2>7, <2>8 DEF SecretInv
<1> QED BY <1>3, <1>4 DEF Unlock
LEMMA AlreadyOpenIsKept ==
    ASSUME SecretInv, NEW a \in Attempts, AlreadyOpen(a)
    PROVE  SecretInv'
<1>1. vault[In[a]].key \in Words
  BY DiskAssumption DEF AlreadyOpen, IsOpen, SecretInv, VaultTypes
<1>2. /\ UNCHANGED <<sealed, vault, snapshot, given, secret, troubled>>
      /\ phase[a] = "locked" /\ phase'[a] = "looking up" /\ DOMAIN phase' = Attempts
      /\ \A b \in Attempts \ {a} : phase'[b] = phase[b]
  BY DEF AlreadyOpen, Go, secrets, SecretInv, VaultTypes
<1>3. phase[a] \notin Writing /\ phase'[a] \notin Writing
  BY <1>2 DEF Writing
<1>4. DOMAIN secret' = Attempts
  BY <1>2 DEF SecretInv, VaultTypes
<1> QED BY <1>1, <1>2, <1>3, <1>4, NothingSealed

LEMMA SerialiseIsKept ==
    ASSUME SecretInv, NEW a \in Attempts, Serialise(a)
    PROVE  SecretInv'
<1>1. /\ UNCHANGED <<sealed, vault, given, secret, troubled>>
      /\ phase[a] = "serialising" /\ phase'[a] = "emptying" /\ DOMAIN phase' = Attempts
      /\ \A b \in Attempts \ {a} : phase'[b] = phase[b] /\ snapshot'[b] = snapshot[b]
      /\ DOMAIN snapshot' = Attempts /\ snapshot'[a] = vault[In[a]].holds
  BY DEF Serialise, Go, SecretInv, VaultTypes
<1>2. vault[In[a]].key \in Words /\ In[a] \in Processes
  BY <1>1, DiskAssumption DEF SecretInv, OpenedOnce, Past
<1>3. Locked' = Locked /\ Opening' = Opening /\ Torn' = Torn
  BY DEF Locked, Opening, Torn, NoSecrets
<1>4. VaultTypes'
  BY <1>1, <1>3 DEF SecretInv, VaultTypes
<1>5. OpenedOnce'
  BY <1>1, <1>2, <1>3 DEF SecretInv, OpenedOnce, Past, Opens
<1>6. AllIsKept => AllIsKept'
  BY <1>1, <1>2, <1>3 DEF AllIsKept, Writing
<1> QED BY <1>1, <1>4, <1>5, <1>6 DEF SecretInv

LEMMA EmptyIsKept ==
    ASSUME SecretInv, NEW a \in Attempts, Empty(a)
    PROVE  SecretInv'
<1>1. /\ UNCHANGED <<vault, snapshot, given, secret, troubled>> /\ sealed' = Torn
      /\ \/ phase[a] = "emptying" /\ phase'[a] = "writing"
         \/ phase[a] = "emptying to open" /\ phase'[a] = "writing to open"
      /\ DOMAIN phase' = Attempts
      /\ \A b \in Attempts \ {a} : phase'[b] = phase[b]
  BY DEF Empty, Go, SecretInv, VaultTypes
<1>2. Locked' = Locked /\ Opening' = Opening /\ Torn' = Torn
  BY DEF Locked, Opening, Torn, NoSecrets
<1>3. VaultTypes'
  BY <1>1, <1>2 DEF SecretInv, VaultTypes
<1>4. \A b \in Attempts : (phase'[b] \in Past <=> phase[b] \in Past)
                          /\ (phase'[b] \in Opens <=> phase[b] \in Opens)
                          /\ (phase'[b] \in Writing <=> phase[b] \in Writing)
  BY <1>1 DEF Past, Opens, Writing
<1>5. OpenedOnce'
  BY <1>1, <1>2, <1>4 DEF SecretInv, OpenedOnce
<1>6. a \in Attempts /\ phase'[a] \in Writing /\ phase[a] \in Writing \ {"serialising"}
  BY <1>1 DEF Writing
<1>7. AllIsKept => AllIsKept'
  BY <1>1, <1>2, <1>4, <1>6 DEF AllIsKept
<1> QED BY <1>1, <1>3, <1>5, <1>7 DEF SecretInv

(* What is written is what was given, on a file that was emptied for it.   *)
LEMMA WriteIsKept ==
    ASSUME SecretInv, NEW a \in Attempts, Write(a)
    PROVE  SecretInv'
<1> DEFINE p == In[a]
<1>1. /\ IF sealed = Torn THEN sealed' = Sealing(a) ELSE sealed' \in {Sealing(a), Torn}
      /\ snapshot' = [snapshot EXCEPT ![a] = NoSecrets]
      /\ UNCHANGED <<given, troubled>>
      /\ phase[a] \in {"writing", "writing to open"} /\ p \in Processes
  BY DiskAssumption DEF Write
<1>2. Locked' = Locked /\ Opening' = Opening /\ Torn' = Torn /\ Torn.key \notin Words
  BY DiskAssumption DEF Locked, Opening, Torn, NoSecrets
<1>3. Opening.key \notin Words /\ Locked.key \notin Words /\ Locked # Opening
  BY DEF Opening, Locked, Words
<1>4. Sealing(a).holds = snapshot[a] /\ DOMAIN Sealing(a) = {"key", "holds"}
  BY DEF Sealing
<1>5. /\ DOMAIN snapshot' = Attempts
      /\ \A b \in Attempts \ {a} : snapshot'[b] = snapshot[b]
  BY <1>1 DEF SecretInv, VaultTypes
<1>6. CASE phase[a] = "writing"
  <2>1. /\ UNCHANGED vault
        /\ phase'[a] \in {"done", "dialing"} /\ DOMAIN phase' = Attempts
        /\ \A b \in Attempts \ {a} : phase'[b] = phase[b] /\ secret'[b] = secret[b]
        /\ DOMAIN secret' = Attempts
    BY <1>6 DEF Write, Go, SecretInv, VaultTypes
  <2>2. vault[p].key \in Words /\ Sealing(a).key = vault[p].key
    BY <1>6 DEF SecretInv, OpenedOnce, Past, Sealing
  <2>3. VaultTypes'
    BY <1>2, <1>5, <2>1 DEF SecretInv, VaultTypes
  <2>4. phase'[a] \notin Writing \cup Opens /\ phase[a] \in Writing \ {"serialising"}
    BY <1>6, <2>1 DEF Writing, Opens
  <2>5. OpenedOnce'
    BY <1>2, <2>1, <2>2, <2>4 DEF SecretInv, OpenedOnce
  <2>6. ASSUME AllIsKept
        PROVE  AllIsKept'
    <3>1. \A b \in Attempts : phase'[b] \notin Writing
      BY <2>1, <2>4, <2>6 DEF AllIsKept
    <3>2. sealed' = Sealing(a) /\ Sealing(a).holds = given /\ Sealing(a) # Torn
      BY <1>1, <1>2, <1>4, <1>6, <2>2, <2>4, <2>6 DEF AllIsKept
    <3> QED BY <1>1, <1>2, <2>1, <2>6, <3>1, <3>2 DEF AllIsKept, Writing
  <2> QED BY <1>1, <2>3, <2>5, <2>6 DEF SecretInv
<1>7. CASE phase[a] = "writing to open"
  <2>1. /\ vault' = [vault EXCEPT ![p] = Sealing(a)]
        /\ secret' = [secret EXCEPT ![a] = None]
        /\ phase' = [phase EXCEPT ![a] = "looking up"]
    BY <1>7 DEF Write, Go
  <2>2. /\ vault[p] = Opening /\ secret[a] \in Words
        /\ phase[a] \in Opens /\ phase[a] \in Writing \ {"serialising"}
    BY <1>7 DEF SecretInv, OpenedOnce, Opens, Writing
  <2>3. Sealing(a).key \in Words
    BY <1>7, <2>2 DEF Sealing
  <2>4. /\ DOMAIN vault' = Processes /\ vault'[p] = Sealing(a)
        /\ \A q \in Processes \ {p} : vault'[q] = vault[q]
        /\ phase'[a] = "looking up" /\ DOMAIN phase' = Attempts
        /\ \A b \in Attempts \ {a} : phase'[b] = phase[b] /\ secret'[b] = secret[b]
        /\ DOMAIN secret' = Attempts
    BY <1>1, <2>1 DEF SecretInv, VaultTypes
  <2>5. VaultTypes'
    BY <1>2, <1>4, <1>5, <2>3, <2>4 DEF SecretInv, VaultTypes
  <2>6. phase'[a] \notin Opens /\ phase'[a] \notin Writing
    BY <2>4 DEF Opens, Writing
  <2>7. OpenedOnce'
    <3>1. ASSUME NEW b \in Attempts, phase'[b] \in Past
          PROVE  vault'[In[b]].key \in Words
      <4>1. CASE In[b] = p
        BY <2>3, <2>4, <4>1
      <4>2. CASE In[b] # p
        <5>1. phase[b] \in Past /\ In[b] \in Processes
          BY <2>4, <3>1, <4>2, DiskAssumption
        <5> QED BY <2>4, <4>2, <5>1 DEF SecretInv, OpenedOnce
      <4> QED BY <4>1, <4>2
    <3>2. ASSUME NEW b \in Attempts, phase'[b] \in Opens
          PROVE  phase[b] \in Opens /\ vault'[In[b]] = Opening /\ secret'[b] \in Words
      <4>1. b # a /\ phase[b] \in Opens /\ In[b] \in Processes
        BY <2>4, <2>6, <3>2, DiskAssumption
      <4>2. In[b] # p
        BY <2>2, <4>1 DEF SecretInv, OpenedOnce
      <4> QED BY <2>4, <4>1, <4>2 DEF SecretInv, OpenedOnce
    <3> QED BY <1>2, <3>1, <3>2 DEF SecretInv, OpenedOnce
  <2>8. ASSUME AllIsKept
        PROVE  AllIsKept'
    <3>1. \A b \in Attempts : phase'[b] \notin Writing
      BY <2>2, <2>4, <2>6, <2>8 DEF AllIsKept
    <3>2. sealed' = Sealing(a) /\ Sealing(a).holds = given /\ Sealing(a) # Torn
      BY <1>1, <1>2, <1>4, <1>7, <2>2, <2>3, <2>8 DEF AllIsKept
    <3>3. \A q \in Processes : q = p \/ vault'[q] = Locked
      BY <1>3, <2>2, <2>4, <2>8, <1>1 DEF AllIsKept
    <3>4. \A q \in Processes : vault'[q].key \in Words => vault'[q].holds = given
      BY <1>3, <2>4, <3>2, <3>3
    <3>5. \A q, r \in Processes : vault'[q] # Locked /\ vault'[r] # Locked => q = r
      BY <3>3
    <3>6. \A b \in Attempts : phase'[b] \notin {"writing", "writing to open"}
      BY <3>1 DEF Writing
    <3> QED BY <1>1, <1>2, <3>1, <3>2, <3>4, <3>5, <3>6 DEF AllIsKept
  <2> QED BY <1>1, <2>5, <2>7, <2>8 DEF SecretInv
<1> QED BY <1>1, <1>6, <1>7
(* Nothing is promised any more; but who else is opening goes on.          *)
LEMMA WriteFailsIsKept ==
    ASSUME SecretInv, NEW a \in Attempts, WriteFails(a)
    PROVE  SecretInv'
<1> DEFINE p == In[a]
<1>1. /\ phase[a] \in Writing /\ phase' = [phase EXCEPT ![a] = "failed"]
      /\ snapshot' = [snapshot EXCEPT ![a] = NoSecrets]
      /\ secret' = [secret EXCEPT ![a] = None]
      /\ "secrets" \in troubled'
      /\ p \in Processes
  BY DiskAssumption DEF WriteFails, Go
<1>2. vault' = IF vault[p] = Opening /\ phase[a] \in Opens
               THEN [vault EXCEPT ![p] = Locked] ELSE vault
  BY DEF WriteFails, Opens
<1>3. Locked' = Locked /\ Opening' = Opening
  BY DEF Locked, Opening, NoSecrets
<1>4. DOMAIN Locked = {"key", "holds"} /\ Opening.key \notin Words
  BY DEF Locked, Opening, Words
<1>5. /\ DOMAIN vault' = Processes /\ (\A q \in Processes \ {p} : vault'[q] = vault[q])
      /\ vault'[p] = vault[p] \/ (vault'[p] = Locked /\ vault[p] = Opening /\ phase[a] \in Opens)
      /\ DOMAIN phase' = Attempts /\ phase'[a] = "failed"
      /\ \A b \in Attempts \ {a} : phase'[b] = phase[b] /\ secret'[b] = secret[b]
      /\ DOMAIN secret' = Attempts /\ DOMAIN snapshot' = Attempts
  BY <1>1, <1>2 DEF SecretInv, VaultTypes
<1>6. VaultTypes'
  BY <1>3, <1>4, <1>5 DEF SecretInv, VaultTypes
<1>7. phase'[a] \notin Past \cup Opens
  BY <1>5 DEF Past, Opens
<1>8. ASSUME NEW b \in Attempts, phase'[b] \in Past
      PROVE  vault'[In[b]].key \in Words
  <2>1. phase[b] \in Past /\ In[b] \in Processes
    BY <1>5, <1>7, <1>8, DiskAssumption
  <2>2. vault[In[b]].key \in Words
    BY <2>1 DEF SecretInv, OpenedOnce
  <2> QED BY <1>4, <1>5, <2>1, <2>2
<1>9. ASSUME NEW b \in Attempts, phase'[b] \in Opens
      PROVE  phase[b] \in Opens /\ vault'[In[b]] = Opening /\ secret'[b] \in Words
  <2>1. b # a /\ phase[b] \in Opens /\ In[b] \in Processes
    BY <1>5, <1>7, <1>9, DiskAssumption
  <2>2. vault[In[b]] = Opening /\ secret[b] \in Words /\ (phase[a] \in Opens => In[b] # p)
    BY <2>1 DEF SecretInv, OpenedOnce
  <2>3. vault'[In[b]] = vault[In[b]]
    BY <1>5, <2>1, <2>2
  <2> QED BY <1>5, <2>1, <2>2, <2>3
<1>10. OpenedOnce'
  BY <1>3, <1>8, <1>9 DEF SecretInv, OpenedOnce
<1> QED BY <1>1, <1>6, <1>10 DEF SecretInv

(* A process that ends forgets what it had open; if it was writing, the    *)
(* file may be anything.                                                   *)
LEMMA ExitIsKept ==
    ASSUME SecretInv, NEW p \in Processes, Exit(p)
    PROVE  SecretInv'
<1>1. /\ vault' = [vault EXCEPT ![p] = Locked]
      /\ phase' = [a \in Attempts |-> IF In[a] = p /\ Busy(a) THEN "failed" ELSE phase[a]]
      /\ snapshot' = [a \in Attempts |-> IF In[a] = p THEN NoSecrets ELSE snapshot[a]]
      /\ secret' = [a \in Attempts |-> IF In[a] = p THEN None ELSE secret[a]]
      /\ UNCHANGED <<sealed, given>>
  BY DEF Exit
<1>2. /\ "secrets" \in troubled => "secrets" \in troubled'
      /\ (\E a \in Attempts : In[a] = p /\ phase[a] \in Writing) => "secrets" \in troubled'
  BY DEF Exit
<1>3. Locked' = Locked /\ Opening' = Opening /\ Torn' = Torn
  BY DEF Locked, Opening, Torn, NoSecrets
<1>4. DOMAIN Locked = {"key", "holds"} /\ Locked.key \notin Words
  BY DEF Locked, Words
<1>5. /\ DOMAIN vault' = Processes /\ vault'[p] = Locked
      /\ \A q \in Processes \ {p} : vault'[q] = vault[q]
  BY <1>1 DEF SecretInv, VaultTypes
<1>6. VaultTypes'
  BY <1>1, <1>3, <1>4, <1>5 DEF SecretInv, VaultTypes
<1>7. ASSUME NEW a \in Attempts, phase'[a] \in Past \cup Opens \cup Writing
      PROVE  /\ In[a] \in Processes \ {p} /\ phase'[a] = phase[a]
             /\ secret'[a] = secret[a] /\ snapshot'[a] = snapshot[a]
  <2>1. CASE In[a] = p
    <3>1. phase'[a] \in {"idle", "done", "failed"}
      BY <1>1, <2>1 DEF Busy
    <3> QED BY <1>7, <3>1 DEF Past, Opens, Writing
  <2>2. CASE In[a] # p
    BY <1>1, <2>2, DiskAssumption
  <2> QED BY <2>1, <2>2
<1>8. OpenedOnce'
  BY <1>3, <1>5, <1>7 DEF SecretInv, OpenedOnce
<1>9. ASSUME "secrets" \notin troubled'
      PROVE  AllIsKept'
  <2>1. AllIsKept /\ (\A a \in Attempts : In[a] = p => phase[a] \notin Writing)
    BY <1>2, <1>9 DEF SecretInv
  <2>2. \A a \in Attempts : phase'[a] \in Writing <=> phase[a] \in Writing
    <3>1. \A a \in Attempts : In[a] # p => phase'[a] = phase[a]
      BY <1>1
    <3> QED BY <1>7, <2>1, <3>1
  <2>3. \A q \in Processes : vault'[q].key \in Words => q # p
    BY <1>4, <1>5
  <2>4. \A q \in Processes : vault'[q] # Locked => vault[q] # Locked
    BY <1>5
  <2>5. \A a \in Attempts : phase'[a] \in {"writing", "writing to open"} => phase'[a] \in Writing
    BY DEF Writing
  <2>6. \A q \in Processes : vault'[q].key \in Words => vault'[q].holds = given'
    BY <1>1, <1>5, <2>1, <2>3 DEF AllIsKept
  <2>7. \A a \in Attempts : phase'[a] \in Writing \ {"serialising"} => snapshot'[a] = given'
    BY <1>1, <1>7, <2>1 DEF AllIsKept
  <2>8. \A a \in Attempts : phase'[a] \in {"writing", "writing to open"} => sealed' = Torn'
    BY <1>1, <1>3, <1>7, <2>1, <2>5 DEF AllIsKept
  <2> QED BY <1>1, <1>3, <2>1, <2>2, <2>4, <2>6, <2>7, <2>8 DEF AllIsKept
<1> QED BY <1>2, <1>6, <1>8, <1>9 DEF SecretInv

LEMMA SecretStep == SecretInv /\ [Next]_vars => SecretInv'
<1> SUFFICES ASSUME SecretInv, [Next]_vars
             PROVE  SecretInv'
  OBVIOUS
<1>1. ASSUME UNCHANGED <<sealed, vault, snapshot, given, phase, secret>>,
             "secrets" \in troubled => "secrets" \in troubled'
      PROVE  SecretInv'
  <2>1. DOMAIN phase' = Attempts /\ DOMAIN secret' = Attempts
    BY <1>1 DEF SecretInv, VaultTypes
  <2> QED BY <1>1, <2>1, NothingSealed
<1>2. ASSUME NEW p \in Processes, Keep(p)
      PROVE  SecretInv'
  <2>1. CASE Exit(p)
    BY <2>1, ExitIsKept
  <2>2. CASE ~Exit(p)
    BY <1>1, <1>2, <2>2 DEF Keep, Launch, Add, Change, Forget, Saved, Edit, attempt, secrets
  <2> QED BY <2>1, <2>2
<1>3. ASSUME NEW a \in Attempts, Connect(a)
      PROVE  SecretInv'
  BY <1>3, ConnectSealsNothing, AnswerIsKept
<1>4. ASSUME NEW a \in Attempts, KeepSecrets(a)
      PROVE  SecretInv'
  BY <1>4, UnlockIsKept, AlreadyOpenIsKept, SerialiseIsKept, EmptyIsKept, WriteIsKept,
     WriteFailsIsKept DEF KeepSecrets
<1>5. CASE UNCHANGED vars
  BY <1>1, <1>5 DEF vars, attempt, secrets
<1> QED BY <1>2, <1>3, <1>4, <1>5 DEF Next

(* What it is sealed with.  Nobody opens it, has it open or has sealed it  *)
(* with a passphrase no new file was made with, and while nobody wrote     *)
(* beside another or was cut off, whoever has it open has its passphrase.  *)
PassphraseInv ==
    /\ sealed.key \in chosen \/ sealed \in {Missing, Torn}
    /\ \A p \in Processes : vault[p].key \in Words => vault[p].key \in chosen
    /\ \A a \in Attempts : phase[a] \in Opens => secret[a] \in chosen
    /\ "secrets" \notin troubled /\ (\A a \in Attempts : phase[a] \notin Writing) =>
          \A p \in Processes : vault[p].key \in Words => vault[p].key = sealed.key

LEMMA PassphraseInit == Init => PassphraseInv
<1> SUFFICES ASSUME Init
             PROVE  PassphraseInv
  OBVIOUS
<1>1. Locked.key \notin Words
  BY DEF Locked, Words
<1> QED BY <1>1 DEF Init, PassphraseInv, Opens

(* Steps that leave the file be, and open it nowhere. *)
LEMMA NoOtherPassphrase ==
    ASSUME PassphraseInv, UNCHANGED <<sealed, chosen>>,
           \A p \in Processes : vault'[p].key \in Words => vault'[p].key = vault[p].key,
           \A a \in Attempts : phase'[a] \in Opens => phase[a] \in Opens /\ secret'[a] = secret[a],
           "secrets" \notin troubled' /\ (\A a \in Attempts : phase'[a] \notin Writing) =>
               "secrets" \notin troubled /\ (\A a \in Attempts : phase[a] \notin Writing)
    PROVE  PassphraseInv'
<1>1. Missing' = Missing /\ Torn' = Torn
  BY DEF Missing, Torn, NoSecrets
<1> QED BY <1>1 DEF PassphraseInv

LEMMA ConnectKeepsThePassphrase ==
    ASSUME SecretInv, PassphraseInv, NEW a \in Attempts, Connect(a)
    PROVE  PassphraseInv'
<1>1. CASE Answer(a)
  <2>1. PICK s : Store(a, s)
    BY <1>1 DEF Answer
  <2>2. /\ vault' = [vault EXCEPT ![In[a]].holds[To[a]] = s]
        /\ secret' = [secret EXCEPT ![a] = s]
        /\ phase' = [phase EXCEPT ![a] = "serialising"] /\ UNCHANGED <<sealed, chosen>>
    BY <1>1, <2>1 DEF Answer, Store, BeginWriting, Go
  <2>3. In[a] \in Processes /\ \A p \in Processes : vault'[p].key = vault[p].key
    BY <2>2, DiskAssumption DEF SecretInv, VaultTypes
  <2>4. phase'[a] \in Writing /\ \A b \in Attempts :
           phase'[b] \in Opens => phase[b] \in Opens /\ secret'[b] = secret[b]
    BY <2>2 DEF SecretInv, VaultTypes, Writing, Opens
  <2> QED BY <2>2, <2>3, <2>4, NoOtherPassphrase
<1>2. CASE ~Answer(a)
  <2>1. UNCHANGED <<sealed, chosen, vault, troubled>>
    BY <1>2 DEF Connect, LookUp, GetSecret, GiveUp, Dial, Accept, SignIn, Offer, KeptSecrets, secrets
  <2>2. /\ \A b \in Attempts \ {a} : phase'[b] = phase[b] /\ secret'[b] = secret[b]
        /\ phase[a] \notin Writing /\ phase'[a] \notin Writing
    BY <1>2, NothingIsWritten
  <2>3. \A b \in Attempts : phase'[b] \in Opens => phase[b] \in Opens /\ secret'[b] = secret[b]
    BY <2>2 DEF Opens, Writing
  <2> QED BY <2>1, <2>2, <2>3, NoOtherPassphrase
<1> QED BY <1>1, <1>2

(* A passphrase that fits is the one the file was sealed with, or makes a  *)
(* new file where there is none.                                           *)
LEMMA UnlockKeepsThePassphrase ==
    ASSUME SecretInv, PassphraseInv, NEW a \in Attempts, Unlock(a)
    PROVE  PassphraseInv'
<1>1. In[a] \in Processes /\ vault[In[a]] = Locked /\ phase[a] = "locked" /\ UNCHANGED sealed
  BY DiskAssumption DEF Unlock
<1>2. CASE UNCHANGED <<vault, secret, chosen, troubled>> /\ (Go(a, "failed") \/ UNCHANGED phase)
  <2>1. \A b \in Attempts : phase'[b] = phase[b] \/ (b = a /\ phase'[b] = "failed")
    BY <1>2 DEF Go, SecretInv, VaultTypes
  <2>2. phase[a] \notin Writing /\ "failed" \notin Opens
    BY <1>1 DEF Writing, Opens
  <2> QED BY <1>1, <1>2, <2>1, <2>2, NoOtherPassphrase
<1>3. ASSUME NEW word \in Words, Fits(word),
             vault' = [vault EXCEPT ![In[a]] = Opening],
             secret' = [secret EXCEPT ![a] = word],
             chosen' = IF sealed = Missing THEN chosen \cup {word} ELSE chosen,
             phase' = [phase EXCEPT ![a] = "emptying to open"]
      PROVE  PassphraseInv'
  <2>1. word \in chosen' /\ chosen \subseteq chosen'
    BY <1>3 DEF Fits, PassphraseInv
  <2>2. /\ \A b \in Attempts \ {a} : phase'[b] = phase[b] /\ secret'[b] = secret[b]
        /\ phase'[a] = "emptying to open" /\ secret'[a] = word
        /\ \A p \in Processes : vault'[p] = vault[p] \/ vault'[p] = Opening
    BY <1>1, <1>3 DEF SecretInv, VaultTypes
  <2>3. Opening.key \notin Words /\ phase'[a] \in Writing
    BY <2>2 DEF Opening, Words, Writing
  <2>4. Missing' = Missing /\ Torn' = Torn
    BY DEF Missing, Torn, NoSecrets
  <2>5. \A p \in Processes : vault'[p].key \in Words => vault'[p].key \in chosen'
    BY <2>1, <2>2, <2>3 DEF PassphraseInv
  <2>6. \A b \in Attempts : phase'[b] \in Opens => secret'[b] \in chosen'
    BY <2>1, <2>2 DEF PassphraseInv
  <2> QED BY <1>1, <2>1, <2>3, <2>4, <2>5, <2>6 DEF PassphraseInv
<1> QED BY <1>2, <1>3 DEF Unlock, BeginWriting, Go

LEMMA EmptyKeepsThePassphrase ==
    ASSUME SecretInv, PassphraseInv, NEW a \in Attempts, Empty(a)
    PROVE  PassphraseInv'
<1>1. /\ sealed' = Torn /\ UNCHANGED <<vault, secret, chosen>>
      /\ phase[a] \in {"emptying", "emptying to open"}
      /\ phase' = [phase EXCEPT ![a] = IF phase[a] = "emptying" THEN "writing" ELSE "writing to open"]
  BY DEF Empty, Go
<1>2. phase'[a] \in Writing /\ \A b \in Attempts : phase'[b] \in Opens => phase[b] \in Opens
  BY <1>1 DEF SecretInv, VaultTypes, Writing, Opens
<1>3. Torn' = Torn
  BY DEF Torn, NoSecrets
<1> QED BY <1>1, <1>2, <1>3 DEF PassphraseInv

(* It is sealed with the passphrase it was opened with. *)
LEMMA WriteKeepsThePassphrase ==
    ASSUME SecretInv, PassphraseInv, NEW a \in Attempts, Write(a)
    PROVE  PassphraseInv'
<1> DEFINE p == In[a]
           key == Sealing(a).key
<1>1. /\ IF sealed = Torn THEN sealed' = Sealing(a) ELSE sealed' \in {Sealing(a), Torn}
      /\ UNCHANGED <<chosen, troubled>>
      /\ phase[a] \in {"writing", "writing to open"} /\ p \in Processes
      /\ Missing' = Missing /\ Torn' = Torn
  BY DiskAssumption DEF Write, Missing, Torn, NoSecrets
<1>2. /\ key \in chosen
      /\ \A q \in Processes \ {p} : vault'[q] = vault[q]
      /\ vault'[p].key = key
      /\ \A b \in Attempts \ {a} : phase'[b] = phase[b] /\ secret'[b] = secret[b]
      /\ phase'[a] \notin Opens
      /\ vault[p].key \in Words \/ vault[p] = Opening
  <2>1. CASE phase[a] = "writing"
    <3>1. key = vault[p].key /\ vault[p].key \in Words /\ UNCHANGED vault
      BY <2>1 DEF Sealing, SecretInv, OpenedOnce, Past, Write
    <3>2. /\ phase'[a] \in {"done", "dialing"}
          /\ \A b \in Attempts \ {a} : phase'[b] = phase[b] /\ secret'[b] = secret[b]
      BY <2>1 DEF Write, Go, SecretInv, VaultTypes
    <3> QED BY <1>1, <3>1, <3>2 DEF PassphraseInv, Opens
  <2>2. CASE phase[a] = "writing to open"
    <3>1. key = secret[a] /\ phase[a] \in Opens /\ vault[p] = Opening
      BY <2>2 DEF Sealing, Opens, SecretInv, OpenedOnce
    <3>2. /\ vault' = [vault EXCEPT ![p] = Sealing(a)]
          /\ secret' = [secret EXCEPT ![a] = None]
          /\ phase' = [phase EXCEPT ![a] = "looking up"]
      BY <2>2 DEF Write, Go
    <3> QED BY <1>1, <3>1, <3>2 DEF PassphraseInv, Opens, SecretInv, VaultTypes
  <2> QED BY <1>1, <2>1, <2>2
<1> HIDE DEF key
<1>3. \A q \in Processes : vault'[q].key \in Words => vault'[q].key \in chosen'
  BY <1>1, <1>2 DEF PassphraseInv
<1>4. \A b \in Attempts : phase'[b] \in Opens => secret'[b] \in chosen'
  BY <1>1, <1>2 DEF PassphraseInv
<1>5. sealed'.key \in chosen' \/ sealed' \in {Missing', Torn'}
  BY <1>1, <1>2 DEF key
<1>6. ASSUME "secrets" \notin troubled', NEW q \in Processes, vault'[q].key \in Words
      PROVE  vault'[q].key = sealed'.key
  <2>1. AllIsKept
    BY <1>1, <1>6 DEF SecretInv
  <2>2. sealed = Torn
    BY <1>1, <2>1 DEF AllIsKept
  <2>3. Locked.key \notin Words /\ Locked # Opening
    BY DEF Locked, Opening, Words
  <2>4. q = p
    <3>1. vault[p] # Locked
      BY <1>2, <2>3
    <3>2. q # p => vault[q] # Locked
      BY <1>2, <1>6, <2>3
    <3> QED BY <1>1, <2>1, <3>1, <3>2 DEF AllIsKept
  <2> QED BY <1>1, <1>2, <2>2, <2>4 DEF key
<1> QED BY <1>3, <1>4, <1>5, <1>6 DEF PassphraseInv

LEMMA PassphraseStep == SecretInv /\ PassphraseInv /\ [Next]_vars => PassphraseInv'
<1> SUFFICES ASSUME SecretInv, PassphraseInv, [Next]_vars
             PROVE  PassphraseInv'
  OBVIOUS
<1>1. ASSUME NEW p \in Processes, Exit(p)
      PROVE  PassphraseInv'
  <2>1. /\ vault' = [vault EXCEPT ![p] = Locked] /\ UNCHANGED <<sealed, chosen>>
        /\ phase' = [a \in Attempts |-> IF In[a] = p /\ Busy(a) THEN "failed" ELSE phase[a]]
        /\ secret' = [a \in Attempts |-> IF In[a] = p THEN None ELSE secret[a]]
        /\ "secrets" \in troubled => "secrets" \in troubled'
        /\ (\E a \in Attempts : In[a] = p /\ phase[a] \in Writing) => "secrets" \in troubled'
    BY <1>1 DEF Exit
  <2>2. Locked.key \notin Words
    BY DEF Locked, Words
  <2>3. \A q \in Processes : vault'[q].key \in Words => vault'[q].key = vault[q].key
    BY <2>1, <2>2 DEF SecretInv, VaultTypes
  <2>4. ASSUME NEW a \in Attempts
        PROVE  /\ phase'[a] \in Opens => phase[a] \in Opens /\ secret'[a] = secret[a]
               /\ In[a] # p => phase'[a] = phase[a]
    <3>1. CASE In[a] = p
      <4>1. phase'[a] \in {"idle", "done", "failed"}
        BY <2>1, <3>1 DEF Busy
      <4> QED BY <3>1, <4>1 DEF Opens
    <3>2. CASE In[a] # p
      BY <2>1, <3>2
    <3> QED BY <3>1, <3>2
  <2> QED BY <2>1, <2>3, <2>4, NoOtherPassphrase
<1>2. ASSUME UNCHANGED <<sealed, chosen, vault, phase, secret>>,
             "secrets" \in troubled => "secrets" \in troubled'
      PROVE  PassphraseInv'
  BY <1>2, NoOtherPassphrase
<1>3. ASSUME NEW p \in Processes, Keep(p), ~Exit(p)
      PROVE  PassphraseInv'
  BY <1>2, <1>3 DEF Keep, Launch, Add, Change, Forget, Saved, Edit, attempt, secrets
<1>4. ASSUME NEW a \in Attempts, AlreadyOpen(a) \/ Serialise(a) \/ WriteFails(a)
      PROVE  PassphraseInv'
  <2>1. Opening.key \notin Words /\ Locked.key \notin Words /\ In[a] \in Processes
    BY DiskAssumption DEF Opening, Locked, Words
  <2>2. CASE AlreadyOpen(a)
    <3>1. /\ UNCHANGED <<sealed, vault, secret, chosen, troubled>>
          /\ phase[a] = "locked" /\ phase' = [phase EXCEPT ![a] = "looking up"]
      BY <2>2 DEF AlreadyOpen, Go, secrets
    <3> QED BY <3>1, NoOtherPassphrase DEF SecretInv, VaultTypes, Opens, Writing
  <2>3. CASE Serialise(a)
    <3>1. /\ UNCHANGED <<sealed, vault, secret, chosen, troubled>>
          /\ phase[a] = "serialising" /\ phase' = [phase EXCEPT ![a] = "emptying"]
      BY <2>3 DEF Serialise, Go
    <3> QED BY <3>1, NoOtherPassphrase DEF SecretInv, VaultTypes, Opens, Writing
  <2>4. CASE WriteFails(a)
    <3>1. /\ UNCHANGED <<sealed, chosen>> /\ phase' = [phase EXCEPT ![a] = "failed"]
          /\ secret' = [secret EXCEPT ![a] = None] /\ "secrets" \in troubled'
          /\ vault' = vault \/ vault' = [vault EXCEPT ![In[a]] = Locked]
      BY <2>4 DEF WriteFails, Go
    <3>2. \A q \in Processes : vault'[q].key \in Words => vault'[q].key = vault[q].key
      BY <2>1, <3>1 DEF SecretInv, VaultTypes
    <3>3. \A b \in Attempts : phase'[b] \in Opens => phase[b] \in Opens /\ secret'[b] = secret[b]
      BY <3>1 DEF SecretInv, VaultTypes, Opens
    <3> QED BY <3>1, <3>2, <3>3, NoOtherPassphrase
  <2> QED BY <1>4, <2>2, <2>3, <2>4
<1>5. ASSUME NEW a \in Attempts, KeepSecrets(a)
      PROVE  PassphraseInv'
  BY <1>4, <1>5, UnlockKeepsThePassphrase, EmptyKeepsThePassphrase, WriteKeepsThePassphrase
     DEF KeepSecrets
<1>6. CASE UNCHANGED vars
  BY <1>2, <1>6 DEF vars, attempt, secrets
<1> QED BY <1>1, <1>3, <1>5, <1>6, ConnectKeepsThePassphrase DEF Next

(* While nobody wrote the file of secrets beside another or was cut off,   *)
(* over any number of launches and attempts, it holds every secret that    *)
(* was given, sealed with the passphrase whoever has it open goes on       *)
(* with; and written beside another, cut off or torn, it is still never    *)
(* opened nor sealed with one that no new file was made with (secrets.rs   *)
(* open, save, set).                                                       *)
THEOREM SecretsAlwaysSurvive == Spec => []SecretsSurvive
<1>1. SecretInv /\ PassphraseInv => SecretsSurvive
  <2> SUFFICES ASSUME SecretInv, PassphraseInv
               PROVE  SecretsSurvive
    OBVIOUS
  <2>1. \A p \in Processes : IsOpen(p) => vault[p].key \in Words
    BY DEF IsOpen, SecretInv, VaultTypes
  <2>2. SealedAsChosen
    BY <2>1 DEF SealedAsChosen, PassphraseInv
  <2>3. ASSUME "secrets" \notin troubled, \A a \in Attempts : phase[a] \notin Writing
        PROVE  IsWholeOnDisk
    BY <2>1, <2>3 DEF IsWholeOnDisk, SecretInv, AllIsKept, PassphraseInv
  <2> QED BY <2>2, <2>3 DEF SecretsSurvive
<1>2. Init => SecretInv /\ PassphraseInv
  BY SecretInit, PassphraseInit
<1>3. SecretInv /\ PassphraseInv /\ [Next]_vars => (SecretInv /\ PassphraseInv)'
  BY SecretStep, PassphraseStep
<1> QED BY <1>1, <1>2, <1>3, PTL DEF Spec

-----------------------------------------------------------------------------
(* The keys that are tried.  Reading ~/.ssh/config and leaving files out   *)
(* are recursions over a sequence: that there is such a function, and what *)
(* it is at each place, is shown by the first place where it would not be. *)

LEMMA LeastOfNumbers ==
    ASSUME NEW K \in SUBSET Nat, K # {}
    PROVE  \E k \in K : \A j \in K : k <= j
<1>1. \E k \in K : \A j \in K : ~ (<<j, k>> \in OpToRel(<, Nat))
  BY WFMin, NatLessThanWellFounded
<1>2. \A j, k \in Nat : <<j, k>> \in OpToRel(<, Nat) <=> j < k
  BY DEF OpToRel
<1>3. PICK k \in K : \A j \in K : ~ (j < k)
  BY <1>1, <1>2
<1>4. \A j \in K : k <= j
  BY <1>3
<1> QED BY <1>4

Keeping(S, so, e) == IF e \in S THEN Append(so, e) ELSE so

Keeps(f, s, S, n) ==
    f = [i \in 0 .. n |-> IF i = 0 THEN <<>> ELSE Keeping(S, f[i - 1], s[i])]

LEMMA SomethingKeeps ==
    ASSUME NEW s, NEW S, NEW m \in Nat
    PROVE  \E f : Keeps(f, s, S, m)
<1> DEFINE Can(n) == \E f : Keeps(f, s, S, n)
           K == {n \in 0 .. m : ~Can(n)}
<1>1. Can(0)
  <2> DEFINE f == [i \in 0 .. 0 |-> <<>>]
  <2>1. f = [i \in 0 .. 0 |-> IF i = 0 THEN <<>> ELSE Keeping(S, f[i - 1], s[i])]
    OBVIOUS
  <2> QED BY <2>1 DEF Keeps
<1>2. ASSUME NEW n \in Nat, Can(n)
      PROVE  Can(n + 1)
  <2>1. PICK f : Keeps(f, s, S, n)
    BY <1>2
  <2> DEFINE last == Keeping(S, f[n], s[n + 1])
             g == [i \in 0 .. (n + 1) |-> IF i = n + 1 THEN last ELSE f[i]]
             h == [i \in 0 .. (n + 1) |->
                      IF i = 0 THEN <<>> ELSE Keeping(S, g[i - 1], s[i])]
  <2>2. \A i \in 0 .. n : f[i] = IF i = 0 THEN <<>> ELSE Keeping(S, f[i - 1], s[i])
    BY <2>1 DEF Keeps
  <2>3. ASSUME NEW i \in 0 .. (n + 1)
        PROVE  g[i] = h[i]
    <3>1. CASE i = n + 1
      <4> HIDE DEF last
      <4>1. i # 0 /\ i - 1 = n /\ n \in 0 .. (n + 1) /\ n # n + 1
        BY <3>1
      <4>4. g[i] = last
        BY <3>1
      <4>2. g[n] = f[n]
        BY <4>1
      <4>0. i \in 0 .. (n + 1)
        OBVIOUS
      <4> HIDE DEF g
      <4>3. h[i] = Keeping(S, g[n], s[n + 1])
        BY <3>1, <4>0, <4>1
      <4> QED BY <4>1, <4>2, <4>3, <4>4 DEF last
    <3>2. CASE i = 0
      BY <3>2, <2>2
    <3>3. CASE i # 0 /\ i # n + 1
      <4>1. i - 1 \in 0 .. (n + 1) /\ i - 1 # n + 1 /\ i \in 0 .. n
        BY <3>3
      <4>2. g[i] = f[i] /\ g[i - 1] = f[i - 1]
        BY <4>1, <3>3
      <4>3. h[i] = Keeping(S, g[i - 1], s[i])
        BY <3>3
      <4> QED BY <4>1, <4>2, <4>3, <2>2, <3>3
    <3> QED BY <3>1, <3>2, <3>3
  <2>4. g = h
    <3>1. g = [i \in 0 .. (n + 1) |-> g[i]] /\ h = [i \in 0 .. (n + 1) |-> h[i]]
      OBVIOUS
    <3> HIDE DEF g, h
    <3> QED BY <2>3, <3>1
  <2>5. h = [i \in 0 .. (n + 1) |-> IF i = 0 THEN <<>> ELSE Keeping(S, g[i - 1], s[i])]
    OBVIOUS
  <2> HIDE DEF g, h
  <2> QED BY <2>4, <2>5 DEF Keeps
<1> HIDE DEF Can
<1>3. SUFFICES ASSUME K # {} PROVE FALSE
  BY DEF Can
<1>4. PICK k \in K : \A j \in K : k <= j
  <2>1. K \in SUBSET Nat
    OBVIOUS
  <2> QED BY <2>1, <1>3, LeastOfNumbers
<1>5. k # 0 /\ k \in Nat
  BY <1>4, <1>1
<1>6. k - 1 \in 0 .. m /\ k - 1 \in Nat /\ ~(k <= k - 1) /\ (k - 1) + 1 = k
  BY <1>4, <1>5
<1>7. Can(k - 1)
  BY <1>4, <1>6
<1>8. Can((k - 1) + 1)
  BY <1>7, <1>2, <1>6
<1> QED BY <1>4, <1>6, <1>8

(* Only is the last of such a function.                                    *)
LEMMA KeptBy ==
    ASSUME NEW V, NEW s \in Seq(V), NEW S
    PROVE  \E f : Keeps(f, s, S, Len(s)) /\ Only(s, S) = f[Len(s)]
<1> DEFINE n == Len(s)
           Is(f) == f = [i \in 0 .. n |->
                            IF i = 0 THEN <<>>
                            ELSE IF s[i] \in S THEN Append(f[i - 1], s[i]) ELSE f[i - 1]]
           kept == CHOOSE f : Is(f)
<1>0. n \in Nat
  OBVIOUS
<1> HIDE DEF n
<1>1. \E f : Is(f)
  <2>1. PICK f : Keeps(f, s, S, n)
    BY <1>0, SomethingKeeps
  <2> QED BY <2>1 DEF Keeps, Keeping
<1>2. Is(kept)
  BY <1>1
<1>3. Only(s, S) = kept[n]
  BY DEF Only, n
<1>4. Keeps(kept, s, S, n)
  BY <1>2 DEF Keeps, Keeping
<1> HIDE DEF kept
<1> QED BY <1>3, <1>4 DEF n

(* Those of a sequence that are in a set are that, and nothing else. *)
KeptWell(f, s, S, V, i) ==
    /\ f[i] \in Seq(V)
    /\ \A e : (\E j \in 1 .. Len(f[i]) : f[i][j] = e) <=> (e \in S /\ \E j \in 1 .. i : s[j] = e)

LEMMA OnlyThose ==
    ASSUME NEW V, NEW s \in Seq(V), NEW S
    PROVE  Only(s, S) \in Seq(V) /\ Range(Only(s, S)) = Range(s) \cap S
<1> DEFINE n == Len(s)
           K(f) == {i \in 0 .. n : ~KeptWell(f, s, S, V, i)}
<1>1. PICK f : Keeps(f, s, S, n) /\ Only(s, S) = f[n]
  BY KeptBy
<1>2. n \in Nat /\ (\A i \in 1 .. n : s[i] \in V) /\ DOMAIN s = 1 .. n
  OBVIOUS
<1>3. \A i \in 0 .. n : f[i] = IF i = 0 THEN <<>> ELSE Keeping(S, f[i - 1], s[i])
  BY <1>1 DEF Keeps
<1> HIDE DEF n
<1>4. KeptWell(f, s, S, V, 0)
  <2>1. f[0] = <<>>
    BY <1>2, <1>3
  <2> QED BY <2>1 DEF KeptWell
<1>5. ASSUME NEW i \in 1 .. n, KeptWell(f, s, S, V, i - 1)
      PROVE  KeptWell(f, s, S, V, i)
  <2> DEFINE old == f[i - 1]
  <2>1. f[i] = Keeping(S, old, s[i]) /\ s[i] \in V /\ i \in Nat \ {0}
    BY <1>2, <1>3
  <2>2. /\ old \in Seq(V)
        /\ \A e : (\E j \in 1 .. Len(old) : old[j] = e)
                  <=> (e \in S /\ \E j \in 1 .. i - 1 : s[j] = e)
    BY <1>5 DEF KeptWell
  <2>3. \A e : (\E j \in 1 .. i : s[j] = e) <=> (e = s[i] \/ \E j \in 1 .. i - 1 : s[j] = e)
    BY <2>1
  <2> HIDE DEF old
  <2>4. CASE s[i] \in S
    <3>1. f[i] = Append(old, s[i])
      BY <2>1, <2>4 DEF Keeping
    <3>2. /\ f[i] \in Seq(V) /\ Len(f[i]) = Len(old) + 1 /\ Len(old) \in Nat
          /\ f[i][Len(old) + 1] = s[i]
          /\ \A j \in 1 .. Len(old) : f[i][j] = old[j]
      BY <2>1, <2>2, <3>1
    <3>3. \A e : (\E j \in 1 .. Len(f[i]) : f[i][j] = e)
                 <=> (e = s[i] \/ \E j \in 1 .. Len(old) : old[j] = e)
      BY <3>2
    <3> QED BY <2>2, <2>3, <2>4, <3>2, <3>3 DEF KeptWell
  <2>5. CASE s[i] \notin S
    <3>1. f[i] = old
      BY <2>1, <2>5 DEF Keeping
    <3> QED BY <2>2, <2>3, <2>5, <3>1 DEF KeptWell
  <2> QED BY <2>4, <2>5
<1>6. K(f) = {}
  <2> SUFFICES ASSUME K(f) # {} PROVE FALSE
    OBVIOUS
  <2>1. PICK k \in K(f) : \A j \in K(f) : k <= j
    <3>1. K(f) \in SUBSET Nat
      BY <1>2
    <3> HIDE DEF K
    <3> QED BY <3>1, LeastOfNumbers
  <2>2. k \in 0 .. n /\ ~KeptWell(f, s, S, V, k) /\ k # 0
    BY <1>4
  <2>3. k \in 1 .. n /\ k - 1 \in 0 .. n /\ ~(k <= k - 1)
    BY <1>2, <2>2
  <2>4. KeptWell(f, s, S, V, k - 1)
    BY <2>1, <2>3
  <2> QED BY <1>5, <2>2, <2>3, <2>4
<1>7. KeptWell(f, s, S, V, n)
  BY <1>2, <1>6
<1>8. \A e : e \in Range(f[n]) <=> \E j \in 1 .. Len(f[n]) : f[n][j] = e
  BY <1>7 DEF KeptWell, Range
<1>9. \A e : e \in Range(s) <=> \E j \in 1 .. n : s[j] = e
  BY <1>2 DEF Range
<1> QED BY <1>1, <1>7, <1>8, <1>9 DEF KeptWell

(* Only the empty sequence has nothing in it.                              *)
LEMMA NothingInIt ==
    ASSUME NEW V, NEW s \in Seq(V)
    PROVE  s = <<>> <=> Range(s) = {}
<1>1. DOMAIN s = 1 .. Len(s) /\ Len(s) \in Nat /\ (s = <<>> <=> Len(s) = 0)
  BY EmptySeq
<1>2. Range(s) = {} <=> DOMAIN s = {}
  BY DEF Range
<1>3. 1 .. Len(s) = {} <=> Len(s) = 0
  <2>1. Len(s) # 0 => 1 \in 1 .. Len(s)
    BY <1>1
  <2>2. Len(s) = 0 => 1 .. Len(s) = {}
    OBVIOUS
  <2> QED BY <2>1, <2>2
<1> QED BY <1>1, <1>2, <1>3

(* A sequence is one of the things that are in it.                         *)
LEMMA OfItsOwn ==
    ASSUME NEW V, NEW s \in Seq(V)
    PROVE  s \in Seq(Range(s))
<1>1. DOMAIN s = 1 .. Len(s) /\ Len(s) \in Nat /\ s = [i \in 1 .. Len(s) |-> s[i]]
  OBVIOUS
<1>2. \A i \in 1 .. Len(s) : s[i] \in Range(s)
  BY <1>1 DEF Range
<1>3. s \in [1 .. Len(s) -> Range(s)]
  BY <1>1, <1>2
<1> QED BY <1>1, <1>3, IsASeq

(* What is put behind a sequence is all there.                             *)
LEMMA BehindOthers ==
    ASSUME NEW V, NEW s \in Seq(V), NEW t \in Seq(V)
    PROVE  s \o t \in Seq(V) /\ Range(t) \subseteq Range(s \o t)
<1>1. /\ s \o t \in Seq(V) /\ Len(s) \in Nat /\ Len(t) \in Nat
      /\ Len(s \o t) = Len(s) + Len(t)
      /\ \A i \in 1 .. Len(t) : (s \o t)[Len(s) + i] = t[i]
  OBVIOUS
<1>2. DOMAIN t = 1 .. Len(t) /\ DOMAIN (s \o t) = 1 .. Len(s \o t)
  BY <1>1
<1>3. ASSUME NEW i \in 1 .. Len(t)
      PROVE  t[i] \in Range(s \o t)
  <2>1. Len(s) + i \in 1 .. Len(s \o t) /\ (s \o t)[Len(s) + i] = t[i]
    BY <1>1
  <2> QED BY <1>2, <2>1 DEF Range
<1> QED BY <1>1, <1>2, <1>3 DEF Range

(* Taking the first one off loses that one only.                           *)
LEMMA AllButTheFirst ==
    ASSUME NEW V, NEW s \in Seq(V), s # <<>>
    PROVE  Tail(s) \in Seq(V) /\ Range(s) \subseteq {Head(s)} \cup Range(Tail(s))
<1>1. /\ Tail(s) \in Seq(V) /\ Len(s) \in Nat /\ Len(s) # 0
      /\ Len(Tail(s)) = Len(s) - 1 /\ Head(s) = s[1]
      /\ \A i \in 1 .. Len(s) - 1 : Tail(s)[i] = s[i + 1]
  OBVIOUS
<1>2. DOMAIN Tail(s) = 1 .. Len(s) - 1 /\ DOMAIN s = 1 .. Len(s)
  BY <1>1
<1>3. ASSUME NEW i \in 1 .. Len(s), i # 1
      PROVE  s[i] \in Range(Tail(s))
  <2>1. i - 1 \in 1 .. Len(s) - 1 /\ (i - 1) + 1 = i
    BY <1>1, <1>3
  <2>2. Tail(s)[i - 1] = s[i]
    <3>1. \A j \in 1 .. Len(s) - 1 : Tail(s)[j] = s[j + 1]
      BY <1>1
    <3>2. Tail(s)[i - 1] = s[(i - 1) + 1]
      BY <2>1, <3>1
    <3> QED BY <2>1, <3>2
  <2> QED BY <1>2, <2>1, <2>2 DEF Range
<1> QED BY <1>1, <1>2, <1>3 DEF Range

Start == [applies |-> FALSE, config |-> SaysNothing]

Reads(f, host, s, n) ==
    f = [i \in 0 .. n |-> IF i = 0 THEN Start ELSE ReadLine(host, f[i - 1], s[i])]

LEMMA SomethingReads ==
    ASSUME NEW host, NEW s, NEW m \in Nat
    PROVE  \E f : Reads(f, host, s, m)
<1> DEFINE Can(n) == \E f : Reads(f, host, s, n)
           K == {n \in 0 .. m : ~Can(n)}
<1>1. Can(0)
  <2> DEFINE f == [i \in 0 .. 0 |-> Start]
  <2>1. f = [i \in 0 .. 0 |-> IF i = 0 THEN Start ELSE ReadLine(host, f[i - 1], s[i])]
    OBVIOUS
  <2> QED BY <2>1 DEF Reads
<1>2. ASSUME NEW n \in Nat, Can(n)
      PROVE  Can(n + 1)
  <2>1. PICK f : Reads(f, host, s, n)
    BY <1>2
  <2> DEFINE last == ReadLine(host, f[n], s[n + 1])
             g == [i \in 0 .. (n + 1) |-> IF i = n + 1 THEN last ELSE f[i]]
             h == [i \in 0 .. (n + 1) |->
                      IF i = 0 THEN Start ELSE ReadLine(host, g[i - 1], s[i])]
  <2>2. \A i \in 0 .. n : f[i] = IF i = 0 THEN Start ELSE ReadLine(host, f[i - 1], s[i])
    BY <2>1 DEF Reads
  <2>3. ASSUME NEW i \in 0 .. (n + 1)
        PROVE  g[i] = h[i]
    <3>1. CASE i = n + 1
      <4> HIDE DEF last
      <4>1. i # 0 /\ i - 1 = n /\ n \in 0 .. (n + 1) /\ n # n + 1
        BY <3>1
      <4>4. g[i] = last
        BY <3>1
      <4>2. g[n] = f[n]
        BY <4>1
      <4>0. i \in 0 .. (n + 1)
        OBVIOUS
      <4> HIDE DEF g
      <4>3. h[i] = ReadLine(host, g[n], s[n + 1])
        BY <3>1, <4>0, <4>1
      <4> QED BY <4>1, <4>2, <4>3, <4>4 DEF last
    <3>2. CASE i = 0
      BY <3>2, <2>2
    <3>3. CASE i # 0 /\ i # n + 1
      <4>1. i - 1 \in 0 .. (n + 1) /\ i - 1 # n + 1 /\ i \in 0 .. n
        BY <3>3
      <4>2. g[i] = f[i] /\ g[i - 1] = f[i - 1]
        BY <4>1, <3>3
      <4>3. h[i] = ReadLine(host, g[i - 1], s[i])
        BY <3>3
      <4> QED BY <4>1, <4>2, <4>3, <2>2, <3>3
    <3> QED BY <3>1, <3>2, <3>3
  <2>4. g = h
    <3>1. g = [i \in 0 .. (n + 1) |-> g[i]] /\ h = [i \in 0 .. (n + 1) |-> h[i]]
      OBVIOUS
    <3> HIDE DEF g, h
    <3> QED BY <2>3, <3>1
  <2>5. h = [i \in 0 .. (n + 1) |-> IF i = 0 THEN Start ELSE ReadLine(host, g[i - 1], s[i])]
    OBVIOUS
  <2> HIDE DEF g, h
  <2> QED BY <2>4, <2>5 DEF Reads
<1> HIDE DEF Can
<1>3. SUFFICES ASSUME K # {} PROVE FALSE
  BY DEF Can
<1>4. PICK k \in K : \A j \in K : k <= j
  <2>1. K \in SUBSET Nat
    OBVIOUS
  <2> QED BY <2>1, <1>3, LeastOfNumbers
<1>5. k # 0 /\ k \in Nat
  BY <1>4, <1>1
<1>6. k - 1 \in 0 .. m /\ k - 1 \in Nat /\ ~(k <= k - 1) /\ (k - 1) + 1 = k
  BY <1>4, <1>5
<1>7. Can(k - 1)
  BY <1>4, <1>6
<1>8. Can((k - 1) + 1)
  BY <1>7, <1>2, <1>6
<1> QED BY <1>4, <1>6, <1>8

(* parse is the last of such a function.                                   *)
LEMMA ParsedBy ==
    ASSUME NEW V, NEW s \in Seq(V), NEW host
    PROVE  \E f : Reads(f, host, s, Len(s)) /\ parse(s, host) = f[Len(s)].config
<1> DEFINE n == Len(s)
           Is(f) == f = [i \in 0 .. n |->
                            IF i = 0 THEN [applies |-> FALSE, config |-> SaysNothing]
                            ELSE ReadLine(host, f[i - 1], s[i])]
           read == CHOOSE f : Is(f)
<1>0. n \in Nat
  OBVIOUS
<1> HIDE DEF n
<1>1. \E f : Is(f)
  <2>1. PICK f : Reads(f, host, s, n)
    BY <1>0, SomethingReads
  <2> QED BY <2>1 DEF Reads, Start
<1>2. Is(read)
  BY <1>1
<1>3. parse(s, host) = read[n].config
  BY DEF parse, n
<1>4. Reads(read, host, s, n)
  BY <1>2 DEF Reads, Start
<1> HIDE DEF read
<1> QED BY <1>3, <1>4 DEF n

(* What one line does to which files are named: a line that begins a block *)
(* says whether what follows applies, and a file is named where it does.   *)
NamesAFile(line) == line.keyword = "identityfile" /\ ~IsBlank(line)

SoFar(so, V) ==
    /\ DOMAIN so = {"applies", "config"}
    /\ so.applies \in BOOLEAN
    /\ "identity_files" \in DOMAIN so.config
    /\ so.config.identity_files \in Seq(V)

LEMMA ReadingALine ==
    ASSUME NEW V, NEW host, NEW so, SoFar(so, V), NEW line, line.value \in V
    PROVE  /\ SoFar(ReadLine(host, so, line), V)
           /\ BeginsABlock(line) =>
                 ReadLine(host, so, line).applies = host_matches(line.value, host)
           /\ ~BeginsABlock(line) => ReadLine(host, so, line).applies = so.applies
           /\ ReadLine(host, so, line).config.identity_files =
                 IF NamesAFile(line) /\ so.applies
                 THEN Append(so.config.identity_files, line.value)
                 ELSE so.config.identity_files
<1> DEFINE next == ReadLine(host, so, line)
           files == so.config.identity_files
<1>1. CASE IsBlank(line)
  BY <1>1 DEF ReadLine, BeginsABlock, NamesAFile
<1>2. CASE ~IsBlank(line) /\ line.keyword = "host"
  <2>1. next = [so EXCEPT !.applies = host_matches(line.value, host)]
    BY <1>2 DEF ReadLine
  <2>2. host_matches(line.value, host) \in BOOLEAN
    BY DEF host_matches
  <2>3. /\ DOMAIN next = {"applies", "config"} /\ next.config = so.config
        /\ next.applies = host_matches(line.value, host)
    <3> HIDE DEF next
    <3> QED BY <2>1 DEF SoFar
  <2>4. ~NamesAFile(line) /\ BeginsABlock(line)
    BY <1>2 DEF NamesAFile, BeginsABlock
  <2> HIDE DEF next
  <2> QED BY <2>2, <2>3, <2>4 DEF SoFar, next
<1>3. CASE ~IsBlank(line) /\ line.keyword # "host" /\ ~so.applies
  BY <1>3 DEF ReadLine, BeginsABlock, NamesAFile
<1>4. CASE ~IsBlank(line) /\ so.applies /\ line.keyword = "identityfile"
  <2>1. next = [so EXCEPT !.config.identity_files = Append(@, line.value)]
    BY <1>4 DEF ReadLine
  <2>2. /\ DOMAIN next = {"applies", "config"} /\ next.applies = so.applies
        /\ DOMAIN next.config = DOMAIN so.config
        /\ next.config.identity_files = Append(files, line.value)
    <3> HIDE DEF next
    <3> QED BY <2>1 DEF SoFar
  <2>3. Append(files, line.value) \in Seq(V)
    BY DEF SoFar
  <2>4. NamesAFile(line) /\ ~BeginsABlock(line)
    BY <1>4 DEF NamesAFile, BeginsABlock
  <2> HIDE DEF next
  <2> QED BY <1>4, <2>2, <2>3, <2>4 DEF SoFar, next
<1>5. CASE /\ ~IsBlank(line) /\ so.applies
           /\ line.keyword \notin {"host", "identityfile"}
  <2>0. ~NamesAFile(line) /\ ~BeginsABlock(line)
    BY <1>5 DEF NamesAFile, BeginsABlock
  <2>1. CASE line.keyword \notin Singles \/ (line.keyword = "port" /\ line.value \notin Nat)
    <3>1. next = so
      BY <1>5, <2>1 DEF ReadLine
    <3> QED BY <2>0, <3>1
  <2>2. CASE /\ line.keyword \in Singles
             /\ ~(line.keyword = "port" /\ line.value \notin Nat)
    <3> DEFINE k == FieldOf[line.keyword]
               said == OrElse(so.config[k], line.value)
    <3>1. k # "identity_files"
      BY <2>2 DEF FieldOf, Singles
    <3>2. next = [so EXCEPT !.config[FieldOf[line.keyword]] = OrElse(@, line.value)]
      BY <1>5, <2>2 DEF ReadLine
    <3>3. next = [so EXCEPT !.config = [so.config EXCEPT ![k] = said]]
      BY <3>2
    <3> HIDE DEF next, k, said
    <3>4. /\ DOMAIN next = {"applies", "config"} /\ next.applies = so.applies
          /\ next.config = [so.config EXCEPT ![k] = said]
      BY <3>3 DEF SoFar
    <3>5. /\ "identity_files" \in DOMAIN next.config
          /\ next.config.identity_files = files
      BY <3>1, <3>4 DEF SoFar
    <3> QED BY <2>0, <3>4, <3>5 DEF SoFar, next
  <2> QED BY <2>1, <2>2
<1> QED BY <1>1, <1>2, <1>3, <1>4, <1>5

(* Which lines apply: those after a line that begins a block for this      *)
(* host, up to the next that begins one.                                   *)
Applies(s, i, host) ==
    \E j \in 1 .. i :
        /\ BeginsABlock(s[j]) /\ host_matches(s[j].value, host)
        /\ \A between \in j + 1 .. i : ~BeginsABlock(s[between])

Named(s, i, host) ==
    {s[j].value : j \in {k \in 1 .. i : NamesAFile(s[k]) /\ Applies(s, k - 1, host)}}

ReadWell(f, s, host, V, i) ==
    /\ SoFar(f[i], V)
    /\ f[i].applies <=> Applies(s, i, host)
    /\ \A e : (\E j \in 1 .. Len(f[i].config.identity_files) :
                  f[i].config.identity_files[j] = e)
              <=> e \in Named(s, i, host)

(* What one more line does to which lines apply.                           *)
LEMMA AppliesOn ==
    ASSUME NEW s, NEW host, NEW i \in Nat \ {0}
    PROVE  Applies(s, i, host) <=>
               IF BeginsABlock(s[i]) THEN host_matches(s[i].value, host)
               ELSE Applies(s, i - 1, host)
<1>1. CASE BeginsABlock(s[i])
  <2>1. ASSUME Applies(s, i, host)
        PROVE  host_matches(s[i].value, host)
    <3>1. PICK j \in 1 .. i :
             /\ BeginsABlock(s[j]) /\ host_matches(s[j].value, host)
             /\ \A between \in j + 1 .. i : ~BeginsABlock(s[between])
      BY <2>1 DEF Applies
    <3>2. j = i
      BY <1>1, <3>1
    <3> QED BY <3>1, <3>2
  <2>2. ASSUME host_matches(s[i].value, host)
        PROVE  Applies(s, i, host)
    <3>1. i \in 1 .. i /\ i + 1 .. i = {}
      OBVIOUS
    <3> QED BY <1>1, <2>2, <3>1 DEF Applies
  <2> QED BY <1>1, <2>1, <2>2
<1>2. CASE ~BeginsABlock(s[i])
  <2>1. ASSUME Applies(s, i, host)
        PROVE  Applies(s, i - 1, host)
    <3>1. PICK j \in 1 .. i :
             /\ BeginsABlock(s[j]) /\ host_matches(s[j].value, host)
             /\ \A between \in j + 1 .. i : ~BeginsABlock(s[between])
      BY <2>1 DEF Applies
    <3>2. j \in 1 .. i - 1 /\ \A between \in j + 1 .. i - 1 : between \in j + 1 .. i
      BY <1>2, <3>1
    <3> QED BY <3>1, <3>2 DEF Applies
  <2>2. ASSUME Applies(s, i - 1, host)
        PROVE  Applies(s, i, host)
    <3>1. PICK j \in 1 .. i - 1 :
             /\ BeginsABlock(s[j]) /\ host_matches(s[j].value, host)
             /\ \A between \in j + 1 .. i - 1 : ~BeginsABlock(s[between])
      BY <2>2 DEF Applies
    <3>2. j \in 1 .. i /\ \A between \in j + 1 .. i : between = i \/ between \in j + 1 .. i - 1
      OBVIOUS
    <3> QED BY <1>2, <3>1, <3>2 DEF Applies
  <2> QED BY <1>2, <2>1, <2>2
<1> QED BY <1>1, <1>2

(* And to which files are named.                                           *)
LEMMA NamedOn ==
    ASSUME NEW s, NEW host, NEW i \in Nat \ {0}
    PROVE  Named(s, i, host) =
               IF NamesAFile(s[i]) /\ Applies(s, i - 1, host)
               THEN Named(s, i - 1, host) \cup {s[i].value} ELSE Named(s, i - 1, host)
<1>1. \A k : k \in 1 .. i <=> (k = i \/ k \in 1 .. i - 1)
  OBVIOUS
<1> QED BY <1>1 DEF Named

(* The files that parse returns are those named in a block for the host.   *)
LEMMA ParsedWell ==
    ASSUME NEW s, NEW host, s \in Seq(Range(s))
    PROVE  \E V : /\ parse(s, host).identity_files \in Seq(V)
                  /\ Range(parse(s, host).identity_files) = Named(s, Len(s), host)
<1> DEFINE n == Len(s)
           V == {s[i].value : i \in 1 .. n}
           K(f) == {i \in 0 .. n : ~ReadWell(f, s, host, V, i)}
<1>1. PICK f : Reads(f, host, s, n) /\ parse(s, host) = f[n].config
  BY ParsedBy
<1>2. n \in Nat /\ (\A i \in 1 .. n : s[i].value \in V)
  OBVIOUS
<1>3. \A i \in 0 .. n : f[i] = IF i = 0 THEN Start ELSE ReadLine(host, f[i - 1], s[i])
  BY <1>1 DEF Reads
<1> HIDE DEF n, V
<1>4. ReadWell(f, s, host, V, 0)
  <2>1. f[0] = Start
    BY <1>2, <1>3
  <2>2. /\ DOMAIN f[0] = {"applies", "config"} /\ f[0].applies = FALSE
        /\ "identity_files" \in DOMAIN f[0].config /\ f[0].config.identity_files = <<>>
    BY <2>1 DEF Start, SaysNothing
  <2>3. ~Applies(s, 0, host) /\ Named(s, 0, host) = {}
    BY DEF Applies, Named
  <2>4. <<>> \in Seq(V) /\ Len(<<>>) = 0
    OBVIOUS
  <2>5. SoFar(f[0], V)
    BY <2>2, <2>4 DEF SoFar
  <2>6. \A e : ~\E j \in 1 .. Len(f[0].config.identity_files) :
                  f[0].config.identity_files[j] = e
    BY <2>2
  <2> QED BY <2>2, <2>3, <2>5, <2>6 DEF ReadWell
<1>5. ASSUME NEW i \in 1 .. n, ReadWell(f, s, host, V, i - 1)
      PROVE  ReadWell(f, s, host, V, i)
  <2> DEFINE so == f[i - 1]
             next == f[i]
             old == so.config.identity_files
             new == next.config.identity_files
             names == NamesAFile(s[i]) /\ so.applies
  <2>1. next = ReadLine(host, so, s[i]) /\ s[i].value \in V /\ i \in Nat \ {0}
    BY <1>2, <1>3
  <2>2. /\ SoFar(so, V) /\ (so.applies <=> Applies(s, i - 1, host))
        /\ \A e : (\E j \in 1 .. Len(old) : old[j] = e) <=> e \in Named(s, i - 1, host)
    BY <1>5 DEF ReadWell
  <2> HIDE DEF so, next
  <2>3. /\ SoFar(next, V)
        /\ BeginsABlock(s[i]) => next.applies = host_matches(s[i].value, host)
        /\ ~BeginsABlock(s[i]) => next.applies = so.applies
        /\ new = IF names THEN Append(old, s[i].value) ELSE old
    BY <2>1, <2>2, ReadingALine
  <2>4. next.applies <=> Applies(s, i, host)
    BY <2>1, <2>2, <2>3, AppliesOn
  <2>5. Named(s, i, host) = IF names THEN Named(s, i - 1, host) \cup {s[i].value}
                            ELSE Named(s, i - 1, host)
    BY <2>1, <2>2, NamedOn
  <2>6. old \in Seq(V)
    BY <2>2 DEF SoFar
  <2> HIDE DEF old, new, names
  <2>7. \A e : (\E j \in 1 .. Len(new) : new[j] = e) <=> e \in Named(s, i, host)
    <3>1. CASE names
      <4>1. /\ Len(new) = Len(old) + 1 /\ Len(old) \in Nat /\ new[Len(old) + 1] = s[i].value
            /\ \A j \in 1 .. Len(old) : new[j] = old[j]
        BY <2>1, <2>3, <2>6, <3>1
      <4>2. \A e : (\E j \in 1 .. Len(new) : new[j] = e)
                   <=> (e = s[i].value \/ \E j \in 1 .. Len(old) : old[j] = e)
        BY <4>1
      <4> QED BY <2>2, <2>5, <3>1, <4>2 DEF old
    <3>2. CASE ~names
      BY <2>2, <2>3, <2>5, <3>2 DEF old
    <3> QED BY <3>1, <3>2
  <2> QED BY <2>3, <2>4, <2>7 DEF ReadWell, next, new
<1>6. K(f) = {}
  <2> SUFFICES ASSUME K(f) # {} PROVE FALSE
    OBVIOUS
  <2>1. PICK k \in K(f) : \A j \in K(f) : k <= j
    <3>1. K(f) \in SUBSET Nat
      BY <1>2
    <3> HIDE DEF K
    <3> QED BY <3>1, LeastOfNumbers
  <2>2. k \in 0 .. n /\ ~ReadWell(f, s, host, V, k) /\ k # 0
    BY <1>4
  <2>3. k \in 1 .. n /\ k - 1 \in 0 .. n /\ ~(k <= k - 1)
    BY <1>2, <2>2
  <2>4. ReadWell(f, s, host, V, k - 1)
    BY <2>1, <2>3
  <2> QED BY <1>5, <2>2, <2>3, <2>4
<1>7. ReadWell(f, s, host, V, n)
  BY <1>2, <1>6
<1> DEFINE files == f[n].config.identity_files
<1>8. files \in Seq(V) /\ (\A e : (\E j \in 1 .. Len(files) : files[j] = e) <=> e \in Named(s, n, host))
  BY <1>7 DEF ReadWell, SoFar
<1>9. parse(s, host).identity_files = files
  BY <1>1
<1> HIDE DEF files
<1>10. \A e : e \in Range(files) <=> \E j \in 1 .. Len(files) : files[j] = e
  BY <1>8 DEF Range
<1>11. Range(files) = Named(s, n, host)
  BY <1>8, <1>10
<1> QED BY <1>8, <1>9, <1>11 DEF n

(* The key files that are due at a destination. *)
Due(d) ==
    LET named == FilesNamed(At[d].host)
        files == IF named = {} THEN Range(UsualFiles) ELSE named
    IN  (files \cap FilesThere) \ Encrypted

(* The files that are offered are those that are due.                      *)
LEMMA FilesAreDue ==
    ASSUME NEW d \in Destinations
    PROVE  /\ FromFiles(d) \in Seq(Range(FromFiles(d)))
           /\ Range(FromFiles(d)) = Due(d)
<1> DEFINE host == At[d].host
           ssh == parse(ConfigLines, host)
           all == IF ssh.identity_files # <<>> THEN ssh.identity_files ELSE UsualFiles
           there == Only(all, FilesThere)
           usable == FilesThere \ Encrypted
<1>1. ConfigLines \in Seq(Range(ConfigLines)) /\ UsualFiles \in Seq(Range(UsualFiles))
  BY DiskAssumption
<1>2. PICK V : /\ ssh.identity_files \in Seq(V)
               /\ Range(ssh.identity_files) = Named(ConfigLines, Len(ConfigLines), host)
  BY <1>1, ParsedWell
<1>3. Named(ConfigLines, Len(ConfigLines), host) = FilesNamed(host)
  <2>1. DOMAIN ConfigLines = 1 .. Len(ConfigLines)
    BY <1>1
  <2>2. ASSUME NEW j \in 1 .. Len(ConfigLines), NamesAFile(ConfigLines[j])
        PROVE  Applies(ConfigLines, j - 1, host) <=> AppliesInSsh(j, host) /\ ~PassedOver(j)
    <3>1. ~BeginsABlock(ConfigLines[j])
      BY <2>2 DEF NamesAFile, BeginsABlock
    <3>2. ASSUME NEW k \in 1 .. j - 1
          PROVE  (\A between \in k + 1 .. j - 1 : ~BeginsABlock(ConfigLines[between]))
                 <=> (\A between \in k + 1 .. j : ~BeginsABlock(ConfigLines[between]))
      <4>1. \A between : between \in k + 1 .. j <=> (between = j \/ between \in k + 1 .. j - 1)
        BY <1>1
      <4> QED BY <3>1, <4>1
    <3>3. ASSUME Applies(ConfigLines, j - 1, host)
          PROVE  AppliesInSsh(j, host) /\ ~PassedOver(j)
      <4>1. PICK k \in 1 .. j - 1 :
               /\ BeginsABlock(ConfigLines[k]) /\ host_matches(ConfigLines[k].value, host)
               /\ \A between \in k + 1 .. j - 1 : ~BeginsABlock(ConfigLines[between])
        BY <3>3 DEF Applies
      <4>2. ASSUME NEW l \in 1 .. j - 1, BeginsABlock(ConfigLines[l]),
                   \A b \in l + 1 .. j : ~BeginsABlock(ConfigLines[b])
            PROVE  l = k
        <5>1. l \in k + 1 .. j - 1 \/ k \in l + 1 .. j \/ l = k
          BY <1>1
        <5> QED BY <4>1, <4>2, <5>1
      <4> QED BY <4>1, <4>2 DEF AppliesInSsh, PassedOver
    <3>4. ASSUME AppliesInSsh(j, host), ~PassedOver(j)
          PROVE  Applies(ConfigLines, j - 1, host)
      <4> DEFINE K == {gap \in 1 .. j - 1 : BeginsABlock(ConfigLines[j - gap])}
      <4>1. PICK l \in 1 .. j - 1 : BeginsABlock(ConfigLines[l])
        BY <3>4 DEF PassedOver
      <4>2. j - l \in 1 .. j - 1 /\ j - (j - l) = l
        BY <1>1
      <4>3. j - l \in K
        BY <4>1, <4>2
      <4>4. K \in SUBSET Nat
        BY <1>1
      <4> HIDE DEF K
      <4>5. PICK gap \in K : \A e \in K : gap <= e
        BY <4>3, <4>4, LeastOfNumbers
      <4>6. gap \in 1 .. j - 1 /\ BeginsABlock(ConfigLines[j - gap])
        BY <4>5 DEF K
      <4>7. ASSUME NEW b \in j - gap + 1 .. j - 1
            PROVE  ~BeginsABlock(ConfigLines[b])
        <5>1. j - b \in 1 .. j - 1 /\ j - (j - b) = b /\ ~(gap <= j - b)
          BY <1>1, <4>6
        <5>2. j - b \notin K
          BY <4>5, <5>1
        <5> QED BY <5>1, <5>2 DEF K
      <4>8. j - gap \in 1 .. j - 1
        BY <1>1, <4>6
      <4>9. \A b \in j - gap + 1 .. j : ~BeginsABlock(ConfigLines[b])
        BY <3>2, <4>7, <4>8
      <4>10. host_matches(ConfigLines[j - gap].value, host)
        BY <3>4, <4>6, <4>8, <4>9 DEF AppliesInSsh
      <4> QED BY <4>6, <4>7, <4>8, <4>10 DEF Applies
    <3> QED BY <3>3, <3>4
  <2> QED BY <2>1, <2>2 DEF Named, FilesNamed, NamesAFile
<1>4. FromFiles(d) = Only(there, usable)
  BY DEF FromFiles, Config, identities
<1> HIDE DEF ssh
<1>5. all \in Seq(V \cup Range(UsualFiles))
  BY <1>1, <1>2
<1>6. Range(all) = IF FilesNamed(host) = {} THEN Range(UsualFiles) ELSE FilesNamed(host)
  <2>1. ssh.identity_files = <<>> <=> Range(ssh.identity_files) = {}
    BY <1>2, NothingInIt
  <2> QED BY <1>2, <1>3, <2>1
<1> HIDE DEF all
<1>7. there \in Seq(V \cup Range(UsualFiles)) /\ Range(there) = Range(all) \cap FilesThere
  BY <1>5, OnlyThose
<1> HIDE DEF there
<1>8. /\ FromFiles(d) \in Seq(V \cup Range(UsualFiles))
      /\ Range(FromFiles(d)) = Range(there) \cap usable
  BY <1>4, <1>7, OnlyThose
<1>9. Range(FromFiles(d)) = Due(d)
  BY <1>6, <1>7, <1>8 DEF Due
<1> QED BY <1>8, <1>9 DEF Range

(* What the agent holds comes first, and the files are all behind it. *)
LEMMA EverythingIsOffered ==
    ASSUME NEW d \in Destinations, NEW answering \in BOOLEAN,
           NEW keys, keys = (IF answering THEN FromTheAgent(d) ELSE <<>>) \o FromFiles(d)
    PROVE  keys \in Seq(Range(keys)) /\ Due(d) \subseteq Range(keys)
<1> DEFINE held == IF answering THEN FromTheAgent(d) ELSE <<>>
           files == FromFiles(d)
<1>1. FromTheAgent(d) \in Seq(Range(FromTheAgent(d)))
  <2>1. agent(Config[d], Session) \in DOMAIN AgentKeys \cup {None}
    BY AgentAssumption
  <2>2. FromTheAgent(d) = <<>> \/ \E s \in DOMAIN AgentKeys : FromTheAgent(d) = AgentKeys[s]
    BY <2>1 DEF FromTheAgent
  <2>3. CASE FromTheAgent(d) = <<>>
    BY <2>3
  <2>4. ASSUME NEW s \in DOMAIN AgentKeys, FromTheAgent(d) = AgentKeys[s]
        PROVE  FromTheAgent(d) \in Seq(Range(FromTheAgent(d)))
    <3>1. AgentKeys[s] \in Seq(Range(AgentKeys[s]))
      BY DiskAssumption
    <3> QED BY <2>4, <3>1
  <2> QED BY <2>2, <2>3, <2>4
<1>2. files \in Seq(Range(files)) /\ Range(files) = Due(d)
  BY FilesAreDue
<1>3. held \in Seq(Range(FromTheAgent(d)))
  BY <1>1
<1> DEFINE S == Range(FromTheAgent(d)) \cup Range(files)
<1> HIDE DEF held, files, S
<1>4. held \in Seq(S) /\ files \in Seq(S) /\ keys = held \o files
  BY <1>2, <1>3 DEF held, files, S
<1>5. keys \in Seq(S) /\ Range(files) \subseteq Range(keys)
  BY <1>4, BehindOthers
<1>6. keys \in Seq(Range(keys))
  BY <1>5, OfItsOwn
<1> QED BY <1>2, <1>5, <1>6

(* Whoever is offering keys has tried or has still to offer all that are   *)
(* due where it connects.                                                  *)
AllAreDue(a) ==
    /\ dest[a] \in Destinations
    /\ offers[a] \in Seq(Range(offers[a]))
    /\ Due(dest[a]) \subseteq tried[a] \cup Range(offers[a])

OfferTypes ==
    /\ DOMAIN phase = Attempts /\ DOMAIN dest = Attempts
    /\ DOMAIN offers = Attempts /\ DOMAIN tried = Attempts

OfferInv ==
    /\ OfferTypes
    /\ \A a \in Attempts : phase[a] \notin {"idle", "failed"} => dest[a] \in Destinations
    /\ \A a \in Attempts : phase[a] = "offering" => AllAreDue(a)

LEMMA OfferInit == Init => OfferInv
  BY DEF Init, OfferInv, OfferTypes

(* An attempt that is not offering anything afterwards, or no other than   *)
(* before, and goes on to where it went.                                   *)
LEMMA NothingOffered ==
    ASSUME OfferInv, OfferTypes', NEW A \in SUBSET Attempts,
           \A a \in Attempts \ A : UNCHANGED <<phase[a], dest[a], offers[a], tried[a]>>,
           \A a \in A : /\ phase'[a] \notin {"idle", "failed"} => dest'[a] \in Destinations
                        /\ phase'[a] # "offering"
    PROVE  OfferInv'
<1>1. \A a \in Attempts : phase'[a] \notin {"idle", "failed"} => dest'[a] \in Destinations
  BY DEF OfferInv
<1>2. ASSUME NEW a \in Attempts, phase'[a] = "offering"
      PROVE  AllAreDue(a)'
  <2>1. a \notin A
    BY <1>2
  <2>2. phase'[a] = phase[a] /\ dest'[a] = dest[a] /\ offers'[a] = offers[a] /\ tried'[a] = tried[a]
    BY <2>1
  <2>3. AllAreDue(a)
    BY <1>2, <2>2 DEF OfferInv
  <2> QED BY <2>2, <2>3 DEF AllAreDue
<1> QED BY <1>1, <1>2 DEF OfferInv

LEMMA OneOffersNothing ==
    ASSUME OfferInv, OfferTypes', NEW a \in Attempts,
           \A b \in Attempts \ {a} : UNCHANGED <<phase[b], dest[b], offers[b], tried[b]>>,
           phase'[a] \notin {"idle", "failed"} => dest'[a] \in Destinations,
           phase'[a] # "offering"
    PROVE  OfferInv'
<1> DEFINE A == {a}
<1>1. /\ A \in SUBSET Attempts
      /\ \A b \in A : /\ phase'[b] \notin {"idle", "failed"} => dest'[b] \in Destinations
                      /\ phase'[b] # "offering"
  OBVIOUS
<1> HIDE DEF A
<1>2. \A b \in Attempts \ A : UNCHANGED <<phase[b], dest[b], offers[b], tried[b]>>
  BY DEF A
<1> QED BY <1>1, <1>2, NothingOffered

(* Signing in like ssh begins with everything to be offered.               *)
LEMMA SignInOffers ==
    ASSUME OfferInv, NEW a \in Attempts, SignIn(a)
    PROVE  OfferInv'
<1>1. /\ dest' = dest /\ phase[a] = "signing in" /\ dest[a] \in Destinations
  BY DEF SignIn, OfferInv
<1>2. tried' = tried
  BY DEF SignIn
<1>3. CASE phase' = [phase EXCEPT ![a] = "done"] \/ phase' = [phase EXCEPT ![a] = "asking"]
  <2>1. UNCHANGED offers
    BY <1>3 DEF SignIn, Go, OfferInv, OfferTypes
  <2>2. /\ OfferTypes' /\ phase'[a] # "offering" /\ dest'[a] \in Destinations
        /\ \A b \in Attempts \ {a} : UNCHANGED <<phase[b], dest[b], offers[b], tried[b]>>
    BY <1>1, <1>2, <1>3, <2>1 DEF OfferInv, OfferTypes
  <2> QED BY <2>2, OneOffersNothing
<1>4. CASE /\ phase' = [phase EXCEPT ![a] = "offering"]
           /\ \E answering \in BOOLEAN :
                offers' = [offers EXCEPT ![a] =
                    (IF answering THEN FromTheAgent(dest[a]) ELSE <<>>) \o FromFiles(dest[a])]
  <2>1. PICK answering \in BOOLEAN :
            offers' = [offers EXCEPT ![a] =
                    (IF answering THEN FromTheAgent(dest[a]) ELSE <<>>) \o FromFiles(dest[a])]
    BY <1>4
  <2>2. /\ OfferTypes'
        /\ \A b \in Attempts \ {a} : UNCHANGED <<phase[b], dest[b], offers[b], tried[b]>>
    BY <1>1, <1>2, <1>4, <2>1 DEF OfferInv, OfferTypes
  <2>3. offers'[a] = (IF answering THEN FromTheAgent(dest[a]) ELSE <<>>) \o FromFiles(dest[a])
    BY <2>1 DEF OfferInv, OfferTypes
  <2>4. offers'[a] \in Seq(Range(offers'[a])) /\ Due(dest[a]) \subseteq Range(offers'[a])
    BY <1>1, <2>3, EverythingIsOffered
  <2>5. AllAreDue(a)'
    BY <1>1, <2>4 DEF AllAreDue
  <2>6. \A b \in Attempts \ {a} : AllAreDue(b) => AllAreDue(b)'
    BY <2>2 DEF AllAreDue
  <2> QED BY <1>1, <2>2, <2>5, <2>6 DEF OfferInv
<1> QED BY <1>3, <1>4 DEF SignIn, Go

(* What is offered has been tried.                                         *)
LEMMA OfferOffers ==
    ASSUME OfferInv, NEW a \in Attempts, Offer(a)
    PROVE  OfferInv'
<1> DEFINE keys == offers[a]
<1>1. /\ phase[a] = "offering" /\ keys # <<>> /\ dest' = dest
      /\ tried' = [tried EXCEPT ![a] = @ \cup {Head(keys)}]
      /\ offers' = [offers EXCEPT ![a] = Tail(keys)]
      /\ phase' \in {phase, [phase EXCEPT ![a] = "done"]}
  BY DEF Offer, Rest, Go
<1>2. AllAreDue(a)
  BY <1>1 DEF OfferInv
<1>3. /\ OfferTypes' /\ offers'[a] = Tail(keys) /\ tried'[a] = tried[a] \cup {Head(keys)}
      /\ \A b \in Attempts \ {a} : UNCHANGED <<phase[b], dest[b], offers[b], tried[b]>>
      /\ phase'[a] \in {"offering", "done"}
  BY <1>1 DEF OfferInv, OfferTypes
<1>4. /\ Tail(keys) \in Seq(Range(Tail(keys)))
      /\ Range(keys) \subseteq {Head(keys)} \cup Range(Tail(keys))
  <2>1. PICK V : keys \in Seq(V)
    BY <1>2 DEF AllAreDue
  <2> HIDE DEF keys
  <2>2. Tail(keys) \in Seq(V) /\ Range(keys) \subseteq {Head(keys)} \cup Range(Tail(keys))
    BY <1>1, <2>1, AllButTheFirst
  <2> QED BY <2>2, OfItsOwn
<1>5. AllAreDue(a)'
  <2>1. dest'[a] = dest[a] /\ dest[a] \in Destinations
        /\ Due(dest[a]) \subseteq tried[a] \cup Range(keys)
    BY <1>1, <1>2 DEF AllAreDue
  <2> HIDE DEF keys
  <2> QED BY <1>3, <1>4, <2>1 DEF AllAreDue
<1>6. \A b \in Attempts \ {a} : AllAreDue(b) => AllAreDue(b)'
  BY <1>3 DEF AllAreDue
<1>7. dest'[a] \in Destinations
  BY <1>1, <1>2 DEF AllAreDue
<1> QED BY <1>3, <1>5, <1>6, <1>7 DEF OfferInv

LEMMA OfferStep == ListInv /\ OfferInv /\ [Next]_vars => OfferInv'
<1> SUFFICES ASSUME ListInv, OfferInv, [Next]_vars
             PROVE  OfferInv'
  OBVIOUS
<1>0. OfferTypes
  BY DEF OfferInv
<1>1. ASSUME UNCHANGED <<phase, dest, offers, tried>>
      PROVE  OfferInv'
  <2>1. OfferTypes'
    BY <1>0, <1>1 DEF OfferTypes
  <2>2. \A a \in Attempts : AllAreDue(a) => AllAreDue(a)'
    BY <1>1 DEF AllAreDue
  <2> QED BY <1>1, <2>1, <2>2 DEF OfferInv
<1>2. ASSUME NEW p \in Processes, Keep(p)
      PROVE  OfferInv'
  <2>1. CASE Exit(p)
    <3> DEFINE A == {a \in Attempts : In[a] = p /\ Busy(a)}
    <3>1. UNCHANGED <<dest, offers, tried>>
          /\ phase' = [a \in Attempts |-> IF In[a] = p /\ Busy(a) THEN "failed" ELSE phase[a]]
      BY <2>1 DEF Exit
    <3>2. /\ OfferTypes'
          /\ \A a \in Attempts \ A : UNCHANGED <<phase[a], dest[a], offers[a], tried[a]>>
          /\ \A a \in A : phase'[a] = "failed"
      BY <1>0, <3>1 DEF OfferTypes
    <3> HIDE DEF A
    <3>3. A \in SUBSET Attempts
      BY DEF A
    <3> QED BY <3>2, <3>3, NothingOffered
  <2>2. CASE ~Exit(p)
    BY <1>1, <1>2, <2>2 DEF Keep, Launch, Add, Change, Forget, Saved, Edit, attempt
  <2> QED BY <2>1, <2>2
<1>3. ASSUME NEW a \in Attempts, NEW to, to # "offering",
             phase' = [phase EXCEPT ![a] = to],
             phase[a] \notin {"idle", "failed"},
             UNCHANGED <<dest, offers, tried>>
      PROVE  OfferInv'
  <2>1. /\ OfferTypes' /\ phase'[a] = to
        /\ \A b \in Attempts \ {a} : UNCHANGED <<phase[b], dest[b], offers[b], tried[b]>>
    BY <1>0, <1>3 DEF OfferTypes
  <2>2. phase'[a] \notin {"idle", "failed"} => dest'[a] \in Destinations
    BY <1>3, <2>1 DEF OfferInv
  <2> QED BY <1>3, <2>1, <2>2, OneOffersNothing
<1>4. ASSUME NEW a \in Attempts, Connect(a)
      PROVE  OfferInv'
  <2>1. CASE LookUp(a)
    <3> DEFINE d == Load[To[a]]
    <3>1. d \in Destinations \cup {None}
      <4>1. Load \in Lists /\ To[a] \in IdSet
        BY DiskAssumption DEF Load, NoList, Lists, ListInv, FileTypes
      <4> QED BY <4>1 DEF Lists
    <3>2. /\ dest' = [dest EXCEPT ![a] = d] /\ UNCHANGED <<offers, tried>>
          /\ phase' = [phase EXCEPT ![a] = "failed"]
             \/ (phase' = [phase EXCEPT ![a] = "locked"] /\ d # None)
      BY <2>1 DEF LookUp, Go
    <3> HIDE DEF d
    <3>3. /\ OfferTypes' /\ phase'[a] \in {"failed", "locked"} /\ dest'[a] = d
          /\ phase'[a] = "locked" => d # None
          /\ \A b \in Attempts \ {a} : UNCHANGED <<phase[b], dest[b], offers[b], tried[b]>>
      BY <1>0, <3>2 DEF OfferTypes
    <3> QED BY <3>1, <3>3, OneOffersNothing
  <2>2. CASE GetSecret(a) \/ Answer(a) \/ GiveUp(a) \/ Dial(a) \/ Accept(a)
    <3>1. /\ UNCHANGED <<dest, offers, tried>>
          /\ phase[a] \notin {"idle", "failed"}
      BY <2>2 DEF GetSecret, Answer, GiveUp, Dial, Accept, Store, BeginWriting, Go
    <3>2. \E to : to # "offering" /\ phase' = [phase EXCEPT ![a] = to]
      <4>1. CASE GetSecret(a)
        BY <4>1 DEF GetSecret, Go
      <4>2. CASE Answer(a)
        BY <4>2 DEF Answer, Store, BeginWriting, Go
      <4>3. CASE GiveUp(a) \/ Accept(a)
        BY <4>3 DEF GiveUp, Accept, Go
      <4>4. CASE Dial(a)
        <5>1. PICK key \in HostKeys :
                 Go(a, CASE Verdict(a, key) = "known" -> "signing in"
                         [] Verdict(a, key) = "unknown" -> "asking about a new key"
                         [] Verdict(a, key) = "changed" -> "asking about another key")
          BY <4>4 DEF Dial
        <5>2. Verdict(a, key) \in {"known", "unknown", "changed"}
          BY DEF Verdict, verdict
        <5> QED BY <5>1, <5>2 DEF Go
      <4> QED BY <2>2, <4>1, <4>2, <4>3, <4>4
    <3> QED BY <1>3, <3>1, <3>2
  <2>3. CASE SignIn(a)
    BY <2>3, SignInOffers
  <2>4. CASE Offer(a)
    BY <2>4, OfferOffers
  <2> QED BY <1>4, <2>1, <2>2, <2>3, <2>4 DEF Connect
<1>5. ASSUME NEW a \in Attempts, KeepSecrets(a)
      PROVE  OfferInv'
  <2>1. /\ UNCHANGED <<dest, offers, tried>>
        /\ \/ UNCHANGED phase
           \/ \E to : to # "offering" /\ phase' = [phase EXCEPT ![a] = to]
        /\ phase[a] \notin {"idle", "failed"}
    <3>1. CASE Unlock(a)
      BY <3>1 DEF Unlock, BeginWriting, Go
    <3>2. CASE AlreadyOpen(a) \/ Serialise(a) \/ Empty(a) \/ Write(a) \/ WriteFails(a)
      BY <3>2 DEF AlreadyOpen, Serialise, Empty, Write, WriteFails, Go, Writing
    <3> QED BY <1>5, <3>1, <3>2 DEF KeepSecrets
  <2> QED BY <1>1, <1>3, <2>1
<1>6. CASE UNCHANGED vars
  BY <1>1, <1>6 DEF vars, attempt
<1> QED BY <1>2, <1>4, <1>5, <1>6 DEF Next

(* Who is turned away after signing in like ssh has been tried with every  *)
(* key file that needs no passphrase, whatever the agent did, for every    *)
(* ~/.ssh/config there may be: those it names in a block for this host,    *)
(* and if it names none the usual ones (sftp.rs authenticate_like_ssh,     *)
(* ssh_config.rs parse).  Those it names before its first block are not    *)
(* among them: ssh would try them, and the code passes them over.          *)
THEOREM EveryKeyIsAlwaysTried == Spec => []EveryKeyIsTried
<1>1. OfferInv => EveryKeyIsTried
  <2> SUFFICES ASSUME OfferInv, NEW a \in Attempts, phase[a] = "offering", offers[a] = <<>>
               PROVE  Due(dest[a]) \subseteq tried[a]
    BY DEF EveryKeyIsTried, Due
  <2>1. Due(dest[a]) \subseteq tried[a] \cup Range(offers[a])
    BY DEF OfferInv, AllAreDue
  <2>2. Range(offers[a]) = {}
    BY DEF Range
  <2> QED BY <2>1, <2>2
<1>2. Init => ListInv /\ OfferInv
  BY ListInit, OfferInit
<1>3. ListInv /\ OfferInv /\ [Next]_vars => (ListInv /\ OfferInv)'
  BY ListStep, OfferStep
<1> QED BY <1>1, <1>2, <1>3, PTL DEF Spec
=============================================================================
