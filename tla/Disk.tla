-------------------------------- MODULE Disk --------------------------------
(***************************************************************************)
(* What is kept on this machine and what connecting makes of it: the list  *)
(* of connections (config.rs, connections.rs, store.rs), the encrypted     *)
(* file of secrets (secrets.rs), known_hosts (known_hosts.rs, trust.rs)    *)
(* and signing in over SSH (sftp.rs).                                      *)
(*                                                                         *)
(* Every launch is a process of its own, and they share the files.  A file *)
(* is emptied and then written, so a process that ends in between leaves   *)
(* it torn.  Within a process the editor runs on the main thread, attempts *)
(* at connecting side by side on the engine's.                             *)
(***************************************************************************)
EXTENDS Ssh

CONSTANTS
    Processes,
    Attempts,       \* attempts at connecting
    In,             \* the process of each of them
    To,             \* the connection it is at
    Corrections,    \* which of them may change the credentials instead of connecting
    Ids,            \* the ids of connections, in the order unused_id takes them
    Destinations,   \* where a connection may point
    Way,            \* how each of them signs in: "password", "key" or "agent"
    KeptAtFirst,    \* the connections saved to begin with
    At,             \* the host and port each of them names
    HostKeys,       \* keys a host may show
    Trusted,        \* the lines of known_hosts to begin with
    ConfigLines,    \* those of ~/.ssh/config
    Session,        \* the agent in SSH_AUTH_SOCK, if there is one
    AgentKeys,      \* what each agent holds, in order
    UsualFiles,     \* the key files ssh tries when nothing else is named, in order
    FilesThere,     \* the key files there are
    Encrypted,      \* the key files that want a passphrase
    MaxCommands,    \* how often somebody edits or connects, for TLC's sake
    MaxEnds         \* how often a process ends, for TLC's sake

IdSet == Range(Ids)
Words == {"right", "wrong"}    \* passphrases, of which people have one
Lists == [IdSet -> Destinations \cup {None}]

ASSUME DiskAssumption ==
    /\ In \in [Attempts -> Processes]
    /\ To \in [Attempts -> IdSet]
    /\ Corrections \subseteq SUBSET Attempts
    /\ IsInjective(Ids)
    /\ Way \in [Destinations -> {"password", "key", "agent"}]
    /\ KeptAtFirst \in Lists
    /\ Trusted \in Seq(Range(Trusted))
    /\ \A i \in DOMAIN Trusted : Trusted[i].key \in HostKeys \cup {None}
    /\ DOMAIN At = Destinations
    /\ MaxCommands \in Nat /\ MaxEnds \in Nat
    /\ ConfigLines \in Seq(Range(ConfigLines))
    /\ UsualFiles \in Seq(Range(UsualFiles))
    /\ \A s \in DOMAIN AgentKeys : AgentKeys[s] \in Seq(Range(AgentKeys[s]))
    /\ None \notin Destinations \cup HostKeys \cup Words \cup {"missing"}

VARIABLES
    up,        \* the processes that run
    list,      \* the connections each of them has in memory
    file,      \* connections.toml
    saving,    \* who is in the middle of writing it
    sealed,    \* the file of secrets
    vault,     \* what each process has open of it
    known,     \* the lines of known_hosts
    correcting, \* the attempts that change the credentials
    phase,     \* how far each attempt has got
    dest,      \* where it was told to connect
    secret,    \* what it signs in with
    snapshot,  \* what it is about to write to the file of secrets
    shown,     \* the key the host showed it
    offers,    \* the keys it has still to offer
    commands, ends,
    \* What happened, for the properties to speak of:
    wanted,    \* the connections people have saved and not forgotten
    given,     \* the secrets people have given
    chosen,    \* the passphrases that new files of secrets were made with
    troubled,  \* files somebody wrote beside or without knowing of another
    accepted,  \* the key a person accepted for each attempt
    agreed,    \* what somebody accepted as a new key, and for whom
    tried      \* the keys it has offered

connections == <<list, file, saving, wanted>>
secrets == <<sealed, vault, snapshot, given, chosen>>
attempt == <<phase, dest, secret, shown, offers, accepted, tried>>
bounds == <<commands, ends>>
vars == <<up, connections, secrets, attempt, known, correcting, bounds, troubled, agreed>>

NoSecrets == [i \in IdSet |-> None]
NoList == [i \in IdSet |-> None]
Torn == [key |-> None, holds |-> NoSecrets]
Missing == [key |-> "missing", holds |-> NoSecrets]
Locked == [key |-> "locked", holds |-> NoSecrets]
Opening == [key |-> "opening", holds |-> NoSecrets]

(* An attempt that is at the file of secrets. *)
Writing == {"serialising", "emptying", "writing", "emptying to open", "writing to open"}
Busy(a) == phase[a] \notin {"idle", "done", "failed"}
Go(a, to) == phase' = [phase EXCEPT ![a] = to]
IsOpen(p) == vault[p] \notin {Locked, Opening}

Init ==
    /\ up = {}
    /\ list = [p \in Processes |-> NoList]
    /\ file = KeptAtFirst
    /\ saving = {}
    /\ sealed = Missing
    /\ vault = [p \in Processes |-> Locked]
    /\ known = Trusted
    /\ correcting \in Corrections
    /\ phase = [a \in Attempts |-> "idle"]
    /\ dest = [a \in Attempts |-> None]
    /\ secret = [a \in Attempts |-> None]
    /\ snapshot = [a \in Attempts |-> NoSecrets]
    /\ shown = [a \in Attempts |-> None]
    /\ offers = [a \in Attempts |-> <<>>]
    /\ commands = 0 /\ ends = 0
    /\ wanted = KeptAtFirst
    /\ given = NoSecrets
    /\ chosen = {}
    /\ troubled = {}
    /\ accepted = [a \in Attempts |-> None]
    /\ agreed = {}
    /\ tried = [a \in Attempts |-> {}]

-----------------------------------------------------------------------------
(* Processes and the connections they show. *)

(* A file that will not parse shows as no connections, and a message. *)
Load == IF file = None THEN NoList ELSE file

Launch(p) ==
    /\ p \notin up
    /\ up' = up \cup {p}
    /\ list' = [list EXCEPT ![p] = Load]
    /\ UNCHANGED <<file, saving, wanted, secrets, attempt, known, correcting, bounds, troubled, agreed>>

(* Quit, killed or out of power: whatever it was doing stays undone.       *)
Exit(p) ==
    /\ p \in up /\ ends < MaxEnds
    /\ up' = up \ {p}
    /\ list' = [list EXCEPT ![p] = NoList]
    /\ saving' = saving \ {p}
    /\ vault' = [vault EXCEPT ![p] = Locked]
    /\ phase' = [a \in Attempts |-> IF In[a] = p /\ Busy(a) THEN "failed" ELSE phase[a]]
    /\ snapshot' = [a \in Attempts |-> IF In[a] = p THEN NoSecrets ELSE snapshot[a]]
    /\ secret' = [a \in Attempts |-> IF In[a] = p THEN None ELSE secret[a]]
    /\ troubled' = troubled \cup (IF p \in saving THEN {"connections"} ELSE {})
                     \cup (IF \E a \in Attempts : In[a] = p /\ phase[a] \in Writing
                           THEN {"secrets"} ELSE {})
    /\ IF p \in saving THEN file' \in {file, None} ELSE UNCHANGED file
    /\ ends' = ends + 1
    /\ UNCHANGED <<wanted, sealed, given, chosen, dest, shown, offers, accepted, tried,
                   known, correcting, commands, agreed>>

(* The id the name makes, or with the first number nothing else has. *)
UnusedId(kept) == Ids[CHOOSE n \in DOMAIN Ids :
                        kept[Ids[n]] = None /\ \A m \in 1..(n - 1) : kept[Ids[m]] # None]

PersistFirst(p, before, after) == list' = [list EXCEPT ![p] = before]    \* a mutant of Persist
Persist(p, before, after) == list' = [list EXCEPT ![p] = after]

Command == commands < MaxCommands /\ commands' = commands + 1

(* The file is emptied, which reads as an empty list, and then written.    *)
Edit(p, after) ==
    /\ p \in up /\ p \notin saving
    /\ Command
    /\ Persist(p, list[p], after)
    /\ file' = NoList
    /\ saving' = saving \cup {p}
    /\ wanted' = [i \in IdSet |-> IF after[i] # list[p][i] THEN after[i] ELSE wanted[i]]
    /\ troubled' = troubled \cup (IF file = list[p] /\ saving = {} THEN {} ELSE {"connections"})
    /\ UNCHANGED <<up, secrets, attempt, known, correcting, ends, agreed>>

Add(p) ==
    /\ \E i \in IdSet : list[p][i] = None
    /\ \E d \in Destinations : Edit(p, [list[p] EXCEPT ![UnusedId(list[p])] = d])
Change(p) == \E i \in IdSet, d \in Destinations :
                list[p][i] # None /\ Edit(p, [list[p] EXCEPT ![i] = d])
Forget(p) == \E i \in IdSet : list[p][i] # None /\ Edit(p, [list[p] EXCEPT ![i] = None])

(* Two that write at once may leave what is neither's. *)
Saved(p) ==
    /\ p \in saving
    /\ IF file = NoList THEN file' = list[p] ELSE file' \in {list[p], None}
    /\ saving' = saving \ {p}
    /\ UNCHANGED <<up, list, wanted, secrets, attempt, known, correcting, bounds, troubled, agreed>>

-----------------------------------------------------------------------------
(* The file of secrets. *)

Secret(d, right) == [of |-> d, right |-> right]
Holds(p, i) == vault[p].holds[i]

BeginWriting(a, next) ==
    /\ Go(a, next)
    /\ troubled' = IF \/ \E b \in Attempts \ {a} : phase[b] \in Writing
                      \/ \E q \in Processes \ {In[a]} : vault[q] # Locked
                   THEN troubled \cup {"secrets"} ELSE troubled

(* The passphrase opens what there is, or becomes the one of a new file;   *)
(* a torn file is no secrets file at all.  What was read is written again. *)
FitsTheTornToo(word) == sealed \in {Missing, Torn} \/ sealed.key = word    \* a mutant of Fits
Fits(word) == sealed = Missing \/ (sealed # Torn /\ sealed.key = word)

Unlock(a) ==
    /\ phase[a] = "locked" /\ vault[In[a]] = Locked
    /\ \E word \in Words :
          IF Fits(word)
          THEN /\ vault' = [vault EXCEPT ![In[a]] = Opening]
               /\ snapshot' = [snapshot EXCEPT ![a] =
                      IF sealed = Missing THEN NoSecrets ELSE sealed.holds]
               /\ secret' = [secret EXCEPT ![a] = word]
               /\ chosen' = IF sealed = Missing THEN chosen \cup {word} ELSE chosen
               /\ BeginWriting(a, "emptying to open")
          ELSE /\ IF sealed = Torn THEN Go(a, "failed") ELSE UNCHANGED phase
               /\ UNCHANGED <<vault, snapshot, secret, chosen, troubled>>
    /\ UNCHANGED <<up, connections, sealed, given, dest, shown, offers, accepted, tried,
                   known, correcting, bounds, agreed>>

AlreadyOpen(a) ==
    /\ phase[a] = "locked" /\ IsOpen(In[a])
    /\ Go(a, "looking up")
    /\ UNCHANGED <<up, connections, secrets, dest, secret, shown, offers, accepted, tried,
                   known, correcting, bounds, troubled, agreed>>

(* Serialised under a lock, and written after it: two that store secrets   *)
(* at once may write in another order than they were serialised in.        *)
Serialise(a) ==
    /\ phase[a] = "serialising"
    /\ snapshot' = [snapshot EXCEPT ![a] = vault[In[a]].holds]
    /\ Go(a, "emptying")
    /\ UNCHANGED <<up, connections, sealed, vault, given, chosen, dest, secret, shown, offers,
                   accepted, tried, known, correcting, bounds, troubled, agreed>>

Empty(a) ==
    /\ phase[a] \in {"emptying", "emptying to open"}
    /\ sealed' = Torn
    /\ Go(a, IF phase[a] = "emptying" THEN "writing" ELSE "writing to open")
    /\ UNCHANGED <<up, connections, vault, snapshot, given, chosen, dest, secret, shown, offers,
                   accepted, tried, known, correcting, bounds, troubled, agreed>>

Sealing(a) ==
    [key |-> IF phase[a] = "writing" THEN vault[In[a]].key ELSE secret[a],
     holds |-> snapshot[a]]

Write(a) ==
    /\ phase[a] \in {"writing", "writing to open"}
    /\ IF sealed = Torn THEN sealed' = Sealing(a) ELSE sealed' \in {Sealing(a), Torn}
    /\ snapshot' = [snapshot EXCEPT ![a] = NoSecrets]
    /\ IF phase[a] = "writing"
       THEN /\ Go(a, IF a \in correcting THEN "done" ELSE "dialing")
            /\ secret' = [secret EXCEPT ![a] = IF a \in correcting THEN None ELSE @]
            /\ UNCHANGED vault
       ELSE /\ vault' = [vault EXCEPT ![In[a]] = Sealing(a)]
            /\ secret' = [secret EXCEPT ![a] = None]
            /\ Go(a, "looking up")
    /\ UNCHANGED <<up, connections, given, chosen, dest, shown, offers, accepted, tried,
                   known, correcting, bounds, troubled, agreed>>

(* The disk is full, or not ours to write to. *)
WriteFails(a) ==
    /\ phase[a] \in Writing
    /\ Go(a, "failed")
    /\ troubled' = troubled \cup {"secrets"}
    /\ snapshot' = [snapshot EXCEPT ![a] = NoSecrets]
    /\ secret' = [secret EXCEPT ![a] = None]
    /\ vault' = IF vault[In[a]] = Opening /\ phase[a] \in {"emptying to open", "writing to open"}
                THEN [vault EXCEPT ![In[a]] = Locked] ELSE vault
    /\ UNCHANGED <<up, connections, sealed, given, chosen, dest, shown, offers, accepted, tried,
                   known, correcting, bounds, agreed>>

Store(a, s) ==
    /\ vault' = [vault EXCEPT ![In[a]].holds[To[a]] = s]
    /\ secret' = [secret EXCEPT ![a] = s]
    /\ given' = [given EXCEPT ![To[a]] = s]
    /\ BeginWriting(a, "serialising")

-----------------------------------------------------------------------------
(* Connecting: the connection is looked up on disk, its secret in the      *)
(* store, and asked for if there is none.  Changing the credentials asks   *)
(* whatever there is, and ends with storing them.                          *)

NeedsSecret(d) == Way[d] = "password"    \* secret_shape

Kept == UNCHANGED <<up, connections, correcting, bounds, agreed, known>>
KeptSecrets == UNCHANGED <<secrets, troubled>>

LookUp(a) ==
    /\ phase[a] = "idle" /\ In[a] \in up
    /\ Command
    /\ LET d == Load[To[a]]
       IN  /\ dest' = [dest EXCEPT ![a] = d]
           /\ Go(a, IF d = None \/ (a \in correcting /\ ~NeedsSecret(d))
                    THEN "failed" ELSE "locked")
    /\ KeptSecrets
    /\ UNCHANGED <<up, connections, correcting, ends, agreed, known>>
    /\ UNCHANGED <<secret, shown, offers, accepted, tried>>

GetSecret(a) ==
    /\ phase[a] = "looking up"
    /\ secret' = [secret EXCEPT ![a] = Holds(In[a], To[a])]
    /\ Go(a, IF \/ a \in correcting
                \/ NeedsSecret(dest[a]) /\ Holds(In[a], To[a]) = None
             THEN "asking" ELSE "dialing")
    /\ Kept /\ KeptSecrets
    /\ UNCHANGED <<dest, shown, offers, accepted, tried>>

(* What is typed is stored before it is tried. *)
Answer(a) ==
    /\ phase[a] = "asking"
    /\ \E right \in BOOLEAN : Store(a, Secret(dest[a], right))
    /\ Kept
    /\ UNCHANGED <<sealed, snapshot, chosen, dest, shown, offers, accepted, tried>>

(* Declined, or nobody there; refused, or out of reach. *)
GiveUp(a) ==
    /\ phase[a] \in {"locked", "asking", "dialing", "asking about a new key",
                     "asking about another key", "signing in", "offering"}
    /\ ~(phase[a] = "locked" /\ vault[In[a]] # Locked)
    /\ phase[a] = "offering" => offers[a] = <<>>
    /\ Go(a, "failed")
    /\ secret' = [secret EXCEPT ![a] = None]
    /\ shown' = [shown EXCEPT ![a] = None]
    /\ Kept /\ KeptSecrets
    /\ UNCHANGED <<dest, offers, accepted, tried>>

-----------------------------------------------------------------------------
(* The host ssh would go to by that name shows a key. *)

Config == [d \in Destinations |-> parse(ConfigLines, At[d].host)]
Host == [d \in Destinations |->
            LET to == Reached(At[d], Config[d]) IN host_pattern(to.host, to.port)]

AnyKnown(a, key) ==    \* a mutant of Verdict
    IF verdict(known, Host[dest[a]], key) = "unknown" THEN "unknown" ELSE "known"
Verdict(a, key) == verdict(known, Host[dest[a]], key)

Dial(a) ==
    /\ phase[a] = "dialing"
    /\ \E key \in HostKeys :
          /\ shown' = [shown EXCEPT ![a] = key]
          /\ Go(a, CASE Verdict(a, key) = "known" -> "signing in"
                     [] Verdict(a, key) = "unknown" -> "asking about a new key"
                     [] Verdict(a, key) = "changed" -> "asking about another key")
    /\ Kept /\ KeptSecrets
    /\ UNCHANGED <<dest, secret, offers, accepted, tried>>

(* A new key is remembered, if it can be; another one never is. *)
Accept(a) ==
    /\ phase[a] \in {"asking about a new key", "asking about another key"}
    /\ accepted' = [accepted EXCEPT ![a] = shown[a]]
    /\ IF phase[a] = "asking about a new key"
       THEN /\ known' \in {known, remember(known, Host[dest[a]], shown[a])}
            /\ agreed' = agreed \cup {<<Host[dest[a]], shown[a]>>}
       ELSE UNCHANGED <<known, agreed>>
    /\ Go(a, "signing in")
    /\ KeptSecrets
    /\ UNCHANGED <<up, connections, correcting, bounds, dest, secret, shown, offers, tried>>

-----------------------------------------------------------------------------
(* Signing in. *)

(* What the agent holds if there is one and it answers, and the files that *)
(* can be used without a passphrase.                                       *)
FromTheAgent(d) ==
    LET socket == agent(Config[d], Session) IN IF socket = None THEN <<>> ELSE AgentKeys[socket]
FromFiles(d) ==
    Only(identities(Config[d], UsualFiles, FilesThere), FilesThere \ Encrypted)

(* AgentKeys says of each agent that may be asked what it holds. *)
ASSUME AgentAssumption ==
    \A d \in Destinations : agent(Config[d], Session) \in DOMAIN AgentKeys \cup {None}

(* A key file says by itself whether it wants a passphrase; one that has   *)
(* been given is never asked for again.                                    *)
SignIn(a) ==
    /\ phase[a] = "signing in"
    /\ \/ /\ Way[dest[a]] = "password" /\ secret[a] # None
          /\ secret[a] = Secret(dest[a], TRUE)
          /\ Go(a, "done") /\ UNCHANGED offers
       \/ /\ Way[dest[a]] = "key" /\ (secret[a] = Secret(dest[a], TRUE) \/ dest[a] \notin Encrypted)
          /\ Go(a, "done") /\ UNCHANGED offers
       \/ /\ Way[dest[a]] = "key" /\ secret[a] = None /\ dest[a] \in Encrypted
          /\ Go(a, "asking") /\ UNCHANGED offers
       \/ /\ Way[dest[a]] = "agent"
          /\ \E answering \in BOOLEAN :
                offers' = [offers EXCEPT ![a] =
                    (IF answering THEN FromTheAgent(dest[a]) ELSE <<>>) \o FromFiles(dest[a])]
          /\ Go(a, "offering")
    /\ secret' = [secret EXCEPT ![a] = None]
    /\ Kept /\ KeptSecrets
    /\ UNCHANGED <<dest, shown, accepted, tried>>

(* Like ssh: every key the agent holds, then every file; the first that is *)
(* taken ends it.                                                          *)
RestWithoutTheFiles(keys) ==    \* a mutant of Rest
    SelectSeq(Tail(keys), LAMBDA k : k \notin FilesThere)
Rest(keys) == Tail(keys)

Offer(a) ==
    /\ phase[a] = "offering" /\ offers[a] # <<>>
    /\ tried' = [tried EXCEPT ![a] = @ \cup {Head(offers[a])}]
    /\ offers' = [offers EXCEPT ![a] = Rest(@)]
    /\ \E taken \in BOOLEAN : IF taken THEN Go(a, "done") ELSE UNCHANGED phase
    /\ Kept /\ KeptSecrets
    /\ UNCHANGED <<dest, secret, shown, accepted>>

-----------------------------------------------------------------------------
Connect(a) ==
    \/ LookUp(a) \/ GetSecret(a) \/ Answer(a) \/ GiveUp(a)
    \/ Dial(a) \/ Accept(a) \/ SignIn(a) \/ Offer(a)

KeepSecrets(a) ==
    Unlock(a) \/ AlreadyOpen(a) \/ Serialise(a) \/ Empty(a) \/ Write(a) \/ WriteFails(a)

Keep(p) == Launch(p) \/ Exit(p) \/ Add(p) \/ Change(p) \/ Forget(p) \/ Saved(p)

Next ==
    \/ \E p \in Processes : Keep(p)
    \/ \E a \in Attempts : Connect(a) \/ KeepSecrets(a)

Spec == Init /\ [][Next]_vars

-----------------------------------------------------------------------------
(* As long as no process wrote the list of connections knowing less of it  *)
(* than another, or ended in the middle of it, everything saved and not    *)
(* forgotten is in the file, over any number of launches (config.rs save,  *)
(* store.rs).                                                              *)
ListIsOnDisk == "connections" \notin troubled /\ saving = {} => file = wanted

IsWholeOnDisk ==
    /\ sealed.holds = given /\ sealed # Torn
    /\ \A p \in Processes : IsOpen(p) => vault[p].key = sealed.key /\ vault[p].holds = given

SealedAsChosen ==
    /\ sealed.key \in chosen \/ sealed \in {Missing, Torn}
    /\ \A p \in Processes : IsOpen(p) => vault[p].key \in chosen

(* As long as nobody wrote the file of secrets beside another, or was cut  *)
(* off while writing it, it holds every secret that was given, under the   *)
(* id it was given for, and whoever has it open has the same and will seal *)
(* the next one with the same passphrase.  And whatever happened to it,    *)
(* written side by side, cut off or torn, it is never sealed, and nobody   *)
(* has it open, with a passphrase that no new file was made with: what is  *)
(* torn is not taken for a file there is not yet (secrets.rs).             *)
SecretsSurvive ==
    /\ "secrets" \notin troubled /\ (\A a \in Attempts : phase[a] \notin Writing) => IsWholeOnDisk
    /\ SealedAsChosen

(* No attempt signs in to a host whose key was neither in known_hosts, for *)
(* that host and port, nor accepted by a person for this very attempt; and *)
(* what known_hosts has was there or was accepted as a new key of the host *)
(* it names (trust.rs verify).                                             *)
NoKeyUnasked ==
    /\ \A a \in Attempts :
          phase[a] \in {"signing in", "offering"} \/ (phase[a] = "done" /\ a \notin correcting) =>
              \/ accepted[a] = shown[a]
              \/ \E i \in DOMAIN known :
                    /\ ~known[i].marked /\ known[i].key = shown[a]
                    /\ \E p \in known[i].hosts : p.of = Host[dest[a]]
    /\ \A i \in DOMAIN known :
          \/ i <= Len(Trusted) /\ known[i] = Trusted[i]
          \/ \E new \in agreed : known[i] = Line(new[1], new[2])

BeginsABlock(line) == line.keyword = "host" /\ ~IsBlank(line)

(* As ssh reads it: where no Host comes before a line, it is for every host. *)
AppliesInSsh(i, host) ==
    \A j \in 1 .. i - 1 :
        BeginsABlock(ConfigLines[j]) /\ (\A b \in j + 1 .. i : ~BeginsABlock(ConfigLines[b]))
            => host_matches(ConfigLines[j].value, host)

(* As ssh_config.rs does: a line before the first Host is for none.        *)
PassedOver(i) == \A j \in 1 .. i - 1 : ~BeginsABlock(ConfigLines[j])

FilesNamed(host) ==
    {ConfigLines[i].value : i \in {j \in DOMAIN ConfigLines :
        /\ ConfigLines[j].keyword = "identityfile" /\ ~IsBlank(ConfigLines[j])
        /\ AppliesInSsh(j, host) /\ ~PassedOver(j)}}

(* Who is turned away after signing in like ssh has been tried with every  *)
(* key file that needs no passphrase, whatever the agent did: those that   *)
(* ~/.ssh/config names in a block for this host, and if it names none the  *)
(* usual ones (sftp.rs authenticate_like_ssh, ssh_config.rs).  ssh has     *)
(* every line before the first Host apply to every host; "the way ssh      *)
(* reads it" (ssh_config.rs:31) is not true of those, which the code       *)
(* passes over, and the property leaves them out by name.                  *)
EveryKeyIsTried ==
    \A a \in Attempts :
        phase[a] = "offering" /\ offers[a] = <<>> =>
            LET named == FilesNamed(At[dest[a]].host)
                files == IF named = {} THEN Range(UsualFiles) ELSE named
            IN  (files \cap FilesThere) \ Encrypted \subseteq tried[a]
=============================================================================
