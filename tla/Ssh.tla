-------------------------------- MODULE Ssh ---------------------------------
(***************************************************************************)
(* The two files shared with ssh, and what is made of them: ~/.ssh/config  *)
(* (ssh_config.rs), known_hosts (known_hosts.rs), and where an SFTP        *)
(* connection goes and which keys it has to offer (sftp.rs).               *)
(*                                                                         *)
(* A host's name is a sequence of letters, a pattern one that may have "*" *)
(* and "?" among them.                                                     *)
(***************************************************************************)
EXTENDS Integers, Sequences, FiniteSets, SequencesExt

CONSTANTS
    None      \* what a file does not say

-----------------------------------------------------------------------------
(* The globbing of host patterns: from left to right, and back to the last *)
(* star, which swallows one letter more.  at and expected are the next of  *)
(* each, star where the last run began, 0 for none, resumed how far it has *)
(* come.                                                                   *)

matches(pattern, host) ==
    LET Places == [at : 1 .. Len(host) + 1, expected : 1 .. Len(pattern) + 1,
                   star : 0 .. Len(pattern), resumed : 1 .. Len(host) + 1]
        goesOn[s \in Places] ==
            LET here == IF s.expected <= Len(pattern) THEN pattern[s.expected] ELSE ""
            IN  IF s.at > Len(host)
                THEN \A i \in s.expected .. Len(pattern) : pattern[i] = "*"
                ELSE IF here = "?" \/ here = host[s.at]
                THEN goesOn[[s EXCEPT !.expected = @ + 1, !.at = @ + 1]]
                ELSE IF here = "*"
                THEN goesOn[[s EXCEPT !.star = s.expected, !.resumed = s.at, !.expected = @ + 1]]
                ELSE /\ s.star # 0
                     /\ goesOn[[s EXCEPT !.expected = s.star + 1,
                                         !.resumed = @ + 1, !.at = s.resumed + 1]]
    IN  goesOn[[at |-> 1, expected |-> 1, star |-> 0, resumed |-> 1]]

(* One negated pattern vetoes the line, and one that is not has to match.  *)
host_matches(patterns, host) ==
    /\ \E p \in Range(patterns) : ~p.negated /\ matches(p.of, host)
    /\ \A p \in Range(patterns) : p.negated => ~matches(p.of, host)

-----------------------------------------------------------------------------
(* ~/.ssh/config, line by line.  Every block that matches applies, and the *)
(* first value of a keyword wins, but for the identity files.              *)

SaysNothing == [hostname |-> None, port |-> None, user |-> None,
                identity_files |-> <<>>, identity_agent |-> None]

Singles == {"hostname", "user", "port", "identityagent"}
FieldOf == [k \in Singles |-> IF k = "identityagent" THEN "identity_agent" ELSE k]

IsBlank(line) == line.value = None
OrElse(said, value) == IF said = None THEN value ELSE said

ReadLine(host, so, line) ==
    IF IsBlank(line) THEN so
    ELSE IF line.keyword = "host" THEN [so EXCEPT !.applies = host_matches(line.value, host)]
    ELSE IF ~so.applies THEN so
    ELSE IF line.keyword = "identityfile"
    THEN [so EXCEPT !.config.identity_files = Append(@, line.value)]
    ELSE IF line.keyword \notin Singles \/ (line.keyword = "port" /\ line.value \notin Nat) THEN so
    ELSE [so EXCEPT !.config[FieldOf[line.keyword]] = OrElse(@, line.value)]

parse(lines, host) ==
    LET read[n \in 0 .. Len(lines)] ==
            IF n = 0 THEN [applies |-> FALSE, config |-> SaysNothing]
            ELSE ReadLine(host, read[n - 1], lines[n])
    IN  read[Len(lines)].config

(* Where ssh would go for this name. *)
Reached(to, ssh) ==
    [host |-> OrElse(ssh.hostname, to.host),
     port |-> IF to.port = 22 THEN OrElse(ssh.port, 22) ELSE to.port]

(* Those of a sequence that are in a set, in its order. *)
Only(s, S) ==
    LET kept[n \in 0 .. Len(s)] ==
            IF n = 0 THEN <<>>
            ELSE IF s[n] \in S THEN Append(kept[n - 1], s[n]) ELSE kept[n - 1]
    IN  kept[Len(s)]

(* The keys to offer: the files the config names, and the usual ones only  *)
(* where it names none.                                                    *)
identities(ssh, usual, there) ==
    Only(IF ssh.identity_files # <<>> THEN ssh.identity_files ELSE usual, there)

(* The agent the config names, or the session's. *)
agent(ssh, session) == OrElse(ssh.identity_agent, session)

-----------------------------------------------------------------------------
(* known_hosts.  A line has a marker or not, the hosts it is for, by name  *)
(* or by the digest of the name, and a key.                                *)

host_pattern(host, port) == IF port = 22 THEN <<host>> ELSE <<host, port>>

Digest(salt, name) == [hashed |-> TRUE, salt |-> salt, of |-> name]
Plain(name) == [hashed |-> FALSE, of |-> name]

match_pattern(pattern, name) ==
    IF pattern.hashed THEN pattern = Digest(pattern.salt, name) ELSE pattern = Plain(name)

parse_line(line) == ~line.marked /\ line.key # None
matches_host(line, name) == \E p \in line.hosts : match_pattern(p, name)

KeysOnFile(lines, name) ==
    {line.key : line \in {l \in Range(lines) : parse_line(l) /\ matches_host(l, name)}}

verdict(lines, name, key) ==
    IF KeysOnFile(lines, name) = {} THEN "unknown"
    ELSE IF key \in KeysOnFile(lines, name) THEN "known" ELSE "changed"

Line(name, key) == [marked |-> FALSE, hosts |-> {Plain(name)}, key |-> key]
remember(lines, name, key) == Append(lines, Line(name, key))
=============================================================================
