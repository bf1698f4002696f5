------------------------------- MODULE MCDisk -------------------------------
(* Two attempts at a connection side by side in one launch, or in two of   *)
(* them one after the other, with another launch beside it that edits the  *)
(* list; what is saved to begin with signs in with a password or like ssh  *)
(* does.  ~/.ssh/config knows the host by a shorter name, and known_hosts  *)
(* knows it on one of its two ports.                                       *)
EXTENDS Disk, TLC

CONSTANTS app, again, a1, a2, web, shell, dp, dk, da, k1, k2,
          g1, g2, f1, f2, f3, s1, s2, salt

MCProcesses == {app, again}
MCAttempts == {a1, a2}
MCIn == a1 :> app @@ a2 :> app
MCTo == a1 :> web @@ a2 :> web
MCIds == <<web, shell>>
MCDestinations == {dp, dk, da}
MCWay == dp :> "password" @@ dk :> "key" @@ da :> "agent"
MCKept == web :> dp @@ shell :> None

Bag == <<"b", "a", "g">>
Short == <<"b">>
MCAt == dp :> [host |-> Bag, port |-> 22] @@ dk :> [host |-> Bag, port |-> 2222]
        @@ da :> [host |-> Short, port |-> 22]

MCTrusted ==
    <<[marked |-> TRUE, hosts |-> {Plain(<<Bag>>)}, key |-> k2],
      [marked |-> FALSE, hosts |-> {Plain(<<Short>>), Digest(salt, <<Bag, 2222>>)}, key |-> k1]>>

Says(keyword, value) == [keyword |-> keyword, value |-> value]
Pattern(of) == [negated |-> FALSE, of |-> of]
Not(of) == [negated |-> TRUE, of |-> of]
MCConfigLines ==
    <<Says("identityfile", f3), Says("host", <<Pattern(Short)>>), Says("hostname", Bag),
      Says("port", None), Says("identityfile", f1), Says("compression", salt),
      Says("host", <<Pattern(<<"b", "*">>), Not(<<"b", "?", "g">>)>>), Says("port", 2222),
      Says("hostname", Short), Says("host", None), Says("identityfile", f2), Says("identityagent", s2)>>

MCAgentKeys == s1 :> <<g1>> @@ s2 :> <<g2>>
MCUsualFiles == <<f3, f2>>

(* What it is to match a pattern: the name falls into pieces, one for each *)
(* of the pattern's characters.                                            *)
FallsInto(pattern, host) ==
    \E cut \in [1 .. Len(pattern) + 1 -> 1 .. Len(host) + 1] :
        /\ cut[1] = 1 /\ cut[Len(pattern) + 1] = Len(host) + 1
        /\ \A i \in 1 .. Len(pattern) :
              IF pattern[i] = "*" THEN cut[i + 1] >= cut[i]
              ELSE cut[i + 1] = cut[i] + 1 /\ pattern[i] \in {"?", host[cut[i]]}

Spelt(letters, n) == UNION {[1 .. k -> letters] : k \in 0 .. n}

(* matches (ssh_config.rs) goes back to its last star, and never further.  *)
ASSUME MatchesIsGlobbing ==
    \A pattern \in Spelt({"*", "?", "a", "b"}, 4), host \in Spelt({"a", "b"}, 3) :
        matches(pattern, host) = FallsInto(pattern, host)
=============================================================================
