------------------------------ MODULE MCGateway -----------------------------
(* An instance of Gateway for TLC. *)
EXTENDS Gateway

CONSTANTS root, alice, bob, team, null

\* Namespaces n and n_x share names: n_x_t is x_t of the one and t of the other.
CONSTANTS N, NX, AN, BM

MCKey == {N, NX, AN, BM}
MCOwnerOf == [k \in MCKey |-> IF k = AN THEN alice ELSE IF k = BM THEN bob ELSE null]
MCNamespaceOf == [k \in MCKey |-> IF k = NX THEN <<"n", "x">>
                                  ELSE IF k = BM THEN <<"m">> ELSE <<"n">>]

MCGroupsOf == [u \in {root, alice, bob} |-> IF u = alice THEN {team} ELSE {}]
MCIdOrder == [u \in {root, alice, bob} |-> IF u = root THEN 3 ELSE IF u = alice THEN 1 ELSE 2]
MCPart == {"n", "x", "m", "s", "t"}
MCName == {<<"x", "t">>, <<"t">>, <<"s">>}

\* Two secrets of one process overlap in its log line, those of the other do not.
MCEnv == {"e1", "e2"}
MCLetter == {"a", "b", "c", "d", "e", "f"}
MCSecretsOf == [e \in MCEnv |->
  IF e = "e1" THEN {<<"a", "b", "c">>, <<"b", "c", "d">>, <<"e">>}
  ELSE {<<"b", "c", "d">>, <<"f", "f", "e">>}]
MCLineOf == [e \in MCEnv |->
  IF e = "e1" THEN <<"e", "a", "b", "c", "d", "e">> ELSE <<"b", "c", "d", "f", "f", "e">>]

MCContent == [k \in MCKey |->
  IF k = N THEN [tool |-> {<<"x", "t">>, <<"s">>}, prompt |-> {<<"x", "t">>}, resource |-> {<<"s">>}]
  ELSE IF k = NX THEN [tool |-> {<<"t">>}, prompt |-> {<<"t">>}, resource |-> {}]
  ELSE IF k = AN THEN [tool |-> {<<"x", "t">>}, prompt |-> {}, resource |-> {<<"s">>}]
  ELSE [tool |-> {<<"s">>, <<"t">>}, prompt |-> {}, resource |-> {}]]
MCBears == [k \in MCKey |-> IF k = BM THEN {} ELSE MCContent[k]["tool"] \ {<<"s">>}]
MCCapable == {N}
MCSourced == {N}
MCTagged == {[key |-> N, name |-> <<"s">>]}
MCAsked == [tool |-> {<<"n", "x", "t">>, <<"n", "s">>}, prompt |-> {<<"n", "x", "t">>},
            resource |-> {}]

MCRule(kind, subject, server, tool, effect) ==
  [kind |-> kind, subject |-> subject, effect |-> effect, server |-> server, tool |-> tool,
   level |-> IF server = null THEN "global" ELSE IF tool = null THEN "server" ELSE "tool"]
AliceAll == MCRule("user", alice, null, null, "allow")
AliceAllows == MCRule("user", alice, N, <<"x", "t">>, "allow")
AliceDenies == MCRule("user", alice, N, <<"x", "t">>, "deny")
AliceB == MCRule("user", alice, BM, <<"t">>, "allow")
TeamNX == MCRule("group", team, NX, null, "allow")
TeamDenyN == MCRule("group", team, N, null, "deny")
BobA == MCRule("user", bob, AN, null, "allow")
BobN == MCRule("user", bob, N, <<"s">>, "allow")
MCRulePool == {AliceAll, AliceAllows, AliceDenies, AliceB, TeamNX, TeamDenyN, BobA, BobN}

MCRecord(k) ==
  [env |-> "e1", enabled |-> TRUE, muted |-> FALSE, hidden |-> {},
   approved |-> IF MCOwnerOf[k] = null THEN null ELSE "e1"]
MCBoot(keys) == [k \in MCKey |-> IF k \in keys THEN MCRecord(k) ELSE null]

\* Alice has a server under the namespace of a shared one; or Bob has one she may use in
\* part, and her rules on a tool of N contradict each other.
Own(policy, life, store, fault, crash, r, answer, a) ==
  [boot |-> MCBoot({N, NX, AN}), rules |-> {AliceAll, TeamNX, BobA, BobN},
   left |-> [policy |-> policy, life |-> life, store |-> store, fault |-> fault,
             crash |-> crash, req |-> r, answer |-> answer, act |-> a]]
Foreign(answer) ==
  [Own(0, 0, 0, 0, 0, 1, answer, 0) EXCEPT
     !.boot = MCBoot({N, BM}),
     !.rules = {AliceAll, AliceAllows, AliceDenies, AliceB, TeamDenyN, BobN}]

MCScenario == {
  Foreign(1),
  Own(1, 0, 0, 1, 0, 1, 1, 0),   \* a request beside a policy change and a failure
  Own(0, 1, 0, 0, 0, 1, 1, 0),   \* a request beside an edit, a removal or a restart
  Own(1, 1, 0, 1, 0, 0, 0, 1),   \* an action run beside all of these
  Own(1, 1, 0, 0, 1, 0, 0, 0),   \* a policy change beside an edit, then a crash
  Own(0, 2, 0, 1, 0, 0, 0, 0), Own(0, 2, 0, 0, 1, 0, 0, 0),
  Own(0, 0, 2, 1, 1, 0, 0, 0), Own(0, 1, 2, 1, 0, 0, 0, 0)}

-----------------------------------------------------------------------------
\* `scrub_secrets` masks exactly the letters that some secret covers, however the places
\* of the secrets overlap, nest or touch.
MCSecrets == SUBSET {<<"a">>, <<"a", "b">>, <<"b", "a">>, <<"b", "a", "b">>, <<"c", "a">>}

ASSUME ScrubKeepsPromise ==
  \A text \in BoundedSeq({"a", "b", "c"}, 5), secrets \in MCSecrets :
    Scrub(text, secrets) = Promised(text, secrets)
=============================================================================
