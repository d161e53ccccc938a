------------------------------ MODULE MCFanout ------------------------------
(* Instances of Fanout for TLC. *)
EXTENDS Fanout

\* One to three events, of one kind and of several.
SmallBatches == {<<"MatchmakingSearching">>,
                 <<"PotentialMatchCreated", "MatchmakingSucceeded">>,
                 <<"MatchmakingSearching", "MatchmakingSearching", "MatchmakingSucceeded">>}

SomeLists == {{}, {"MatchmakingSucceeded"}}

Http(id, lists, enabled) ==
  [id |-> id, kind |-> "sns_http", url |-> TRUE, queueUrl |-> FALSE,
   enabled |-> enabled, onlyEvents |-> lists]

Sqs(id, lists) ==
  [id |-> id, kind |-> "sqs_eventbridge", url |-> FALSE, queueUrl |-> TRUE,
   enabled |-> TRUE, onlyEvents |-> lists]

Config(name, targets) ==
  [name |-> name, ruleSetName |-> "1v1", flexMatchMode |-> "", backfillMode |-> "",
   targets |-> targets]

Document(publishers, configurations) ==
  [awsApiPort |-> 1, webUIPort |-> 2, logLevel |-> "",
   ruleSets |-> <<[name |-> "1v1", readable |-> TRUE]>>,
   publishers |-> publishers, configurations |-> configurations]

\* Three publishers, of which b may be disabled and two may be filtered.
Publishers3 == {<<Http("a", la, TRUE), Http("b", lb, enabled), Sqs("c", {})>> :
                  la \in SomeLists, lb \in SomeLists, enabled \in BOOLEAN}

\* Target lists: none, one, all, in another order, repeated, not declared.
TargetLists == {<<>>, <<"a", "b", "c">>, <<"c", "b">>, <<"a", "a">>, <<"d">>}

\* One configuration, and two whose names may be the same.
Configs == {<<Config("x", t)>> : t \in TargetLists}
           \cup {<<Config("x", <<"a", "b">>), Config(name, t)>> :
                   name \in {"x", "y"}, t \in {<<>>, <<"c">>, <<"b">>}}

Files == {Document(ps, cs) : ps \in Publishers3, cs \in Configs}

\* Two publishers of one configuration.
TwoTargets == {Document(<<Http("a", {}, TRUE), Sqs("c", {})>>, <<Config("x", <<"a", "c">>)>>)}
=============================================================================
