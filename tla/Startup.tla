------------------------------- MODULE Startup -------------------------------
(***************************************************************************)
(* From the configuration file to the publishers of each configuration:    *)
(* configfile.LoadFile, which refuses a document that is not consistent,   *)
(* and the wiring in cmd/fmlocal, which relies on that.  It happens once,  *)
(* before anything else runs.                                              *)
(*                                                                         *)
(* Abstracted data: a parsed document is a record of the fields the checks *)
(* and the wiring look at; a URL is present or not; a name is a string of  *)
(* which only the equality with others, the emptiness and the membership   *)
(* in ConfigurationNames (the names of the allowed pattern) matter.        *)
(***************************************************************************)
EXTENDS Integers, Sequences, FiniteSets

CONSTANTS
  Documents,           \* the configuration files to consider
  ConfigurationNames   \* the non-empty names that match configNamePattern

EventNames == {"MatchmakingSearching", "PotentialMatchCreated", "AcceptMatch",
               "AcceptMatchCompleted", "MatchmakingSucceeded", "MatchmakingFailed",
               "MatchmakingTimedOut", "MatchmakingCancelled"}

\* What YAML decoding can leave in a document (schema.go): any values of the
\* field types, none of which the checks have seen.
Parsed ==
  [awsApiPort : Int, webUIPort : Int, logLevel : STRING,
   ruleSets : Seq([name : STRING, readable : BOOLEAN]),
   publishers : Seq([id : STRING, kind : STRING, url : BOOLEAN, queueUrl : BOOLEAN,
                     enabled : BOOLEAN, onlyEvents : SUBSET STRING]),
   configurations : Seq([name : STRING, ruleSetName : STRING, flexMatchMode : STRING,
                         backfillMode : STRING, targets : Seq(STRING)])]

ASSUME StartupConstants == Documents \subseteq Parsed

-----------------------------------------------------------------------------
(* loader.go.  The order of the checks decides only which error is reported. *)

applyDefaults(doc) == [doc EXCEPT !.logLevel = IF @ = "" THEN "info" ELSE @]

parseLogLevel(level) == level \in {"debug", "info", "warn", "error"}

Distinct(values) == \A i, j \in DOMAIN values : values[i] = values[j] => i = j

Column(rows, field) == [i \in DOMAIN rows |-> rows[i][field]]

PortsValid(doc) == doc.awsApiPort # 0 /\ doc.webUIPort # 0 /\ doc.awsApiPort # doc.webUIPort

RuleSetsValid(doc) == /\ \A i \in DOMAIN doc.ruleSets : doc.ruleSets[i].name # ""
                      /\ Distinct(Column(doc.ruleSets, "name"))

PublishersValid(doc) ==
  /\ Distinct(Column(doc.publishers, "id"))
  /\ \A i \in DOMAIN doc.publishers :
       LET p == doc.publishers[i]
       IN  /\ p.id # ""
           /\ \/ p.kind = "sns_http" /\ p.url
              \/ p.kind = "sqs_eventbridge" /\ p.queueUrl
           /\ p.onlyEvents \subseteq EventNames

\* A notification target must be declared and enabled.
TargetValid(doc, id) ==
  \E i \in DOMAIN doc.publishers : doc.publishers[i].id = id /\ doc.publishers[i].enabled

\* Fault: a target may be disabled.
ConfigurationsValid_Disabled(doc) ==
  /\ Distinct(Column(doc.configurations, "name"))
  /\ \A i \in DOMAIN doc.configurations : \A k \in DOMAIN doc.configurations[i].targets :
       \E j \in DOMAIN doc.publishers : doc.publishers[j].id = doc.configurations[i].targets[k]

\* Fault: a name may be used again.
ConfigurationsValid_Repeated(doc) ==
  \A i \in DOMAIN doc.configurations : \A k \in DOMAIN doc.configurations[i].targets :
    TargetValid(doc, doc.configurations[i].targets[k])

ConfigurationsValid(doc) ==
  /\ Distinct(Column(doc.configurations, "name"))
  /\ \A i \in DOMAIN doc.configurations :
       LET c == doc.configurations[i]
       IN  /\ c.name \in ConfigurationNames
           /\ \E j \in DOMAIN doc.ruleSets : doc.ruleSets[j].name = c.ruleSetName
           /\ c.flexMatchMode \in {"", "STANDALONE"}
           /\ c.backfillMode \in {"", "MANUAL"}
           /\ \A k \in DOMAIN c.targets : TargetValid(doc, c.targets[k])

validate(doc) == /\ PortsValid(doc) /\ RuleSetsValid(doc)
                 /\ PublishersValid(doc) /\ ConfigurationsValid(doc)

\* LoadFile succeeds; otherwise main exits before anything is started.
LoadFile(doc) == /\ \A i \in DOMAIN doc.ruleSets : doc.ruleSets[i].readable
                 /\ parseLogLevel(applyDefaults(doc).logLevel)
                 /\ validate(applyDefaults(doc))

-----------------------------------------------------------------------------
(* main.go *)

\* buildPublishers instantiates the enabled publishers.  A publisher is here
\* its kind, which decides the client it publishes with, and what its Filtered
\* wrapper lets through, {} when it has none.
buildPublishers(doc) ==
  LET enabled == {i \in DOMAIN doc.publishers : doc.publishers[i].enabled}
      row(id) == doc.publishers[CHOOSE i \in enabled : doc.publishers[i].id = id]
  IN  [id \in {doc.publishers[i].id : i \in enabled} |->
         [kind |-> row(id).kind, onlyEvents |-> row(id).onlyEvents]]

\* The publishers bound to a configuration name, in the order of its targets.
\* A target without a publisher is passed over, so the n-th publisher is the
\* n-th target that has one, and of two configurations with one name the last
\* one counts.
publisherByConfig(doc, name) ==
  LET named   == {i \in DOMAIN doc.configurations : doc.configurations[i].name = name}
      last    == CHOOSE i \in named : \A j \in named : j <= i
      targets == doc.configurations[last].targets
      built   == {k \in DOMAIN targets : targets[k] \in DOMAIN buildPublishers(doc)}
      rank(k) == Cardinality({j \in built : j <= k})
  IN  [n \in 1..Cardinality(built) |-> targets[CHOOSE k \in built : rank(k) = n]]
=============================================================================
