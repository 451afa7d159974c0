---------------------------- MODULE MCGovernance ----------------------------
(***************************************************************************)
(* A small instance of Governance, and what of it is explored.             *)
(***************************************************************************)
EXTENDS Governance, TLC

CONSTANTS ann, ben, dev, qa, ci, s1, s2, w1, w2, w3

Writers == {w1, w2, w3}
TwoClients == {s1, s2}

SomeSubjects == {"deploy", "note"}
SomeMandatory == {"deploy"}
TwoPeople == {ann, ben}
ByKey(who) == [who |-> who, authenticated |-> TRUE]
SomeRequesters == {ByKey(ann)}
SomeDeciders == {ByKey(ann), [who |-> ben, authenticated |-> FALSE]}
TwoTiers == {"low", "medium"}

TwoInstances == {dev, qa}
TwoRuns == {"r1", "r2"}
Result(category, passed) == [category |-> category, passed |-> passed, is_critical |-> TRUE]
SomeCaseSets == {{Result("edge", TRUE), Result("negative", TRUE)}, {Result("edge", TRUE)},
                 {Result("edge", TRUE), Result("negative", FALSE)}}
OneEval == [min_cases |-> 1, min_score |-> 50, zero_critical |-> TRUE,
            required |-> {"edge", "negative"}]

OneAgent == {dev}
OneService == {ci}
TwoTools == {"tests", "deploy"}
ActionOfTool ==
    [t \in TwoTools |-> IF t = "tests" THEN "run_tests" ELSE "deploy_production"]
OneToolApproval == {"deploy"}
OneMandatoryAction == {"deploy_production"}

Symmetry == Permutations(TwoClients) \cup Permutations(Writers)

AllowlistEvents ==
    allowlist \cup {calling[s].event : s \in {x \in Clients : calling[x].op = "allowlist"}}

\* One call is followed at a time (calls of different sessions do not meet),
\* beside what it meets: the agent that runs tests, or the service that deploys
\* and the approvals of its tool.
BrokerInteresting ==
    /\ Cardinality({s \in Clients : calling[s].op = "call"}) <= 1
    /\ Cardinality(toolCalls) <= 1
    /\ toolCalls # {} => \A s \in Clients : calling[s].op = "idle"
    /\ \/ /\ \A e \in AllowlistEvents : e.actor = dev /\ e.tool = "tests"
          /\ policy["deploy_production"] = "deny" /\ approval["deploy"] = "not_approved"
       \/ /\ \A e \in AllowlistEvents : e.actor = ci /\ e.tool = "deploy"
          /\ policy["run_tests"] = "deny" /\ agent[dev].resolvable /\ ~agent[dev].qualified
    /\ approval["tests"] = "not_approved"

\* Qualification is explored for one instance that nobody moves meanwhile,
\* approvals are requested one at a time, and levels matter to the log only.
Interesting ==
    /\ component # "audit" => \A w \in Writers : isolation[w] = "read_committed"
    /\ BrokerInteresting
    /\ Cardinality({s \in Clients : deciding[s].op = "request"}) <= 1
    /\ qruns # <<>> => /\ instance[qa].status = "absent" /\ instance[dev].status = "registered"
                       /\ \A s \in Clients : managing[s].op # "lifecycle"
=============================================================================
