----------------------------- MODULE MCDelivery -----------------------------
(***************************************************************************)
(* A small instance of Delivery, and what of it is explored.               *)
(***************************************************************************)
EXTENDS Delivery, TLC

CONSTANTS s1, s2, t1, t2, w1, j1, j2, c1, c2

TwoClients == {s1, s2}     \* interchangeable
TwoCallers == {t1, t2}     \* t2 does less, see the constraints
Symmetry == Permutations(TwoClients)

Blueprints == [kim |-> "qa", twin |-> "dev"]
ReviewerIds == DOMAIN Blueprints

OracleTypes == [spec |-> "specified", panel |-> "judgment", narrow |-> "judgment",
                reviewed |-> "judgment", broken |-> "invalid"]
OracleIds == DOMAIN OracleTypes
\* 0.666667, which two of three cases reach when rounded and miss exactly, and
\* 0.3333334, which one of three reaches as stored only.
PassRates == [spec |-> 6666670, panel |-> 6666670, narrow |-> 3333334, reviewed |-> 0, broken |-> 0]
Reviewed == {"reviewed"}
CaseRefs == {"rep", "edge", "adv"}
Panelists == {j1, j2}
Heads == {c1, c2}
Origins == {"o1", "o2"}
SomeBills == {0, 12}     \* six answers of 1 were expected
Spendings == {0, 7}

People == {"ann", "bob"}
Bots == {"svc"}
Lists == {{"ann"}, {"ann", "bob"}}
ReleaseIds == {"r1", "r2"}
TwoRequestKeys == {"k1", "k2"}

FindingOf(type, trusted) == [type |-> type, severity |-> "high", trusted |-> trusted]
IssueOf(severity, blocking) == [severity |-> severity, blocking |-> blocking, category |-> "none"]
CandidateIds == {"c1"}
IssueIds == {"i1", "i2"}
FindingIds == {"f1"}
RecordIds == {"r1"}
SomeFindings == {FindingOf("security", TRUE), FindingOf("shortcut", TRUE),
                 FindingOf("security", FALSE)}
SomeIssues == {IssueOf("low", FALSE), IssueOf("critical", TRUE)}
SomeExpiries == {0}
OneSection == {"review_reports"}
OneWorker == {w1}

Priced(model, ci) ==
    [remaining |-> [model_inference |-> model, cloud_runtime |-> 0, other |-> 0],
     today |-> [model_inference |-> 0, cloud_runtime |-> 0, other |-> 0], ci |-> ci, priced |-> TRUE]
SomeCharges == {[component |-> "model_inference", amount |-> 1],
                [component |-> "cloud_runtime", amount |-> 2]}
SomeBudgets == {[total |-> 5, daily |-> 4], [total |-> 4, daily |-> 0], [total |-> 9, daily |-> -1]}
SomeCostPolicies == {[model_total |-> 3, model_daily |-> 2, cloud_total |-> 4, ci_daily |-> 1,
                      approval_above |-> 800000],
                     [model_total |-> 2, model_daily |-> 2, cloud_total |-> 3, ci_daily |-> 9,
                      approval_above |-> 1000000]}
SomePlans == {Priced(1, 0), Priced(0, 1000)}
OneRef == {"x"}
NoCores == {}

Sample(class, metric, start) ==
    [class |-> class, metric |-> metric, threshold |-> 1, start |-> start, end |-> start + 1]
OneKey == {"k"}
SomeSampleLists == {{}, {Sample("latency", 1, 0)}, {Sample("uptime", 1, 0)},
                    {Sample("latency", 2, 0), Sample("error_rates", 1, 1)}}
SomeLedgerCharges == {[id |-> 1, at |-> 0, amount |-> 1], [id |-> 2, at |-> 2, amount |-> 1]}
SomeLedgerBudgets == {[present |-> TRUE, total |-> 2, daily |-> 1],
                      [present |-> TRUE, total |-> 1, daily |-> -1]}
OneFailedRun == {"r"}

PolicyOf(tasks, branches) ==
    [create_project_tasks |-> tasks, create_branches |-> branches, open_pull_requests |-> "allow",
     deploy_staging |-> "deny", deploy_production |-> "deny"]
IncidentIds == {"i"}
OnePayload == {"d"}
OneHotfixKey == {"h"}
SomePolicies == {PolicyOf("allow", "allow"), PolicyOf("deny", "needs_approval")}
SomeContexts == {[covered |-> b, bound |-> b, authorized |-> TRUE] : b \in BOOLEAN}

GateFlags == {"scope_resolved", "core_present", "core_reaudited", "repo_binding_agreed",
              "staging_target_valid", "staging_snapshot_present", "staging_snapshot_available",
              "staging_snapshot_fresh", "artifact_trusted", "binding_current",
              "phase_coverage_complete", "evidence_consistent", "drill_passed", "gate_eligible"}
\* eve's key has a subject of more than 200 characters.
SomeActors == {[subject |-> "ann", authenticated |-> TRUE],
               [subject |-> "eve", authenticated |-> TRUE],
               [subject |-> "bot", authenticated |-> FALSE]}
Overlong == {"eve"}
Spaced == {" t1"}
TwoWindowKeys == {"k", "k2"}
TwoTargets == {"t1", " t1"}
SomeDeclarations == {[window |-> TRUE, target |-> " t1"],
                     [window |-> TRUE, target |-> "t1"], [window |-> TRUE, target |-> "no_target"],
                     [window |-> FALSE, target |-> "no_target"]}
SomeEvidence == {[verified |-> v, fresh |-> TRUE, readable |-> TRUE, active |-> TRUE] :
                     v \in BOOLEAN}
SomeCoverages == {[run |-> TRUE, flags |-> GateFlags, attempt_failed |-> FALSE, phases |-> 5,
                   observed |-> "connector_observed_ci"],
                  [run |-> FALSE, flags |-> {}, attempt_failed |-> FALSE, phases |-> 0,
                   observed |-> "none"]}
SomeInventories == {[recurrence |-> 0, domain |-> FALSE, gaps |-> -1, forecast |-> FALSE],
                    [recurrence |-> 1, domain |-> TRUE, gaps |-> 2, forecast |-> TRUE]}

-----------------------------------------------------------------------------
(* Constraints: what is left out repeats what another choice shows.         *)

\* One kind of link, made first; histories of at most five transitions.
ContractsInteresting ==
    /\ links \subseteq {"source_requirement"} /\ (registry # {} => links # {})
    /\ Len(trail) <= 5

Testing(x) == testing[x].step # "idle"
RunsBegun == oracleRuns \cup {testing[x].run : x \in {y \in Callers : testing[y].step = "inserted"}}
\* Judges agree on two cases and may split on the third; the invalid definition
\* is met once, the narrow and the reviewed one alone; t2 runs the panel only, at
\* the first commit and with one answer for all cases, and beside t1 only where
\* it is all there is, as judges come and go only there; the repository moves
\* once, under t1.
OraclesInteresting ==
    /\ \A r \in RunsBegun :
        /\ r.failure \notin {"artifact_missing", "oracle_result_missing", "connector_failure"}
        /\ r.results.votes["rep"] \in {{}, {j1, j2}}
        /\ r.results.votes["edge"] = r.results.votes["rep"]
        /\ r.results.votes["adv"] = {} \/ j1 \in r.results.votes["adv"]
        /\ r.results.passing \in {{}, {"rep", "edge"}, CaseRefs}
    /\ "broken" \in scoped => oracleRuns = {} /\ \A x \in Callers : ~Testing(x)
    /\ scoped \cap {"narrow", "reviewed"} # {} =>
         /\ Cardinality(scoped) = 1 /\ ~Testing(t2) /\ active = Panelists
         /\ Cardinality(RunsBegun) <= 1 /\ (oracleRuns # {} => ~Testing(t1))
    /\ j1 \in active
    /\ repo = "o2" => /\ scoped = {"spec"} /\ active = Panelists /\ ~Testing(t2)
                      /\ Testing(t1) \/ oracleRuns # {}
    /\ testing[t2].step \in {"fetching", "fetched", "judging"} =>
           testing[t2].oracle = "panel" /\ testing[t2].commit = c1
    /\ testing[t2].step = "inserted" =>
           /\ testing[t2].run.oracle = "panel"
           /\ \E v \in {{}, Panelists} : testing[t2].run.results.votes = [c \in CaseRefs |-> v]
           /\ testing[t2].run.failure \in {"none", "judgment_execution_failed"}
                => testing[t2].cost > 0
    /\ spent = 7 => scoped \subseteq {"panel"}
    /\ Cardinality(oracleRuns) = 1 => \A r \in oracleRuns : r.commit = c1
    /\ (\A x \in Callers : Testing(x)) \/ active # Panelists => scoped = {"panel"}

Requesting == {s \in Clients : deciding[s].step = "requesting"}
Bindings == {requests[i].binding : i \in DOMAIN requests} \cup {deciding[s].binding : s \in Requesting}
\* Requests are made one at a time, with k1 first, by a service or by an approver;
\* the release advances once there is one, under approvers that stay.
PreapprovalsInteresting ==
    /\ Cardinality(Requesting) <= 1 /\ (~eligible => Requesting = {})
    /\ \A s \in Requesting : deciding[s].by \in {"svc", "ann"}
    /\ \A i \in DOMAIN requests : requests[i].requester \in {"svc", "ann"}
    /\ release = "r2" => /\ requests # <<>> \/ Requesting # {}
                         /\ approvers = People /\ eligible
    /\ (\E b \in Bindings : b.release = "r2") => release = "r2"
    /\ \A i \in DOMAIN requests : i = 1 <=> requests[i].key = "k1"
    /\ \A s \in Requesting : requests = <<>> => deciding[s].key = "k1"

NoMoveTo(rows, statuses) ==
    \A s \in Clients :
        settling[s].op = "move" /\ settling[s].row \in rows => settling[s].to \notin statuses
Settling(ops) == Cardinality({s \in Clients : settling[s].op \in ops})
Failures == Cardinality({p \in packRuns : p.outcome # "succeeded"})
            + Cardinality({v \in verdictRuns : v.outcome = "failed"})
\* "issues" follows the rows without the evidence made of them, "release" packs
\* and verdicts over a trusted finding, its issue and one that is not blocking.
ReleaseInteresting ==
    /\ status["c1"] = "absent" => \A x \in {"i1", "i2", "f1"} : status[x] = "absent"
    /\ status["f1"] = "absent" => status["i1"] = "absent"
    /\ status["i1"] = "absent" => status["i2"] = "absent"
    /\ NoMoveTo({"f1"}, {"superseded", "false_positive"})
    /\ NoMoveTo({"i1", "i2", "c1", "r1"}, {"superseded"})
    /\ today > 0 => status["r1"] # "absent"
    /\ component = "issues" =>
        /\ packRuns = {} /\ worker[w1].op = "idle" /\ Settling({"bind"}) <= 1
        /\ today > 0 => status["i2"] = "absent"
        /\ status["i2"] # "absent" => issue["i2"].source # "none"
    /\ component = "release" =>
        /\ status["f1"] \in {"absent", "open"}
        /\ status["f1"] = "open" => finding["f1"].trusted /\ finding["f1"].type = "security"
        /\ today = 0 /\ status["r1"] = "absent" /\ status["c1"] # "canceled"
        /\ Settling({"bind"}) <= 1 /\ Settling({"accept"}) = 0 /\ Settling({"move", "bridge"}) <= 1
        /\ status["i1"] # "absent" => issue["i1"].source = "f1"
        /\ status["i2"] # "absent" => issue["i2"].shape.severity = "low"
        /\ NoMoveTo({"f1"}, {"resolved"}) /\ NoMoveTo({"c1"}, {"canceled"})
        /\ sections = {} => packStamp <= 1 /\ status["f1"] = "absent"
        /\ Failures <= 1

\* t2 records charges only, and what precedes a forecast comes in one order.
CostInteresting ==
    /\ spending[t2].pc \in {"idle", "recording"}
    /\ coreStatus[1] = "retired" =>
           clock = 0 /\ Len(policies) = 1 /\ (budget # C!NoBudget => budget.daily > 0)
    /\ \A e \in C!Recording :
           /\ e.at = IF e.ref = "x" THEN clock ELSE 1
           /\ e.ref = "x" <=> e.component = "model_inference"
    /\ (\E s \in Callers : spending[s].pc \in {"passed", "aborted"}) => C!Recording = {}
    /\ coreStatus[1] = "none" => policies = <<>>
    /\ policies = <<>> => budget = C!NoBudget
    /\ budget = C!NoBudget => ledger = {} /\ C!Recording = {} /\ Len(policies) < 2 /\ clock = 0
    /\ Len(policies) = 2 \/ (budget # C!NoBudget /\ budget.daily <= 0) =>
           Cardinality(ledger) + Cardinality(C!Recording) < 2
    /\ clock = 1 => ledger # {} /\ Len(policies) < 2
    /\ budget # C!NoBudget /\ budget.daily <= 0 => Len(policies) = 1 /\ clock = 0

\* t2 meets an empty project; one source moves under a collection.
SignalsInteresting ==
    /\ collecting[t2].stage # "idle" => tick <= 1 /\ failed = {} /\ charged = {} /\ ~caps.present
    /\ observations # {} =>
        /\ \A s \in Callers : collecting[s].stage # "idle" =>
               collecting[s].request \in {{}, {Sample("latency", 1, 0)}}
        /\ failed # {} \/ caps.present \/ charged # {} =>
               \A s \in Callers : collecting[s].stage = "idle"
    /\ collecting[t1].stage # "idle" =>
           Cardinality({x \in {"ledger", "failed", "budget"} :
                           collecting[t1].seen[x] # S!Committed[x]}) <= 1

\* Hotfixes and stops come after the incident's own calls, and t2 meets its
\* first events.
IncidentsInteresting ==
    LET ops == {responding[s].op : s \in Callers}
        moved == \E r \in incidents : r.status # "open"
    IN  /\ context.bound => /\ responding[t2].op = "idle"
                            /\ hotfixes # {} \/ responding[t1].op \in {"idle", "hotfix", "decided"}
        /\ hotfixes # {} \/ stops # {} => ops \cap {"open", "transition", "evaluate"} = {}
        /\ responding[t2].op \notin {"hotfix", "decided"}
        /\ "evaluate" \in ops => ops \subseteq {"evaluate", "idle", "transition"} /\ ~moved
        /\ "transition" \in ops \/ moved => Cardinality(evaluations) <= 1
        /\ \A i \in IncidentIds : Len(events[i]) > 2 => responding[t2].op = "idle"

\* One source moves under an assessment, and none under a misfit one; t2 only
\* assesses, in an empty project.
StabilizationInteresting ==
    LET ops == {assessing[s].op : s \in Callers}
        stale == {f \in {"declaration", "monitoring", "handovers"} : W!Seen(t1)[f] # W!View[f]}
        bare == ~coverage.run /\ handovers = {} /\ monitoring["t1"] = {}
    IN  /\ coverage.run = inventory.forecast
        /\ monitoring[" t1"] = {} /\ (declaration.target = " t1" => windows = {})
        /\ \A s \in Callers : assessing[s].actor.subject = "eve" \/ assessing[s].extends = -1 =>
               s = t1 /\ assessing[s].op # "closing" /\ assessing[t2].op = "idle" /\ stale = {}
        /\ assessing[t2].op # "idle" =>
               /\ bare /\ declaration.window /\ latch = {}
               /\ assessing[t2].actor.authenticated
               /\ assessing[t2].extends = 0 /\ assessing[t2].key = "k"
        /\ assessing[t1].op \in {"assessing", "written"} =>
               Cardinality(stale) <= 1 /\ attempts = {} /\ latch = {}
        /\ \A h \in handovers : h.authenticated = h.complete
        /\ windows # {} => /\ Cardinality(handovers \cup monitoring["t1"]) <= 1
                           /\ ~coverage.run /\ declaration.target = "t1"
        /\ assessing[t1].op = "assessing" /\ ~assessing[t1].actor.authenticated =>
               stale = {} /\ bare
        /\ attempts # {} => ops = {"idle"}
        /\ "closing" \in ops \/ latch # {} => bare /\ declaration.window
        /\ assessing[t2].op # "closing" /\ (assessing[t1].op = "closing" => assessing[t2].op = "idle")
        /\ \A s \in Callers : assessing[s].key = "k2" <=> assessing[s].extends # 0
        /\ \A w \in windows : (w.key = "k2") = (w.extends # 0)

Interesting ==
    CASE component = "contracts" -> ContractsInteresting
      [] component = "oracles" -> OraclesInteresting
      [] component = "preapprovals" -> PreapprovalsInteresting
      [] component \in {"issues", "release"} -> ReleaseInteresting
      [] component = "cost" -> CostInteresting
      [] component = "signals" -> SignalsInteresting
      [] component = "incidents" -> IncidentsInteresting
      [] component = "stabilization" -> StabilizationInteresting
=============================================================================
