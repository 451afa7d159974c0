---------------------------- MODULE TestOracles ----------------------------
(***************************************************************************)
(* Execution of test oracles against connector-verified CI observations    *)
(* and the coverage the release gate reads (app/repositories/test_oracles, *)
(* app/verify/oracles, app/verify/judgment, migration 0042).               *)
(*                                                                         *)
(* An execution is one READ COMMITTED transaction that reads the declared  *)
(* repository, awaits the connector, for a judgment oracle resolves its    *)
(* judges and the budget and awaits their answers, inserts its run and     *)
(* commits under the deferred trigger verify_test_oracle_run.  Definitions *)
(* are append-only artifacts; their floors have any number of digits, of   *)
(* which the columns, numeric(8, 6), keep six.  Digests are compared as    *)
(* values; answers of the connector and of the models are whatever they    *)
(* may be, and so is what the models charge for them.                      *)
(***************************************************************************)
EXTENDS Integers, FiniteSets

CONSTANTS
    Oracles,        \* canonical oracle artifacts of one project
    OracleType,     \* "specified", "reference", "judgment", or "invalid": validate_definition refuses it
    Cases,          \* the case_refs of a definition; sample_size is their number
    Fine,           \* units of a floor in a millionth
    MinPassRate,    \* MinPassRate[o]: minimum_pass_rate, in these units
    MinReliability, \* inter_rater_reliability_minimum, in these units
    HumanReview,    \* the judgment oracles with human_review_required
    Judges,         \* the reviewers of a judgment definition
    Repos, Commits, Sessions,
    CallCost,       \* project_cost of one judge's answer
    Bills, MaxBill, \* what a panel's answers may turn out to cost, and a bound of it
    Budget,         \* max_total_cost_usd
    SpentBefore,    \* what other work may have cost already
    MaxRuns         \* bound

VARIABLES
    scoped,    \* the oracles promoted so far
    repo,      \* the declared repository
    active,    \* the judges that are active, qualified ai_evaluation instances
    runs,      \* test_oracle_runs with their test_results
    spent,     \* the committed cost_events of the project
    clock,     \* stamps of created_at
    session

vars == <<scoped, repo, active, runs, spent, clock, session>>

Million == 1000 * 1000
Panel == Cardinality(Judges)
PanelCost == Cardinality(Cases) * Panel * CallCost

NoVotes == [c \in Cases |-> {}]
FailureCode == {"none", "connector_failure", "artifact_missing", "oracle_result_missing",
                "definition_binding_mismatch", "observation_validation_failed",
                "judgment_evaluators_unqualified", "judgment_blocked_by_budget",
                "judgment_execution_failed"}
\* votes[c]: the judges that answered yes on case c; passing: the cases a
\* deterministic runner passed.
TestResults == [passing : SUBSET Cases, votes : [Cases -> SUBSET Judges]]
TestOracleRun == [oracle : Oracles, repo : Repos, commit : Commits, failure : FailureCode,
                  results : TestResults, created_at : 1..MaxRuns]

NoResults == [passing |-> {}, votes |-> NoVotes]
Idle == [step |-> "idle"]
Jobs == {Idle} \cup
        [step : {"fetching", "fetched", "judging"}, oracle : Oracles, repo : Repos, commit : Commits]
        \cup [step : {"inserted"}, run : TestOracleRun, cost : {0} \cup Bills]

\* What the proofs assume: the bounds validate_definition puts on a definition,
\* and a budget that is not used up before the first panel.
Parameters ==
    /\ IsFiniteSet(Cases) /\ Cases # {} /\ IsFiniteSet(Judges) /\ Panel >= 2
    /\ Fine \in Nat \ {0} /\ MinPassRate \in [Oracles -> 0..(Million * Fine)]
    /\ MinReliability \in Int /\ MinReliability <= Million * Fine
    /\ \A o \in HumanReview : OracleType[o] = "judgment"
    /\ IsFiniteSet(Sessions) /\ Sessions # {}
    /\ CallCost \in Nat /\ MaxBill \in Nat /\ PanelCost <= MaxBill /\ Bills \subseteq 0..MaxBill
    /\ Budget \in Nat /\ SpentBefore \subseteq Nat
    /\ \A n \in SpentBefore : n < Budget
    /\ MaxRuns \in Nat

TypeOK ==
    /\ scoped \subseteq Oracles /\ repo \in Repos /\ active \subseteq Judges
    /\ runs \subseteq TestOracleRun
    /\ spent \in Nat /\ clock \in 0..MaxRuns
    /\ session \in [Sessions -> Jobs]

Init ==
    /\ scoped = {} /\ repo \in Repos /\ active = Judges
    /\ runs = {} /\ spent \in SpentBefore /\ clock = 0
    /\ session = [s \in Sessions |-> Idle]

-----------------------------------------------------------------------------
(* Evaluators.                                                              *)

\* The integer nearest to num / den, halves away from zero (ROUND_HALF_UP, and
\* PostgreSQL's numeric).
HalfUp(num, den) ==
    IF num >= 0 THEN (2 * num + den) \div (2 * den) ELSE -((2 * (-num) + den) \div (2 * den))
Millionths(num, den) == HalfUp(Million * num, den)

\* The same with halves to the even neighbour (quantize, as Python rounds).
HalfEven(num, den) ==
    LET q == num \div den
        twice == 2 * (num % den)
    IN  IF twice < den \/ (twice = den /\ q % 2 = 0) THEN q ELSE q + 1

Total(votes) == Cardinality({v \in Cases \X Judges : v[2] \in votes[v[1]]})

\* The pairs of judges that agree on a case, over all cases (ordered pairs).
Agreements(votes) ==
    Cardinality({v \in Cases \X Judges \X Judges :
                    v[2] # v[3] /\ (v[2] \in votes[v[1]] <=> v[3] \in votes[v[1]])})

\* Kappa of a panel that left no room for chance taken as zero.
KappaZeroIfDegenerate(votes) ==
    LET all == Cardinality(Cases) * Panel
        en == Total(votes) * Total(votes) + (all - Total(votes)) * (all - Total(votes))
        ed == all * all
        on == Agreements(votes)   od == all * (Panel - 1)
    IN  IF en = ed THEN 0 ELSE Millionths(on * ed - en * od, od * (ed - en))

\* fleiss_kappa: (observed - expected) / (1 - expected), in millionths.
fleiss_kappa(votes) ==
    LET n == Cardinality(Cases)
        on == Agreements(votes)   od == n * Panel * (Panel - 1)
        all == n * Panel
        en == Total(votes) * Total(votes) + (all - Total(votes)) * (all - Total(votes))
        ed == all * all
    IN  IF en = ed THEN (IF on = od THEN Million ELSE 0)
        ELSE Millionths(on * ed - en * od, od * (ed - en))

Disagreements(votes) == {c \in Cases : votes[c] \notin {{}, Judges}}

\* evaluate_judgment_ratings: the rate in whole millionths against the floor of
\* the definition, which may have more digits.
JudgmentReason(o, votes) ==
    LET rate == HalfEven(Million * Total(votes), Cardinality(Cases) * Panel)
    IN  IF o \in HumanReview THEN "human_review_required_unavailable"
        ELSE IF Disagreements(votes) # {} THEN "unresolved_disagreement"
        ELSE IF fleiss_kappa(votes) * Fine < MinReliability THEN "irr_below_floor"
        ELSE IF rate * Fine < MinPassRate[o] THEN "pass_rate_below_floor"
        ELSE "passed"

\* reported_passed_count and reported_result_count, verified against the results.
Passed(run) == IF OracleType[run.oracle] = "judgment" THEN Total(run.results.votes)
                                                      ELSE Cardinality(run.results.passing)
Rated(run) == Cardinality(Cases) * (IF OracleType[run.oracle] = "judgment" THEN Panel ELSE 1)

\* A floor as the column keeps it, in millionths.
Stored(floor) == HalfUp(floor, Fine)

\* A generated column without its last line.
VerdictIgnoresReview(run) ==
    /\ run.failure = "none"
    /\ Million * Passed(run) >= Stored(MinPassRate[run.oracle]) * Rated(run)
    /\ OracleType[run.oracle] = "judgment" =>
         /\ Disagreements(run.results.votes) = {}
         /\ fleiss_kappa(run.results.votes) >= Stored(MinReliability)

\* RUN_VERDICT_EXPR, the generated column: the exact rate against the floors as
\* they are stored.
Verdict(run) ==
    /\ run.failure = "none"
    /\ Million * Passed(run) >= Stored(MinPassRate[run.oracle]) * Rated(run)
    /\ OracleType[run.oracle] = "judgment" =>
         /\ Disagreements(run.results.votes) = {}
         /\ fleiss_kappa(run.results.votes) >= Stored(MinReliability)
         /\ run.oracle \notin HumanReview

-----------------------------------------------------------------------------
(* What happens around an execution.                                        *)

\* Intake promotes an oracle under an acceptance criterion of a requirement.
Promote(o) ==
    /\ o \notin scoped
    /\ scoped' = scoped \cup {o}
    /\ UNCHANGED <<repo, active, runs, spent, clock, session>>

DeclareRepo(r) ==
    /\ r # repo
    /\ repo' = r
    /\ UNCHANGED <<scoped, active, runs, spent, clock, session>>

\* suspend, and bind_to_run, of a judge; both append to the audit log.
SetJudge(j) ==
    /\ active' = IF j \in active THEN active \ {j} ELSE active \cup {j}
    /\ UNCHANGED <<scoped, repo, runs, spent, clock, session>>

-----------------------------------------------------------------------------
(* execute_ci.                                                              *)

BeginExecution(s, o, commit) ==
    /\ session[s] = Idle
    /\ o \in scoped /\ OracleType[o] # "invalid"
    /\ session' = [session EXCEPT ![s] = [step |-> "fetching", oracle |-> o, repo |-> repo,
                                          commit |-> commit]]
    /\ UNCHANGED <<scoped, repo, active, runs, spent, clock>>

\* The checks of test_oracle_runs: only a run that succeeded has results.
ExecutionShape(run) == run.failure # "none" => run.results = NoResults

\* The checks of test_results: votes for a judgment, digests or numbers otherwise.
TypeShape(run) ==
    IF OracleType[run.oracle] = "judgment" THEN run.results.passing = {}
                                           ELSE run.results.votes = NoVotes

\* test_oracle_runs_guard: the artifact is a test oracle under a criterion.
KindGuard(run) == run.oracle \in scoped

\* session.add(run) and flush: created_at is drawn now.
InsertRun(s, failure, results, cost) ==
    LET j == session[s]
        run == [oracle |-> j.oracle, repo |-> j.repo, commit |-> j.commit,
                failure |-> failure, results |-> results, created_at |-> clock + 1]
    IN
    /\ clock < MaxRuns
    /\ ExecutionShape(run) /\ TypeShape(run) /\ KindGuard(run)
    /\ clock' = clock + 1
    /\ session' = [session EXCEPT ![s] = [step |-> "inserted", cost |-> cost, run |-> run]]
    /\ UNCHANGED <<scoped, repo, active, runs, spent>>

\* The connector fails, or its artifact lacks the oracle or names another definition.
FetchFails(s, code) ==
    /\ session[s].step = "fetching"
    /\ code \in {"connector_failure", "artifact_missing", "oracle_result_missing",
                 "definition_binding_mismatch"}
    /\ InsertRun(s, code, NoResults, 0)

Fetch(s) ==
    /\ session[s].step = "fetching"
    /\ session' = [session EXCEPT ![s].step = "fetched"]
    /\ UNCHANGED <<scoped, repo, active, runs, spent, clock>>

\* evaluate_specified or evaluate_reference, case by case; observations that
\* do not match the cases are refused.
Evaluate(s, passing) ==
    /\ session[s].step = "fetched" /\ OracleType[session[s].oracle] # "judgment"
    /\ \/ InsertRun(s, "none", [NoResults EXCEPT !.passing = passing], 0)
       \/ InsertRun(s, "observation_validation_failed", NoResults, 0)

\* A check that forgets what the panel is about to cost.
ExceedsBudgetAlready == spent >= Budget

\* _projected_exceeds_budget, on what is committed.
ProjectedExceedsBudget == spent + PanelCost >= Budget

\* Every reviewer of the definition is an active, qualified evaluation instance.
QualifiedJudges == active = Judges

\* _qualified_judges and the budget, then the panel is asked.
Empanel(s) ==
    /\ session[s].step = "fetched" /\ OracleType[session[s].oracle] = "judgment"
    /\ IF ~QualifiedJudges THEN InsertRun(s, "judgment_evaluators_unqualified", NoResults, 0)
       ELSE IF ProjectedExceedsBudget THEN InsertRun(s, "judgment_blocked_by_budget", NoResults, 0)
       ELSE /\ session' = [session EXCEPT ![s].step = "judging"]
            /\ UNCHANGED <<scoped, repo, active, runs, spent, clock>>

\* execute_judgment: every answer is paid for when it arrives, at what the model
\* reports, also when it cannot be used or a later one fails.
Judge(s, votes, cost) ==
    /\ session[s].step = "judging"
    /\ InsertRun(s, "none", [NoResults EXCEPT !.votes = votes], cost)

JudgeFails(s, cost) ==
    /\ session[s].step = "judging"
    /\ InsertRun(s, "judgment_execution_failed", NoResults, cost)

\* A trigger that verifies the counts and not the lineage.
LineageUnverified(run) == TRUE

\* verify_test_oracle_run: the panel is active and qualified at the commit.
LineageVerified(run) ==
    OracleType[run.oracle] = "judgment" /\ run.failure = "none" => active = Judges

\* The audit append holds the global lock to the commit, so that no suspension
\* commits between the deferred check and this step.
CommitRun(s) ==
    LET j == session[s] IN
    /\ j.step = "inserted"
    /\ LineageVerified(j.run)
    /\ runs' = runs \cup {j.run}
    /\ spent' = spent + j.cost
    /\ session' = [session EXCEPT ![s] = Idle]
    /\ UNCHANGED <<scoped, repo, active, clock>>

Abort(s) ==
    /\ session[s] # Idle
    /\ session' = [session EXCEPT ![s] = Idle]
    /\ UNCHANGED <<scoped, repo, active, runs, spent, clock>>

Next ==
    \/ \E o \in Oracles : Promote(o)
    \/ \E r \in Repos : DeclareRepo(r)
    \/ \E j \in Judges : SetJudge(j)
    \/ \E s \in Sessions :
         \/ \E o \in scoped, c \in Commits : BeginExecution(s, o, c)
         \/ \E code \in FailureCode : FetchFails(s, code)
         \/ Fetch(s)
         \/ \E passing \in SUBSET Cases : Evaluate(s, passing)
         \/ Empanel(s)
         \/ \E cost \in Bills :
              \/ \E votes \in [Cases -> SUBSET Judges] : Judge(s, votes, cost)
              \/ JudgeFails(s, cost)
         \/ CommitRun(s)
         \/ Abort(s)

Spec == Init /\ [][Next]_vars

-----------------------------------------------------------------------------
(* coverage_for_project.                                                    *)

Newest(rs) == CHOOSE r \in rs : \A q \in rs : q.created_at <= r.created_at
Valid == {o \in scoped : OracleType[o] # "invalid"}
Bound == {r \in runs : r.oracle \in Valid /\ r.repo = repo}

\* Coverage that takes each oracle's newest run at whatever commit.
RunsOfAnyCommit(o) == {r \in Bound : r.oracle = o}

\* The runs of one oracle at the commit the newest run of all selects.
RunsAtSelected(o) == {r \in Bound : r.oracle = o /\ r.commit = Newest(Bound).commit}

\* evaluate_test_oracle gate: every scoped oracle is valid and its newest run passed.
GateClear ==
    /\ scoped # {} /\ Valid = scoped /\ Bound # {}
    /\ \A o \in Valid : RunsAtSelected(o) # {} /\ Verdict(Newest(RunsAtSelected(o)))

-----------------------------------------------------------------------------
\* How far the rate of a run is from the floor of its definition, in units of a
\* floor and multiplied by the number of results.
Above(run) == Million * Fine * Passed(run) - MinPassRate[run.oracle] * Rated(run)

\* When the gate is clear there is one commit of the declared repository at
\* which every scoped oracle has a run that was executed in full on connector
\* observations, without a judge dissenting or a human to be asked, and with a
\* rate that misses the floor by half a millionth at the most
\* (coverage_for_project, whatever order runs, promotions and declarations took).
GateNamesOneCommit ==
    GateClear =>
        \E c \in Commits : \A o \in scoped : \E r \in runs :
            /\ r.oracle = o /\ r.commit = c /\ r.repo = repo /\ r.failure = "none"
            /\ o \notin HumanReview
            /\ OracleType[o] = "judgment" => Disagreements(r.results.votes) = {}
            /\ 2 * Above(r) >= -(Fine * Rated(r))

\* Python decides a judgment on a rounded rate and the floor as it was written,
\* PostgreSQL on the exact rate and a rounded floor.  They differ on the rate
\* only, and there only where it is half a millionth or less from the floor;
\* with a floor of six digits the database never passes what Python refused.
\* Reliability never decides: a panel that does not disagree has Fleiss kappa 1.
VerdictIsTheDecision ==
    \A r \in runs : r.failure = "none" /\ OracleType[r.oracle] = "judgment" =>
        LET reason == JudgmentReason(r.oracle, r.results.votes)
            verdict == Verdict(r)
        IN  /\ reason # "irr_below_floor"
            /\ verdict => reason \in {"passed", "pass_rate_below_floor"}
            /\ (2 * Above(r) > Fine * Rated(r) \/ 2 * Above(r) < -(Fine * Rated(r)))
                 => (verdict <=> reason = "passed")
            /\ MinPassRate[r.oracle] % Fine = 0 => (verdict => reason = "passed")

\* A judgment run is committed only while its whole panel is active and
\* qualified, although the judges were looked up before their models were
\* asked (verify_test_oracle_run).
PanelStep ==
    \A r \in runs' \ runs :
        OracleType[r.oracle] = "judgment" /\ r.failure = "none" => active = Judges

\* Concurrent panels each check the budget on what is committed and with what
\* they are expected to cost: together they spend less than the budget, less
\* one expected panel, and what the panels of all sessions turn out to cost
\* (_projected_exceeds_budget is refused at equality).
OvershootBounded ==
    spent < Budget - PanelCost + Cardinality(Sessions) * MaxBill
=============================================================================
