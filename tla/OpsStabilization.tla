-------------------------- MODULE OpsStabilization --------------------------
(***************************************************************************)
(* The stabilization window after launch (slice 59).                       *)
(*                                                                         *)
(* An assessment runs in REPEATABLE READ: declaration, evidence, handover  *)
(* and the triggers of its own inserts all see the snapshot of its first   *)
(* statement.  Losing the idempotency key to a winner that the snapshot    *)
(* cannot show is retried in a fresh transaction.  A closure attempt runs  *)
(* in READ COMMITTED under the project row, is always refused, and only    *)
(* records why.  No window is ever closed or changed.                      *)
(*                                                                         *)
(* Windows go by the stamp of their row; an id that is no window of the    *)
(* project is UnknownWindow, whatever the caller took it for.              *)
(*                                                                         *)
(* Subjects, targets and keys are model values or strings, a snapshot of   *)
(* monitoring evidence is what the ladder distinguishes about it, and a    *)
(* digest is the tuple it hashes.                                          *)
(***************************************************************************)
EXTENDS Integers, FiniteSets

CONSTANTS Actors,        \* [subject, authenticated]: who calls
          Keys,          \* idempotency keys
          Targets,       \* monitoring status URLs that parse_and_validate_status_url takes
          Long,          \* the subjects among them of more than 200 characters
          Untrimmed,     \* the subjects and targets that begin or end with a space
          Declarations,  \* [window : BOOLEAN, target : Targets or NoTarget]
          Evidence,      \* monitoring snapshots: [verified, fresh, readable, active]
          Coverages,     \* rollback coverage: [run, flags, attempt_failed, phases, observed]
          Inventories,   \* [recurrence, domain, gaps, forecast]: improvement sources
          Sessions,
          MaxStamp,      \* bound on created_at
          MAX_IDEMPOTENCY_RACE_RETRIES

NoTarget == "no_target"
NoCitation == "none"
NoWindow == 0
UnknownWindow == -1
GATE10_FLAGS == {"scope_resolved", "core_present", "core_reaudited", "repo_binding_agreed",
                 "staging_target_valid", "staging_snapshot_present",
                 "staging_snapshot_available", "staging_snapshot_fresh", "artifact_trusted",
                 "binding_current", "phase_coverage_complete", "evidence_consistent",
                 "drill_passed", "gate_eligible"}

\* What the proofs assume of the constants: the bounds are numbers, what is
\* declared, observed and forecast has the columns the ladders read, and a label
\* that stands in for a principal was stripped and bounded (validate_actor_label).
Parameters ==
    /\ MaxStamp \in Nat /\ MAX_IDEMPOTENCY_RACE_RETRIES \in Nat
    /\ \A a \in Actors : /\ a.authenticated \in BOOLEAN
                         /\ ~a.authenticated => a.subject \notin Long \cup Untrimmed
    /\ NoTarget \notin Untrimmed
    /\ Declarations \subseteq [window : BOOLEAN, target : Targets \cup {NoTarget}]
    /\ Evidence \subseteq [verified : BOOLEAN, fresh : BOOLEAN, readable : BOOLEAN,
                           active : BOOLEAN]
    /\ \A c \in Coverages : c.run \in BOOLEAN
    /\ Inventories \subseteq [recurrence : Nat, domain : BOOLEAN, gaps : Int,
                              forecast : BOOLEAN]

VARIABLES declaration, \* file 22: operations_observability_support
          monitoring,  \* the latest snapshots of the targets
          coverage,    \* what coverage_with_run answers
          inventory,   \* recurring incidents, domain pack, findings, forecast
          handovers,   \* committed ops_support_handovers
          windows,     \* committed ops_stabilization_windows with their children
          attempts,    \* committed closure attempts
          stops,       \* committed emergency_stop_events: [stamp, active]
          projectRow,  \* sessions holding the project row FOR UPDATE
          stamp,       \* the last created_at drawn
          session

vars == <<declaration, monitoring, coverage, inventory, handovers, windows, attempts, stops,
          projectRow, stamp, session>>
world == <<declaration, monitoring, coverage, inventory>>

Statuses == {"passed", "failed", "not_observed", "not_evaluable"}
CriterionChild == [status : Statuses, cites : {NoCitation, "snapshot", "run", "handover"},
                   reason : {"fixed", "no_monitoring_declaration",
                             "monitoring_declared_but_no_evidence",
                             "monitoring_observed_unverified", "monitoring_evidence_stale",
                             "monitoring_evidence_unreadable", "monitoring_or_alerts_inactive",
                             "monitoring_active_app_derived_not_db_provable",
                             "no_rollback_run", "rollback_path_not_current",
                             "rollback_currency_app_derived_not_db_provable",
                             "no_handover_record", "handover_recorded_complete",
                             "handover_recorded_incomplete"}]
ImprovementChild == [observed : BOOLEAN, cites : {NoCitation, "findings", "forecast"},
                     metric : Int]
Handover == [stamp : 1..MaxStamp, complete : BOOLEAN, authenticated : BOOLEAN]
OpsStabilizationWindow ==
    [key : Keys, target : Targets \cup {NoTarget}, extends : -1..MaxStamp,
     digest : [extends : -1..MaxStamp, assessor : Actors], assessor : Actors,
     criteria : [1..8 -> CriterionChild], improvements : [1..8 -> ImprovementChild],
     handover : SUBSET Handover, counters : [Statuses -> 0..8], stamp : 1..MaxStamp]
CLOSURE_RESULTS == {"refused_latch_active", "refused_unauthenticated", "refused_same_actor",
                    "refused_incomplete_criteria"}
ClosureAttempt == [window : 1..MaxStamp, code : CLOSURE_RESULTS, stamp : 1..MaxStamp]

View == [declaration |-> declaration, monitoring |-> monitoring, coverage |-> coverage,
         inventory |-> inventory, handovers |-> handovers, windows |-> windows]

Idle == [op |-> "idle", actor |-> CHOOSE a \in Actors : TRUE, key |-> "", extends |-> NoWindow,
         attempt |-> 0, seen |-> {}, row |-> {}]

Init ==
    /\ declaration \in Declarations
    /\ monitoring = [t \in Targets |-> {}]
    /\ coverage \in Coverages
    /\ inventory \in Inventories
    /\ handovers = {}
    /\ windows = {}
    /\ attempts = {}
    /\ stops = {}
    /\ projectRow = {}
    /\ stamp = 0
    /\ session = [s \in Sessions |-> Idle]

-----------------------------------------------------------------------------
\* The criteria.  Seq 5 is the only one that can pass.
Child(status, reason, cites) == [status |-> status, reason |-> reason, cites |-> cites]

evaluate_monitoring_criterion(target, snapshots) ==
    IF target = NoTarget THEN Child("not_observed", "no_monitoring_declaration", NoCitation)
    ELSE IF snapshots = {}
      THEN Child("not_observed", "monitoring_declared_but_no_evidence", NoCitation)
    ELSE LET e == CHOOSE e \in snapshots : TRUE
         IN  CASE ~e.verified -> Child("failed", "monitoring_observed_unverified", "snapshot")
               [] e.verified /\ ~e.fresh -> Child("failed", "monitoring_evidence_stale", "snapshot")
               [] e.verified /\ e.fresh /\ ~e.readable ->
                    Child("not_evaluable", "monitoring_evidence_unreadable", "snapshot")
               [] e.verified /\ e.fresh /\ e.readable /\ ~e.active ->
                    Child("failed", "monitoring_or_alerts_inactive", "snapshot")
               [] OTHER -> Child("not_evaluable",
                                 "monitoring_active_app_derived_not_db_provable", "snapshot")

\* The conjunction of gate 10, which the hotfix and stabilization slices repeat.
gate10_conjunction_passed(c) ==
    /\ GATE10_FLAGS \subseteq c.flags
    /\ c.run /\ ~c.attempt_failed
    /\ c.observed = "connector_observed_ci"
    /\ c.phases = 5

evaluate_rollback_criterion(c) ==
    IF ~c.run THEN Child("not_observed", "no_rollback_run", NoCitation)
    ELSE IF ~gate10_conjunction_passed(c) THEN Child("failed", "rollback_path_not_current", "run")
    ELSE Child("not_evaluable", "rollback_currency_app_derived_not_db_provable", "run")

latest_handover(rows) == {h \in rows : \A x \in rows : x.stamp <= h.stamp}

evaluate_handover_criterion(rows) ==
    IF rows = {} THEN Child("not_observed", "no_handover_record", NoCitation)
    ELSE IF \E h \in latest_handover(rows) : h.complete
      THEN Child("passed", "handover_recorded_complete", "handover")
    ELSE Child("failed", "handover_recorded_incomplete", "handover")

\* Seq 1 and 2 cannot be evaluated, 6 to 8 have no source.
fixed_criterion(seq) ==
    Child(IF seq \in {1, 2} THEN "not_evaluable" ELSE "not_observed", "fixed", NoCitation)

assemble_criteria(v) ==
    [seq \in 1..8 |->
        CASE seq = 3 -> evaluate_monitoring_criterion(v.declaration.target,
                            IF v.declaration.target = NoTarget THEN {}
                            ELSE v.monitoring[v.declaration.target])
          [] seq = 4 -> evaluate_rollback_criterion(v.coverage)
          [] seq = 5 -> evaluate_handover_criterion(v.handovers)
          [] OTHER   -> fixed_criterion(seq)]

assemble_improvements(i) ==
    LET row(observed, cites, metric) ==
          [observed |-> observed, cites |-> cites, metric |-> metric]
    IN  [seq \in 1..8 |->
           CASE seq = 2 -> row(TRUE, NoCitation, i.recurrence)
             [] seq = 5 -> row(i.domain, NoCitation, -1)
             [] seq = 6 -> row(i.gaps >= 0, IF i.gaps >= 0 THEN "findings" ELSE NoCitation, i.gaps)
             [] seq = 7 -> row(i.forecast, IF i.forecast THEN "forecast" ELSE NoCitation, -1)
             [] OTHER   -> row(FALSE, NoCitation, -1)]

compute_status_counters(criteria) ==
    [st \in Statuses |-> Cardinality({seq \in 1..8 : criteria[seq].status = st})]

-----------------------------------------------------------------------------
\* The checks and triggers of migration 0058, on a window row w written in a
\* transaction that sees v.
CriterionCheck(seq, c) ==
    /\ c.status = "passed" => seq = 5
    /\ seq \in {1, 2} => c.status = "not_evaluable" /\ c.cites = NoCitation
    /\ seq \in 6..8 => c.status = "not_observed" /\ c.cites = NoCitation
    /\ seq = 3 =>
         c.cites = IF c.reason \in {"no_monitoring_declaration",
                                    "monitoring_declared_but_no_evidence"}
                   THEN NoCitation ELSE "snapshot"
    /\ seq = 4 => c.cites = IF c.reason = "no_rollback_run" THEN NoCitation ELSE "run"
    /\ seq = 5 => <<c.status, c.reason, c.cites>> \in
         {<<"not_observed", "no_handover_record", NoCitation>>,
          <<"passed", "handover_recorded_complete", "handover">>,
          <<"failed", "handover_recorded_incomplete", "handover">>}

ImprovementCheck(seq, c) ==
    /\ seq \in {1, 3, 4, 8} => ~c.observed
    /\ seq = 2 => c.observed /\ c.metric >= 0
    /\ seq = 6 => /\ c.observed = (c.cites = "findings")
                  /\ c.observed = (c.metric >= 0)
    /\ seq = 7 => c.observed = (c.cites = "forecast")
    /\ seq \notin {6, 7} => c.cites = NoCitation

TargetGuard(w, v) == w.target # NoTarget => v.declaration.target = w.target

\* assessor_subject and monitoring_target_ref are trimmed, and the subject has at
\* most 200 characters; assessor_identity passes a principal on as it is.
ColumnCheck(w) ==
    /\ w.assessor.subject \notin Long \cup Untrimmed
    /\ w.target \notin Untrimmed

ExtendsGuard(w, v) == w.extends # NoWindow => \E p \in v.windows : p.stamp = w.extends

\* Seq 3 cites a snapshot of the window's target, a passing seq 5 the latest
\* handover.
CriterionGuard(w, v) ==
    /\ w.criteria[3].cites = "snapshot" =>
         w.target # NoTarget /\ v.monitoring[w.target] # {}
    /\ w.criteria[5].status = "passed" =>
         \E h \in w.handover : h.complete /\ \A x \in v.handovers : x.stamp <= h.stamp

\* The deferred tallies over the eight criteria and the eight improvements.
CountMatch(w) ==
    /\ \A st \in Statuses :
         w.counters[st] = Cardinality({seq \in 1..8 : w.criteria[seq].status = st})
    /\ w.counters["passed"] < 8

-----------------------------------------------------------------------------
Start(s, a, k, x) ==
    session' = [session EXCEPT ![s] =
      [op |-> "assessing", actor |-> a, key |-> k, extends |-> x, attempt |-> 1,
       seen |-> {View}, row |-> {}]]

Settle(s) == session' = [session EXCEPT ![s] = Idle]
Seen(s) == CHOOSE v \in session[s].seen : TRUE

Draw == stamp < MaxStamp /\ stamp' = stamp + 1

\* Writers of a row that refers to the project hold it FOR KEY SHARE until
\* they commit.
ProjectShared == \E s \in Sessions : session[s].op = "written"

request_digest(x, actor) == [extends |-> x, assessor |-> actor]

\* extends_window_id is whatever the caller names.
AssessBegin(s, a, k, x) ==
    /\ session[s].op = "idle"
    /\ x \in {NoWindow, UnknownWindow} \cup {w.stamp : w \in windows}
    /\ Start(s, a, k, x)
    /\ UNCHANGED <<world, handovers, windows, attempts, stops, projectRow, stamp>>

\* resolve_declared_stabilization_window finds no valid declaration.
AssessUndeclared(s) ==
    /\ session[s].op = "assessing"
    /\ ~Seen(s).declaration.window
    /\ Settle(s)
    /\ UNCHANGED <<world, handovers, windows, attempts, stops, projectRow, stamp>>

WindowRow(s, v) ==
    LET criteria == assemble_criteria(v)
    IN  [key |-> session[s].key, target |-> v.declaration.target, extends |-> session[s].extends,
         digest |-> request_digest(session[s].extends, session[s].actor),
         assessor |-> session[s].actor, criteria |-> criteria,
         improvements |-> assemble_improvements(v.inventory),
         handover |-> latest_handover(v.handovers),
         counters |-> compute_status_counters(criteria), stamp |-> stamp + 1]

\* ON CONFLICT DO NOTHING on (tenant, project, idempotency_key) waits for an
\* inserter of the same key, and sees the committed rows, not the snapshot.
KeyTaken(k) == \E w \in windows : w.key = k
KeyInFlight(s, k) ==
    \E t \in Sessions \ {s} : session[t].op = "written" /\ session[t].key = k

\* A variant whose triggers see what is committed, as in READ COMMITTED.
TriggerViewCommitted(s) == View

\* What the triggers of the inserts see: the snapshot.
TriggerView(s) == Seen(s)

\* What is refused of the window's row itself, before a key is even compared.
RowAccepted(w, v) == ColumnCheck(w) /\ TargetGuard(w, v) /\ ExtendsGuard(w, v)

Accepted(w, v) ==
    /\ \A seq \in 1..8 : CriterionCheck(seq, w.criteria[seq])
    /\ \A seq \in 1..8 : ImprovementCheck(seq, w.improvements[seq])
    /\ CriterionGuard(w, v)

\* The insert of the window comes to its key.
AssessArrives(s) ==
    /\ session[s].op = "assessing"
    /\ Seen(s).declaration.window
    /\ RowAccepted(WindowRow(s, Seen(s)), TriggerView(s))

\* ops_stabilization_windows_guard or a check ends the transaction, which is not
\* retried.
AssessRefused(s) ==
    /\ session[s].op = "assessing"
    /\ Seen(s).declaration.window
    /\ ~RowAccepted(WindowRow(s, Seen(s)), TriggerView(s))
    /\ session' = [session EXCEPT ![s].op = "refused"]
    /\ UNCHANGED <<world, handovers, windows, attempts, stops, projectRow, stamp>>

\* _try_insert_window and _insert_children.
AssessInsert(s) ==
    LET w == WindowRow(s, Seen(s))
    IN  /\ AssessArrives(s)
        /\ ~KeyTaken(session[s].key) /\ ~KeyInFlight(s, session[s].key)
        /\ projectRow = {}
        /\ Draw
        /\ session' = [session EXCEPT
             ![s].op = IF Accepted(w, TriggerView(s)) THEN "written" ELSE "refused",
             ![s].row = {w}]
        /\ UNCHANGED <<world, handovers, windows, attempts, stops, projectRow>>

AssessCommit(s) ==
    /\ session[s].op = "written"
    /\ \A w \in session[s].row : CountMatch(w)
    /\ windows' = windows \cup session[s].row
    /\ Settle(s)
    /\ UNCHANGED <<world, handovers, attempts, stops, projectRow, stamp>>

AssessFails(s) ==
    /\ session[s].op \in {"written", "refused"}
    /\ Settle(s)
    /\ UNCHANGED <<world, handovers, windows, attempts, stops, projectRow, stamp>>

AssessLost(s) ==
    /\ AssessArrives(s)
    /\ KeyTaken(session[s].key)

\* The winner is visible: it is returned if its digest matches, else the call
\* is refused.
AssessReplay(s) ==
    /\ AssessLost(s)
    /\ \E w \in Seen(s).windows : w.key = session[s].key
    /\ Settle(s)
    /\ UNCHANGED <<world, handovers, windows, attempts, stops, projectRow, stamp>>

\* A variant that tries again in the transaction that lost.
RetryInSameSnapshot(s) == session' = [session EXCEPT ![s].attempt = @ + 1]

\* _retry: the assessment starts over in a new transaction.
Retry(s) ==
    /\ session[s].attempt < MAX_IDEMPOTENCY_RACE_RETRIES
    /\ session' = [session EXCEPT ![s].attempt = @ + 1, ![s].seen = {View}]

AssessCollide(s) ==
    /\ AssessLost(s)
    /\ ~ \E w \in Seen(s).windows : w.key = session[s].key
    /\ Retry(s)
    /\ UNCHANGED <<world, handovers, windows, attempts, stops, projectRow, stamp>>

-----------------------------------------------------------------------------
LatestWindow == CHOOSE w \in windows : \A x \in windows : x.stamp <= w.stamp
StopActive == \E e \in stops : e.active /\ \A x \in stops : x.stamp <= e.stamp

closure_result(latched, actor, w) ==
    CASE latched -> "refused_latch_active"
      [] ~latched /\ ~actor.authenticated -> "refused_unauthenticated"
      [] ~latched /\ actor.authenticated /\ w.assessor = actor -> "refused_same_actor"
      [] OTHER -> "refused_incomplete_criteria"

\* A variant that takes no lock.
NoProjectLock(s) == UNCHANGED projectRow

\* lock_project_row: FOR UPDATE waits for every writer that holds the row.
lock_project_row(s) ==
    /\ projectRow = {}
    /\ ~ProjectShared
    /\ projectRow' = {s}

\* The lock, the latest window and the latch.
ClosureBegin(s, a) ==
    /\ session[s].op = "idle"
    /\ windows # {}
    /\ lock_project_row(s)
    /\ session' = [session EXCEPT ![s] =
         [Idle EXCEPT !.op = "closing", !.actor = a,
                      !.row = {[window |-> LatestWindow.stamp,
                                code |-> closure_result(StopActive, a, LatestWindow)]}]]
    /\ UNCHANGED <<world, handovers, windows, attempts, stops, stamp>>

ClosureRecord(s) ==
    /\ session[s].op = "closing"
    /\ Draw
    /\ attempts' = attempts \cup
         {[window |-> r.window, code |-> r.code, stamp |-> stamp + 1] : r \in session[s].row}
    /\ projectRow' = projectRow \ {s}
    /\ Settle(s)
    /\ UNCHANGED <<world, handovers, windows, stops>>

\* An emergency stop event: written and committed under the project row.
StopEvent(active) ==
    /\ projectRow = {}
    /\ ~ProjectShared
    /\ active # StopActive
    /\ Draw
    /\ stops' = stops \cup {[stamp |-> stamp + 1, active |-> active]}
    /\ UNCHANGED <<world, handovers, windows, attempts, projectRow, session>>

validate_handover(a, by) ==
    /\ by \notin Long
    /\ a.authenticated => by = a.subject

record_handover(a, by, complete) ==
    /\ validate_handover(a, by)
    /\ projectRow = {}
    /\ Draw
    /\ handovers' = handovers \cup
         {[stamp |-> stamp + 1, complete |-> complete, authenticated |-> a.authenticated]}
    /\ UNCHANGED <<world, windows, attempts, stops, projectRow, session>>

\* External: intake re-declares file 22, connectors record evidence.
Declare(d) ==
    /\ d # declaration
    /\ declaration' = d
    /\ UNCHANGED <<monitoring, coverage, inventory, handovers, windows, attempts, stops,
                   projectRow, stamp, session>>

Observe(t, e) ==
    /\ monitoring[t] # {e}
    /\ monitoring' = [monitoring EXCEPT ![t] = {e}]
    /\ UNCHANGED <<declaration, coverage, inventory, handovers, windows, attempts, stops,
                   projectRow, stamp, session>>

Next ==
    \/ \E s \in Sessions :
         \/ \E a \in Actors, k \in Keys, x \in -1..MaxStamp : AssessBegin(s, a, k, x)
         \/ AssessUndeclared(s) \/ AssessRefused(s) \/ AssessInsert(s)
         \/ AssessCommit(s) \/ AssessFails(s)
         \/ AssessReplay(s) \/ AssessCollide(s)
         \/ \E a \in Actors : ClosureBegin(s, a)
         \/ ClosureRecord(s)
    \/ \E active \in BOOLEAN : StopEvent(active)
    \/ \E a \in Actors, by \in {x.subject : x \in Actors}, complete \in BOOLEAN :
         record_handover(a, by, complete)
    \/ \E d \in Declarations : Declare(d)
    \/ \E t \in Targets, e \in Evidence : Observe(t, e)

Spec == Init /\ [][Next]_vars

-----------------------------------------------------------------------------
\* Every variable has its type.
TypeOK ==
    /\ declaration \in Declarations
    /\ handovers \subseteq Handover
    /\ attempts \subseteq ClosureAttempt
    /\ \A w \in windows : w \in OpsStabilizationWindow
    /\ \A e \in stops : e.stamp \in 1..MaxStamp /\ e.active \in BOOLEAN
    /\ projectRow \subseteq Sessions /\ Cardinality(projectRow) <= 1
    /\ stamp \in 0..MaxStamp

\* What a caller may bring that no column takes: a window that is none of the
\* project, a principal's subject too long or untrimmed, an untrimmed URL in the
\* declaration.
BroughtMisfit(s) ==
    \/ session[s].extends = UnknownWindow
    \/ session[s].actor.subject \in Long \cup Untrimmed
    \/ Seen(s).declaration.target \in Untrimmed

\* Of what an assessment derives, the triggers and checks its own migration
\* installed refuse nothing, although declaration, evidence, windows and handover
\* change under it: it is refused for what the caller brought and for nothing
\* else, and then always (stabilization_criteria.py agrees with
\* stabilization_db_checks.py and stabilization_ddl.py, and both look at one
\* snapshot; assess checks none of what it is given against the columns).
AssessmentFitsGuards ==
    \A s \in Sessions :
        /\ session[s].op = "refused" => BroughtMisfit(s)
        /\ session[s].op = "written" =>
             ~BroughtMisfit(s) /\ \A w \in session[s].row : CountMatch(w)

\* A closure attempt names the emergency latch whenever the newest stop event
\* created before it engages the stop, and never otherwise: an attempt and an
\* engagement cannot miss each other (ops_stabilization.py, attempt_closure).
ClosureNamesLatch ==
    \A c \in attempts :
        LET before == {e \in stops : e.stamp < c.stamp}
        IN  (c.code = "refused_latch_active") =
              (\E e \in before : e.active /\ \A x \in before : x.stamp <= e.stamp)

\* An assessment that lost its key settles on the second attempt, with the
\* winner's window or the refusal of its digest
\* (stabilization_service.py, _retry).
SecondAssessmentSettles ==
    \A s \in Sessions : session[s].op = "assessing" => session[s].attempt <= 2
=============================================================================
