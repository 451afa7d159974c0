---------------------------- MODULE OpsIncidents ----------------------------
(***************************************************************************)
(* Post-launch incidents and hotfix intents (slices 57 and 58).            *)
(*                                                                         *)
(* The incident services run in REPEATABLE READ: a transaction decides on  *)
(* the snapshot of its first statement and its writes meet the committed   *)
(* rows only when it inserts or updates.  A conflict (40001, or a winner   *)
(* of the same key that the snapshot cannot show) is retried in a fresh    *)
(* transaction, a unique violation (23505) is not.  The hotfix service     *)
(* runs in READ COMMITTED and holds the project row against the emergency  *)
(* stop, but not the incident row.                                         *)
(*                                                                         *)
(* An incident is named by its idempotency key, a policy by the decisions  *)
(* it gives, a digest by what it hashes.  created_at columns are drawn     *)
(* from one counter in insertion order.                                    *)
(***************************************************************************)
EXTENDS Integers, FiniteSets, Sequences

CONSTANTS Incidents,   \* idempotency keys, each naming the incident it opens
          Payloads,    \* request digests
          Policies,    \* [MatrixActions -> Decisions], the project's policy rows
          Contexts,    \* release contexts: [covered, bound, authorized]
          HotfixKeys,  \* idempotency keys of hotfix evaluations
          Sessions,
          MaxStamp,    \* bound on created_at
          MaxEvents,   \* bound on the events of one incident
          MAX_IDEMPOTENCY_RACE_RETRIES

MatrixActions == {"create_project_tasks", "create_branches", "open_pull_requests",
                  "deploy_staging", "deploy_production"}
Decisions == {"allow", "deny", "needs_approval"}

STATUSES == {"open", "investigating", "mitigated", "resolved", "superseded"}
TERMINAL_STATUSES == {"resolved", "superseded"}

_TRANSITIONS == {<<"open", "investigating">>, <<"investigating", "mitigated">>,
                 <<"mitigated", "resolved">>, <<"mitigated", "superseded">>}

NoPlan == "none"

\* What the proofs assume of the constants: the bounds are numbers, a policy row
\* decides each action, and a context says what it covers.
Parameters ==
    /\ MaxStamp \in Nat /\ MaxEvents \in Nat /\ MAX_IDEMPOTENCY_RACE_RETRIES \in Nat
    /\ Policies \subseteq [MatrixActions -> Decisions]
    /\ Contexts \subseteq [covered : BOOLEAN, bound : BOOLEAN, authorized : BOOLEAN]

VARIABLES policy,      \* the project's autonomy policy
          context,     \* the current release context of the project
          incidents,   \* committed ops_incidents
          events,      \* the ops_incident_events of each incident, in order
          tickets,     \* committed ops_incident_tickets
          evaluations, \* committed evaluations, each with its seven results
          hotfixes,    \* committed ops_self_healing_runs with results and plans
          stops,       \* committed emergency_stop_events: [stamp, active]
          projectRow,  \* sessions holding the project row FOR UPDATE
          stamp,       \* the last created_at drawn
          session

vars == <<policy, context, incidents, events, tickets, evaluations, hotfixes, stops,
          projectRow, stamp, session>>

OpsIncident == [id : Incidents, digest : Payloads, status : STATUSES]
OpsIncidentTicket == [incident : Incidents, stamp : 1..MaxStamp]
ActionChild == [decision : Decisions \cup {"not_evaluated"}, ticketed : BOOLEAN,
                reason : {"ticket_written", "ticket_denied_by_policy", "no_log_source",
                          "deferred_slice58", "production_not_executed"}]
OpsIncidentActionEvaluation ==
    [incident : Incidents, policy : Policies, children : [1..7 -> ActionChild],
     tickets : SUBSET OpsIncidentTicket]
OpsHotfixPlan == {"patch_branch", "hotfix_pr"}
HotfixChild == [decision : Decisions, plan : OpsHotfixPlan \cup {NoPlan}]
OpsSelfHealingRun ==
    [incident : Incidents, key : HotfixKeys, policy : Policies,
     children : [3..7 -> HotfixChild], plans : SUBSET OpsHotfixPlan, stamp : 1..MaxStamp,
     context : [covered : BOOLEAN, bound : BOOLEAN, authorized : BOOLEAN]]

EventTypes == {"opened", "actions_evaluated", "log_diagnosis_unavailable"} \cup (STATUSES \ {"open"})

Nothing == CHOOSE p \in Policies : TRUE
Idle == [op |-> "idle", id |-> "", arg |-> "", attempt |-> 0, active |-> FALSE,
         seen |-> [policy |-> Nothing, incidents |-> {}, tickets |-> {}]]

Init ==
    /\ policy \in Policies
    /\ context \in Contexts
    /\ incidents = {}
    /\ events = [i \in Incidents |-> <<>>]
    /\ tickets = {}
    /\ evaluations = {}
    /\ hotfixes = {}
    /\ stops = {}
    /\ projectRow = {}
    /\ stamp = 0
    /\ session = [s \in Sessions |-> Idle]

-----------------------------------------------------------------------------
\* The seven prescriptions.  Only the ticket of seq 1 is ever executed.
evaluate_actions(p) ==
    LET child(d, r, t) == [decision |-> d, reason |-> r, ticketed |-> t]
        tasks == p["create_project_tasks"]
    IN  [seq \in 1..7 |->
           CASE seq = 1 -> IF tasks = "allow"
                             THEN child(tasks, "ticket_written", TRUE)
                             ELSE child(tasks, "ticket_denied_by_policy", FALSE)
             [] seq = 2 -> child("not_evaluated", "no_log_source", FALSE)
             [] seq = 3 -> child(p["create_branches"], "deferred_slice58", FALSE)
             [] seq = 4 -> child(p["open_pull_requests"], "deferred_slice58", FALSE)
             [] seq = 5 -> child(p["deploy_staging"], "deferred_slice58", FALSE)
             [] OTHER   -> child(p["deploy_production"], "production_not_executed", FALSE)]

ticket_should_exist(children) == children[1].decision = "allow"

\* The CHECK constraint posture_by_action of the results.
PostureCheck(seq, c) ==
    /\ seq = 1 => c.ticketed = (c.decision = "allow")
    /\ seq = 1 => c.reason = IF c.decision = "allow" THEN "ticket_written"
                             ELSE "ticket_denied_by_policy"
    /\ (seq = 2) = (c.decision = "not_evaluated")

\* Only the first result refers to a ticket.
ActionResultCheck(seq, c) ==
    /\ PostureCheck(seq, c)
    /\ seq # 1 => ~c.ticketed

\* ops_incident_action_evaluations_count_match: seven results, at the commit.
SevenChildren(e) == DOMAIN e.children = 1..7

\* Policy precedence first; a pull-request plan needs the branch plan.
evaluate_hotfix_actions(p) ==
    LET written(kind, ok) == IF ok THEN kind ELSE NoPlan
        branch == p["create_branches"] = "allow"
        child(d, plan) == [decision |-> d, plan |-> plan]
    IN  [seq \in 3..7 |->
           CASE seq = 3 -> child(p["create_branches"], written("patch_branch", branch))
             [] seq = 4 -> child(p["open_pull_requests"],
                                 written("hotfix_pr",
                                         branch /\ p["open_pull_requests"] = "allow"))
             [] seq = 5 -> child(p["deploy_staging"], NoPlan)
             [] OTHER   -> child(p["deploy_production"], NoPlan)]

\* _insert_plans: the local plans a run writes, one per kind.
HotfixPlans(children) == {children[3].plan, children[4].plan} \ {NoPlan}

\* posture_by_action of migration 0057.
HotfixPostureCheck(children) ==
    /\ (children[3].plan = "patch_branch") = (children[3].decision = "allow")
    /\ children[4].plan = "hotfix_pr" => children[4].decision = "allow"
    /\ \A seq \in 5..7 : children[seq].plan = NoPlan

\* A result cites a plan of its own run, and no result a plan that is missing.
PlanCited(run) == {run.children[seq].plan : seq \in 3..7} \ {NoPlan} = run.plans

\* Every child decides as the run's decision_snapshot does; a pull-request plan
\* comes with the branch plan; five children.
HotfixTriggers(run) ==
    /\ run.children[3].decision = run.policy["create_branches"]
    /\ run.children[4].decision = run.policy["open_pull_requests"]
    /\ run.children[5].decision = run.policy["deploy_staging"]
    /\ \A seq \in 6..7 : run.children[seq].decision = run.policy["deploy_production"]
    /\ "hotfix_pr" \in run.plans => "patch_branch" \in run.plans
    /\ DOMAIN run.children = 3..7

incident_is_evaluable(status) == status \notin TERMINAL_STATUSES

\* The rows of the current release a hotfix run cites: the authorization only
\* under its binding.
current_context_fks(c) ==
    [covered |-> c.covered, bound |-> c.bound, authorized |-> c.bound /\ c.authorized]

-----------------------------------------------------------------------------
Committed == [policy |-> policy, incidents |-> incidents, tickets |-> tickets]
Row(rows, i) == CHOOSE r \in rows : r.id = i
Known(rows, i) == \E r \in rows : r.id = i

Start(s, op, i, arg) ==
    /\ session[s].op = "idle"
    /\ session' = [session EXCEPT ![s] =
         [op |-> op, id |-> i, arg |-> arg, attempt |-> 1, active |-> FALSE,
          seen |-> Committed]]

Settle(s) == session' = [session EXCEPT ![s] = Idle]

\* A variant that tries again in the transaction that lost.
RetryInSameSnapshot(s) == session' = [session EXCEPT ![s].attempt = @ + 1]

\* _retry: the operation starts over in a new transaction.
Retry(s) ==
    /\ session[s].attempt < MAX_IDEMPOTENCY_RACE_RETRIES
    /\ session' = [session EXCEPT ![s].attempt = @ + 1, ![s].seen = Committed]

\* The foreign key of an inserted row takes FOR KEY SHARE on the project row.
ProjectShareable == projectRow = {}

Draw(n) ==
    /\ stamp + n <= MaxStamp
    /\ stamp' = stamp + n

\* _append_event.
Logged(i, kind) ==
    /\ Len(events[i]) < MaxEvents
    /\ events' = [events EXCEPT ![i] = Append(@, kind)]

\* A variant that reads the decisions as they stand at the insert.
DecisionsReadLast(s) == policy

\* load_policy_decisions: one statement per gated action.
load_policy_decisions(s) == session[s].seen.policy

\* load_policy_snapshot: the row whose digest the evaluation records.
load_policy_snapshot(s) == session[s].seen.policy

\* insert_evaluation, with its seven children and the ticket seq 1 cites.
Evaluation(s, i, ticket) ==
    LET children == evaluate_actions(load_policy_decisions(s))
    IN  [incident |-> i, policy |-> load_policy_snapshot(s), children |-> children,
         tickets |-> IF ticket_should_exist(children) THEN ticket ELSE {}]

-----------------------------------------------------------------------------
OpenBegin(s, i, d) ==
    /\ Start(s, "open", i, d)
    /\ UNCHANGED <<policy, context, incidents, events, tickets, evaluations, hotfixes,
                   stops, projectRow, stamp>>

\* The key is visible: the recorded incident is returned, or the call refused
\* because the key was used for another payload.
OpenReplay(s) ==
    /\ session[s].op = "open"
    /\ Known(session[s].seen.incidents, session[s].id)
    /\ Settle(s)
    /\ UNCHANGED <<policy, context, incidents, events, tickets, evaluations, hotfixes,
                   stops, projectRow, stamp>>

\* uq_ops_incidents_idempotency under ON CONFLICT DO NOTHING.
IncidentKeyFree(i) == ~Known(incidents, i)

\* Incident, ticket, event, evaluation and audit row commit together.
Open(s) ==
    LET i == session[s].id
        ticket == {[incident |-> i, stamp |-> stamp + 1]}
        evaluation == Evaluation(s, i, ticket)
    IN  /\ session[s].op = "open"
        /\ ~Known(session[s].seen.incidents, i)
        /\ IncidentKeyFree(i)
        /\ SevenChildren(evaluation)
        /\ ProjectShareable
        /\ Draw(Cardinality(evaluation.tickets))
        /\ incidents' = incidents \cup {[id |-> i, digest |-> session[s].arg, status |-> "open"]}
        /\ tickets' = tickets \cup evaluation.tickets
        /\ Logged(i, "opened")
        /\ evaluations' = evaluations \cup {evaluation}
        /\ Settle(s)
        /\ UNCHANGED <<policy, context, hotfixes, stops, projectRow>>

OpenCollide(s) ==
    /\ session[s].op = "open"
    /\ ~Known(session[s].seen.incidents, session[s].id)
    /\ ~IncidentKeyFree(session[s].id)
    /\ Retry(s)
    /\ UNCHANGED <<policy, context, incidents, events, tickets, evaluations, hotfixes,
                   stops, projectRow, stamp>>

-----------------------------------------------------------------------------
validate_transition(from, to) == <<from, to>> \in _TRANSITIONS

TransitionBegin(s, i, to) ==
    /\ Known(incidents, i)
    /\ Start(s, "transition", i, to)
    /\ UNCHANGED <<policy, context, incidents, events, tickets, evaluations, hotfixes,
                   stops, projectRow, stamp>>

TransitionRefused(s) ==
    /\ session[s].op = "transition"
    /\ ~validate_transition(Row(session[s].seen.incidents, session[s].id).status,
                            session[s].arg)
    /\ Settle(s)
    /\ UNCHANGED <<policy, context, incidents, events, tickets, evaluations, hotfixes,
                   stops, projectRow, stamp>>

TransitionLegal(s) ==
    /\ session[s].op = "transition"
    /\ validate_transition(Row(session[s].seen.incidents, session[s].id).status,
                           session[s].arg)

SetStatus(i, to) ==
    /\ incidents' = (incidents \ {Row(incidents, i)})
                      \cup {[Row(incidents, i) EXCEPT !.status = to]}
    /\ Logged(i, to)

\* A variant in READ COMMITTED without the trigger: the update lands on
\* whatever row is there.
TransitionAsRead(s) ==
    /\ TransitionLegal(s)
    /\ SetStatus(session[s].id, session[s].arg)
    /\ Settle(s)
    /\ UNCHANGED <<policy, context, tickets, evaluations, hotfixes, stops, projectRow, stamp>>

\* The trigger of the UPDATE, on the committed row.
ops_incidents_guard(i, to) ==
    \/ Row(incidents, i).status = "open" /\ to = "investigating"
    \/ Row(incidents, i).status = "investigating" /\ to = "mitigated"
    \/ Row(incidents, i).status = "mitigated" /\ to \in TERMINAL_STATUSES

\* The UPDATE finds the row version its snapshot saw.
Transition(s) ==
    /\ TransitionLegal(s)
    /\ Row(incidents, session[s].id) = Row(session[s].seen.incidents, session[s].id)
    /\ ops_incidents_guard(session[s].id, session[s].arg)
    /\ SetStatus(session[s].id, session[s].arg)
    /\ Settle(s)
    /\ UNCHANGED <<policy, context, tickets, evaluations, hotfixes, stops, projectRow, stamp>>

\* Another transaction updated the row after the snapshot: 40001.
TransitionConflict(s) ==
    /\ TransitionLegal(s)
    /\ Row(incidents, session[s].id) # Row(session[s].seen.incidents, session[s].id)
    /\ Retry(s)
    /\ UNCHANGED <<policy, context, incidents, events, tickets, evaluations, hotfixes,
                   stops, projectRow, stamp>>

\* record_log_diagnosis_unavailable appends its event and changes nothing else.
LogDiagnosisUnavailable(i) ==
    /\ Known(incidents, i)
    /\ Logged(i, "log_diagnosis_unavailable")
    /\ UNCHANGED <<policy, context, incidents, tickets, evaluations, hotfixes, stops,
                   projectRow, stamp, session>>

-----------------------------------------------------------------------------
EvaluateBegin(s, i) ==
    /\ Known(incidents, i)
    /\ Start(s, "evaluate", i, "")
    /\ UNCHANGED <<policy, context, incidents, events, tickets, evaluations, hotfixes,
                   stops, projectRow, stamp>>

TicketOf(rows, i) == {t \in rows : t.incident = i}

\* The ticket evaluate_now would insert: none exists in its snapshot.
NewTicket(s) ==
    IF /\ ticket_should_exist(evaluate_actions(load_policy_decisions(s)))
       /\ TicketOf(session[s].seen.tickets, session[s].id) = {}
      THEN {[incident |-> session[s].id, stamp |-> stamp + 1]}
      ELSE {}

\* A variant of the table without the constraint.
TicketSlotUnchecked(i) == TRUE

\* uq_ops_incident_tickets_incident.
TicketSlotFree(i) == TicketOf(tickets, i) = {}

EvaluateNow(s) ==
    LET i == session[s].id
        evaluation == Evaluation(s, i, NewTicket(s) \cup TicketOf(session[s].seen.tickets, i))
    IN  /\ session[s].op = "evaluate"
        /\ SevenChildren(evaluation)
        /\ NewTicket(s) # {} => TicketSlotFree(i)
        /\ Draw(Cardinality(NewTicket(s)))
        /\ tickets' = tickets \cup NewTicket(s)
        /\ Logged(i, "actions_evaluated")
        /\ evaluations' = evaluations \cup {evaluation}
        /\ Settle(s)
        /\ UNCHANGED <<policy, context, incidents, hotfixes, stops, projectRow>>

\* Another evaluation wrote the ticket first: 23505 is not retried, and this
\* evaluation is lost.
EvaluateLost(s) ==
    /\ session[s].op = "evaluate"
    /\ NewTicket(s) # {}
    /\ ~TicketSlotFree(session[s].id)
    /\ Settle(s)
    /\ UNCHANGED <<policy, context, incidents, events, tickets, evaluations, hotfixes,
                   stops, projectRow, stamp>>

-----------------------------------------------------------------------------
StopHead == CHOOSE e \in stops : \A x \in stops : x.stamp <= e.stamp
StopActive == stops # {} /\ StopHead.active

\* A variant that reads the latch without holding the project row.
CheckedWithoutLock(s) ==
    /\ ~StopActive
    /\ UNCHANGED projectRow

\* assert_project_not_stopped: the project row FOR UPDATE, then the latch.
assert_project_not_stopped(s) ==
    /\ projectRow = {}
    /\ ~StopActive
    /\ projectRow' = {s}

\* The incident is read here and not held.
HotfixBegin(s, i, k) ==
    /\ assert_project_not_stopped(s)
    /\ Known(incidents, i)
    /\ incident_is_evaluable(Row(incidents, i).status)
    /\ Start(s, "hotfix", i, k)
    /\ UNCHANGED <<policy, context, incidents, events, tickets, evaluations, hotfixes,
                   stops, stamp>>

\* snapshot_decisions: one statement reads the policy for all its actions.
HotfixDecide(s) ==
    /\ session[s].op = "hotfix"
    /\ session' = [session EXCEPT ![s].op = "decided", ![s].seen.policy = policy]
    /\ UNCHANGED <<policy, context, incidents, events, tickets, evaluations, hotfixes,
                   stops, projectRow, stamp>>

\* uq on (tenant, project, incident, idempotency_key).
HotfixKeyFree(i, k) == ~ \E r \in hotfixes : r.incident = i /\ r.key = k

\* ops_self_healing_runs_guard: the committed latch at the insert.
HotfixLatchGuard == ~StopActive

\* The run with its plans and children, as it stands before the commit.
HotfixRun(s) ==
    LET children == evaluate_hotfix_actions(session[s].seen.policy)
    IN  [incident |-> session[s].id, key |-> session[s].arg,
         policy |-> session[s].seen.policy, children |-> children,
         plans |-> HotfixPlans(children),
         context |-> current_context_fks(context), stamp |-> stamp + 1]

HotfixRecord(s) ==
    LET run == HotfixRun(s)
    IN  /\ session[s].op = "decided"
        /\ HotfixKeyFree(run.incident, run.key)
        /\ HotfixLatchGuard
        /\ HotfixPostureCheck(run.children)
        /\ PlanCited(run)
        /\ HotfixTriggers(run)
        /\ Draw(1)
        /\ hotfixes' = hotfixes \cup {run}
        /\ projectRow' = projectRow \ {s}
        /\ Settle(s)
        /\ UNCHANGED <<policy, context, incidents, events, tickets, evaluations, stops>>

\* The winner of the key is committed and READ COMMITTED shows it.
HotfixReplay(s) ==
    /\ session[s].op = "decided"
    /\ ~HotfixKeyFree(session[s].id, session[s].arg)
    /\ projectRow' = projectRow \ {s}
    /\ Settle(s)
    /\ UNCHANGED <<policy, context, incidents, events, tickets, evaluations, hotfixes,
                   stops, stamp>>

-----------------------------------------------------------------------------
\* engage and release of the emergency stop, as far as the latch goes: the
\* event is inserted under the project row and seen once it commits.
StopInsert(s, active) ==
    /\ session[s].op = "idle"
    /\ projectRow = {}
    /\ active # StopActive
    /\ Draw(1)
    /\ projectRow' = {s}
    /\ session' = [session EXCEPT ![s] =
         [Idle EXCEPT !.op = "stop", !.active = active, !.attempt = stamp + 1]]
    /\ UNCHANGED <<policy, context, incidents, events, tickets, evaluations, hotfixes, stops>>

StopCommit(s) ==
    /\ session[s].op = "stop"
    /\ stops' = stops \cup {[stamp |-> session[s].attempt, active |-> session[s].active]}
    /\ projectRow' = projectRow \ {s}
    /\ Settle(s)
    /\ UNCHANGED <<policy, context, incidents, events, tickets, evaluations, hotfixes, stamp>>

\* External: the policy administration and the release move on.
SetPolicy(p) ==
    /\ p # policy
    /\ policy' = p
    /\ UNCHANGED <<context, incidents, events, tickets, evaluations, hotfixes, stops,
                   projectRow, stamp, session>>

SetContext(c) ==
    /\ c # context
    /\ context' = c
    /\ UNCHANGED <<policy, incidents, events, tickets, evaluations, hotfixes, stops,
                   projectRow, stamp, session>>

Next ==
    \/ \E s \in Sessions :
         \/ \E i \in Incidents :
              \/ \E d \in Payloads : OpenBegin(s, i, d)
              \/ \E to \in STATUSES : TransitionBegin(s, i, to)
              \/ EvaluateBegin(s, i)
              \/ \E k \in HotfixKeys : HotfixBegin(s, i, k)
         \/ OpenReplay(s) \/ Open(s) \/ OpenCollide(s)
         \/ TransitionRefused(s) \/ Transition(s) \/ TransitionConflict(s)
         \/ EvaluateNow(s) \/ EvaluateLost(s)
         \/ HotfixDecide(s) \/ HotfixRecord(s) \/ HotfixReplay(s)
         \/ \E active \in BOOLEAN : StopInsert(s, active)
         \/ StopCommit(s)
    \/ \E i \in Incidents : LogDiagnosisUnavailable(i)
    \/ \E p \in Policies : SetPolicy(p)
    \/ \E c \in Contexts : SetContext(c)

Spec == Init /\ [][Next]_vars

-----------------------------------------------------------------------------
\* Every variable has its type.
TypeOK ==
    /\ policy \in Policies
    /\ context \in Contexts
    /\ incidents \subseteq OpsIncident
    /\ \A i \in Incidents : events[i] \in Seq(EventTypes) /\ Len(events[i]) <= MaxEvents
    /\ tickets \subseteq OpsIncidentTicket
    /\ evaluations \subseteq OpsIncidentActionEvaluation
    /\ hotfixes \subseteq OpsSelfHealingRun
    /\ \A e \in stops : e.stamp \in 1..MaxStamp /\ e.active \in BOOLEAN
    /\ projectRow \subseteq Sessions /\ Cardinality(projectRow) <= 1
    /\ stamp \in 0..MaxStamp

\* Every evaluation prescribes what the policy it records decides, and what
\* the checks of migrations 0056 and 0057 accept, although policy row and
\* decisions are read by seven statements and the policy may change between
\* any two of them (ops_incidents.py, load_policy_snapshot and
\* load_policy_decisions; ops_hotfix.py, snapshot_decisions).
PrescribedUnderOnePolicy ==
    /\ \A e \in evaluations :
         /\ e.children[1].decision = e.policy["create_project_tasks"]
         /\ e.children[3].decision = e.policy["create_branches"]
         /\ e.children[4].decision = e.policy["open_pull_requests"]
         /\ e.children[5].decision = e.policy["deploy_staging"]
         /\ e.children[6].decision = e.policy["deploy_production"]
         /\ \A seq \in 1..7 : ActionResultCheck(seq, e.children[seq])
    /\ \A r \in hotfixes :
         /\ r.children[3].decision = r.policy["create_branches"]
         /\ r.children[4].plan # NoPlan =>
              r.policy["create_branches"] = "allow" /\ r.policy["open_pull_requests"] = "allow"

\* One bug ticket per incident, and every evaluation that prescribed one cites
\* exactly that ticket, however many evaluations found none and raced to write
\* it (ops_incidents.py, evaluate_now and open).
OneTicketCited ==
    /\ \A t, u \in tickets : t.incident = u.incident => t = u
    /\ \A e \in evaluations :
         e.children[1].ticketed =>
            /\ e.tickets # {}
            /\ e.tickets = TicketOf(tickets, e.incident)

\* The events of an incident that tell a status, and the status one tells.
Moves(i) == {n \in DOMAIN events[i] : events[i][n] \in STATUSES \cup {"opened"}}
At(i, n) == IF events[i][n] = "opened" THEN "open" ELSE events[i][n]

\* The event trail of an incident is the path its status took: every pair of
\* consecutive transition events is a legal transition and the last one is the
\* status stored, under racing transitions and their retries.
TrailTellsStatus ==
    \A r \in incidents :
        /\ \E n \in Moves(r.id) :
              (\A k \in Moves(r.id) : k <= n) /\ r.status = At(r.id, n)
        /\ \A n, k \in Moves(r.id) :
              n < k /\ (\A m \in Moves(r.id) : m <= n \/ k <= m) =>
                  validate_transition(At(r.id, n), At(r.id, k))

\* No hotfix run is recorded while the emergency stop is engaged: the newest
\* stop event created before the run is not an engaging one, also when the
\* event commits after the run (ops_hotfix.py, evaluate).
NoHotfixUnderStop ==
    \A r \in hotfixes :
        LET before == {e \in stops : e.stamp < r.stamp}
        IN  ~ \E e \in before : e.active /\ \A x \in before : x.stamp <= e.stamp

\* A retried incident operation settles on its second attempt: the fresh
\* snapshot shows the winner of the key, and a status is left by one move
\* only, so the bounded loop never ends in IncidentIdempotencyRace.
SecondAttemptSettles ==
    \A s \in Sessions : session[s].op \in {"open", "transition"} => session[s].attempt <= 2
=============================================================================
