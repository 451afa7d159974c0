--------------------------- MODULE AgentRegistry ---------------------------
(***************************************************************************)
(* Agents of one project: instances and their lifecycle                    *)
(* (app/agents/registry.py), realization, and qualification by a scored    *)
(* run and two sign-offs (app/repositories/agent_realizations.py and       *)
(* qualification.py).  Every session is a READ COMMITTED transaction: what *)
(* it read may be stale when it writes.                                    *)
(***************************************************************************)
EXTENDS Naturals, Sequences, FiniteSets

CONSTANTS
    Instances,       \* agent instances, all realized under one instance_key
    Runs,            \* the project runs an instance may be bound to
    CaseSets,        \* the sets of Case a qualification run may carry
    Eval,            \* archetype_evals row: min_cases, min_score (percent), zero_critical, required
    Sessions,
    MaxStamp,        \* bound: request times drawn
    MaxQualificationRuns

Roles == {"qa", "security"}
NoRun == "none"

\* What the proofs assume of the constants.
Parameters == MaxStamp \in Nat /\ MaxQualificationRuns \in Nat /\ NoRun \notin Runs

InstanceStatus == {"absent", "registered", "active", "suspended", "retired"}
AgentInstance == [status : InstanceStatus, active_run_id : Runs \cup {NoRun}]
RealizationStatus == {"absent", "unqualified", "qualified"}
Case == [category : {"positive", "negative", "edge", "adversarial", "incomplete"},
         passed : BOOLEAN, is_critical : BOOLEAN]
QualificationRun == [instance : Instances, verdict : {"passed", "failed"}]
SignOff == [run : 1..MaxQualificationRuns, role : Roles, requested_at : 1..MaxStamp,
            status : {"pending", "approved", "rejected"}]

VARIABLES
    instance,      \* agent_instances
    realization,   \* agent_realizations.qualification_status
    viaRun,        \* qualified_via_run_id, 0 before
    qruns,         \* qualification_runs, in commit order
    signoffs,      \* the committed approvals of qualification sign-offs
    session,       \* what each session is doing
    stamp          \* the last request time drawn

tables == <<instance, realization, viaRun, qruns, signoffs>>
vars == <<tables, session, stamp>>

Idle == [op |-> "idle"]
Jobs ==
    {Idle} \cup [op : {"lifecycle"}, instance : Instances, target : InstanceStatus, run : Runs,
                 seen : AgentInstance]
           \cup [op : {"signoffs"}, run : 1..MaxQualificationRuns, at : 1..MaxStamp,
                 missing : SUBSET Roles]
           \cup [op : {"qualify"}, instance : Instances, run : 1..MaxQualificationRuns]

TypeOK ==
    /\ instance \in [Instances -> AgentInstance]
    /\ realization \in [Instances -> RealizationStatus]
    /\ viaRun \in [Instances -> 0..MaxQualificationRuns]
    /\ qruns \in Seq(QualificationRun)
    /\ signoffs \subseteq SignOff
    /\ session \in [Sessions -> Jobs]
    /\ stamp \in 0..MaxStamp

Init ==
    /\ instance = [i \in Instances |-> [status |-> "absent", active_run_id |-> NoRun]]
    /\ realization = [i \in Instances |-> "absent"]
    /\ viaRun = [i \in Instances |-> 0]
    /\ qruns = <<>> /\ signoffs = {}
    /\ session = [s \in Sessions |-> Idle]
    /\ stamp = 0

-----------------------------------------------------------------------------
(* Instances and their lifecycle.                                           *)

\* uq_agent_instances_live_key: one of the instances of the key is live.
LiveStatuses == {"registered", "active", "suspended"}

\* An index that forgets the suspended.
KeyFreeOfActive(i) == \A k \in Instances \ {i} : instance[k].status \notin {"registered", "active"}

KeyFree(i) == \A k \in Instances \ {i} : instance[k].status \notin LiveStatuses

\* realize: the instance and its unqualified realization, one commit (the grants of
\* its tools are ToolBroker's).
Realize(i) ==
    /\ instance[i].status = "absent" /\ KeyFree(i)
    /\ instance' = [instance EXCEPT ![i].status = "registered"]
    /\ realization' = [realization EXCEPT ![i] = "unqualified"]
    /\ UNCHANGED <<viaRun, qruns, signoffs, session, stamp>>

\* bind_to_run, suspend, retire: the row as _require loads it.
LoadInstance(s, i, target, run) ==
    /\ session[s] = Idle
    /\ instance[i].status # "absent"
    /\ target = "active" => instance[i].active_run_id \in {NoRun, run}
    /\ session' = [session EXCEPT ![s] =
           [op |-> "lifecycle", instance |-> i, target |-> target, run |-> run,
            seen |-> instance[i]]]
    /\ UNCHANGED <<tables, stamp>>

\* The flush writes what the caller changed, whatever the trigger says.
RebindAccepted(i, run) == TRUE

\* agent_instances_block_rebind: active_run_id is set once.
RebindAllowed(i, run) == instance[i].active_run_id \in {NoRun, run}

\* The flush sends the columns whose value differs from the one loaded; the
\* live-key index and the rebind trigger may refuse them.
StoreInstance(s) ==
    LET j == session[s]
        newRun == IF j.target = "active" THEN j.run ELSE j.seen.active_run_id
        status == IF j.target # j.seen.status THEN j.target ELSE instance[j.instance].status
        run == IF newRun # j.seen.active_run_id THEN newRun ELSE instance[j.instance].active_run_id
    IN  /\ j.op = "lifecycle"
        /\ run # instance[j.instance].active_run_id => RebindAllowed(j.instance, run)
        /\ status \in LiveStatuses => KeyFree(j.instance)
        /\ instance' = [instance EXCEPT ![j.instance] = [status |-> status, active_run_id |-> run]]
        /\ session' = [session EXCEPT ![s] = Idle]
        /\ UNCHANGED <<realization, viaRun, qruns, signoffs, stamp>>

-----------------------------------------------------------------------------
(* Qualification.                                                           *)

\* expected_verdict over the recorded cases, mirrored by the generated column.
ExpectedVerdict(cases) ==
    LET passed == {c \in cases : c.passed}
    IN  IF /\ Cardinality(cases) >= Eval.min_cases
           /\ Cardinality(passed) * 100 >= Eval.min_score * Cardinality(cases)
           /\ Eval.zero_critical => \A c \in cases : c.is_critical => c.passed
           /\ Eval.required \subseteq {c.category : c \in cases}
        THEN "passed" ELSE "failed"

\* record_qualification_run: the run and its cases in one commit, whose deferred
\* trigger recounts the cases.
RecordQualificationRun(i, cases) ==
    /\ realization[i] # "absent"
    /\ Len(qruns) < MaxQualificationRuns
    /\ qruns' = Append(qruns, [instance |-> i, verdict |-> ExpectedVerdict(cases)])
    /\ UNCHANGED <<instance, realization, viaRun, signoffs, session, stamp>>

Of(r, role) == {o \in signoffs : o.run = r /\ o.role = role}
LatestSignOff(r, role) ==
    CHOOSE o \in Of(r, role) : \A p \in Of(r, role) : p.requested_at <= o.requested_at

\* request_qualification_approvals: the roles with no sign-off yet, as read; the
\* requests are visible at the commit.
RequestSignOffs(s, r) ==
    /\ session[s] = Idle
    /\ stamp < MaxStamp
    /\ session' = [session EXCEPT ![s] =
           [op |-> "signoffs", run |-> r, at |-> stamp + 1,
            missing |-> {role \in Roles : Of(r, role) = {}}]]
    /\ stamp' = stamp + 1
    /\ UNCHANGED tables

CommitSignOffs(s) ==
    LET j == session[s]
    IN  /\ j.op = "signoffs"
        /\ signoffs' = signoffs \cup
               {[run |-> j.run, role |-> role, requested_at |-> j.at, status |-> "pending"] :
                   role \in j.missing}
        /\ session' = [session EXCEPT ![s] = Idle]
        /\ UNCHANGED <<instance, realization, viaRun, qruns, stamp>>

\* A decision on one sign-off (Approvals shows it is taken once).
DecideSignOff(o, status) ==
    /\ o.status = "pending"
    /\ signoffs' = (signoffs \ {o}) \cup {[o EXCEPT !.status = status]}
    /\ UNCHANGED <<instance, realization, viaRun, qruns, session, stamp>>

\* Any one role's sign-off is enough.
SignedOffByAny(r) ==
    \E role \in Roles : Of(r, role) # {} /\ LatestSignOff(r, role).status = "approved"

\* Both roles' latest sign-off on this run is approved.
SignedOff(r) ==
    \A role \in Roles : Of(r, role) # {} /\ LatestSignOff(r, role).status = "approved"

\* qualify up to its write.
CheckQualify(s, i, r) ==
    /\ session[s] = Idle
    /\ qruns[r].instance = i /\ qruns[r].verdict = "passed"
    /\ SignedOff(r)
    /\ session' = [session EXCEPT ![s] = [op |-> "qualify", instance |-> i, run |-> r]]
    /\ UNCHANGED <<tables, stamp>>

\* agent_realizations_block_dml: one way, and only with a passing run.
Qualify(s) ==
    LET j == session[s]
    IN  /\ j.op = "qualify"
        /\ realization[j.instance] = "unqualified"
        /\ qruns[j.run].instance = j.instance /\ qruns[j.run].verdict = "passed"
        /\ realization' = [realization EXCEPT ![j.instance] = "qualified"]
        /\ viaRun' = [viaRun EXCEPT ![j.instance] = j.run]
        /\ session' = [session EXCEPT ![s] = Idle]
        /\ UNCHANGED <<instance, qruns, signoffs, stamp>>

\* A refused statement or a dying session rolls back.
Abort(s) ==
    /\ session[s] # Idle
    /\ session' = [session EXCEPT ![s] = Idle]
    /\ UNCHANGED <<tables, stamp>>

Next ==
    \/ \E i \in Instances :
        \/ Realize(i)
        \/ \E cases \in CaseSets : RecordQualificationRun(i, cases)
    \/ \E o \in signoffs, status \in {"approved", "rejected"} : DecideSignOff(o, status)
    \/ \E s \in Sessions :
        \/ \E i \in Instances, target \in {"active", "suspended", "retired"}, r \in Runs :
               LoadInstance(s, i, target, r)
        \/ StoreInstance(s)
        \/ \E r \in DOMAIN qruns : RequestSignOffs(s, r)
        \/ CommitSignOffs(s)
        \/ \E i \in Instances, r \in DOMAIN qruns : CheckQualify(s, i, r)
        \/ Qualify(s)
        \/ Abort(s)

Spec == Init /\ [][Next]_vars

-----------------------------------------------------------------------------
\* An agent counts as qualified only after a passing run of its own that both
\* reviewers signed off, however often the sign-offs were requested at once
\* (qualify and agent_realizations_block_dml).
QualifiedIsEarned ==
    \A i \in Instances : realization[i] = "qualified" =>
        /\ qruns[viaRun[i]].instance = i /\ qruns[viaRun[i]].verdict = "passed"
        /\ \A role \in Roles : \E o \in Of(viaRun[i], role) : o.status = "approved"

\* Binding, suspending, retiring and realizing anew race, and still one instance
\* of a key is live (uq_agent_instances_live_key).
OneLiveInstance ==
    \A i, k \in Instances :
        instance[i].status \in LiveStatuses /\ instance[k].status \in LiveStatuses => i = k

\* The run an instance serves never changes, although two sessions may both have
\* loaded it unbound (agent_instances_block_rebind).
RunBoundStep ==
    \A i \in Instances : instance[i].active_run_id # NoRun
        => instance'[i].active_run_id = instance[i].active_run_id
=============================================================================
