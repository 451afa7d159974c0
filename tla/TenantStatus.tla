---------------------------- MODULE TenantStatus ----------------------------
(***************************************************************************)
(* Suspension and reinstatement of one organization and its tenants        *)
(* (app/admin/tenant_admin.py), by operator sessions that are READ         *)
(* COMMITTED transactions, and the bearer-key resolver that reads both     *)
(* statuses (app/admin/guards_sql.py).  A session's audit append holds the *)
(* global audit lock until it commits, so the two are one step.            *)
(***************************************************************************)
EXTENDS Sequences, FiniteSets, Naturals

CONSTANTS Tenants, Sessions, MaxEvents

Status == {"active", "suspended"}
\* What a session is about: one tenant, or the organization.
Org == "organization"
Subjects == Tenants \cup {Org}

VARIABLES
    status,    \* tenants.status and organizations.status, committed
    session,   \* the operator sessions
    events     \* events[x]: the statuses its tenant_admin_events tell, in commit order

vars == <<status, session, events>>

NoJob == [step |-> "idle", subject |-> Org, target |-> "active", seen |-> "active"]

\* "updated" and "kept": the flush sent an UPDATE, whose row lock lasts to the
\* commit, or it did not.  seen is the status the ORM loaded.
JobState == [step : {"idle", "read", "updated", "kept"}, subject : Subjects, target : Status,
             seen : Status]

TypeOK ==
    /\ status \in [Subjects -> Status]
    /\ session \in [Sessions -> JobState]
    /\ events \in [Subjects -> Seq(Status)]

Init ==
    /\ status = [x \in Subjects |-> "active"]
    /\ session = [s \in Sessions |-> NoJob]
    /\ events = [x \in Subjects |-> <<>>]

\* _bind_tenant and session.get: the ORM loads the row.
ReadRow(s, x, target) ==
    /\ session[s].step = "idle"
    /\ Len(events[x]) < MaxEvents
    /\ session' = [session EXCEPT ![s] = [step |-> "read", subject |-> x, target |-> target,
                                          seen |-> status[x]]]
    /\ UNCHANGED <<status, events>>

RowLocked(s, x) == \E o \in Sessions \ {s} : session[o].step = "updated" /\ session[o].subject = x

\* An organization write that, like a tenant's, is left to the unit of work.
SendsUpdateOnlyIfChanged(j) == j.target # j.seen

\* The unit of work sends no UPDATE for an attribute set to the value it was
\* loaded with; _set_org_status sends its UPDATE always.
SendsUpdate(j) == j.subject = Org \/ j.target # j.seen

\* The UPDATE waits for the row; the event's guard then sees the new status.
UpdateRow(s) ==
    /\ session[s].step = "read"
    /\ SendsUpdate(session[s])
    /\ ~RowLocked(s, session[s].subject)
    /\ session' = [session EXCEPT ![s].step = "updated"]
    /\ UNCHANGED <<status, events>>

\* tenant_admin_events_guard of a session that wrote nothing: the committed status.
GuardAccepts(j) == status[j.subject] = j.target

KeepRow(s) ==
    /\ session[s].step = "read"
    /\ ~SendsUpdate(session[s])
    /\ GuardAccepts(session[s])
    /\ session' = [session EXCEPT ![s].step = "kept"]
    /\ UNCHANGED <<status, events>>

\* The audit append and the commit.  A change of the organization tells an
\* event to each of its tenants; they agree, so one history stands for them.
Commit(s) ==
    LET j == session[s]
    IN  /\ j.step \in {"updated", "kept"}
        /\ status' = IF j.step = "updated" THEN [status EXCEPT ![j.subject] = j.target] ELSE status
        /\ events' = [events EXCEPT ![j.subject] = Append(@, j.target)]
        /\ session' = [session EXCEPT ![s] = NoJob]

\* A rollback that leaves its session unusable.
AbortLeavingFailed(s) ==
    /\ session[s].step # "idle"
    /\ session' = [session EXCEPT ![s].step = "failed"]
    /\ UNCHANGED <<status, events>>

\* A refused event, or a session that dies, rolls back.
Abort(s) ==
    /\ session[s].step # "idle"
    /\ session' = [session EXCEPT ![s] = NoJob]
    /\ UNCHANGED <<status, events>>

Next ==
    \E s \in Sessions :
        \/ \E x \in Subjects, target \in Status : ReadRow(s, x, target)
        \/ UpdateRow(s)
        \/ KeepRow(s)
        \/ Commit(s)
        \/ Abort(s)

Spec == Init /\ [][Next]_vars

\* resolve_tenant_api_key for an active key of tenant t.
KeyResolves(t) == status[t] = "active" /\ status[Org] = "active"

-----------------------------------------------------------------------------
\* The status the last event of x tells, before any event the initial one.
Told(x) == IF events[x] = <<>> THEN "active" ELSE events[x][Len(events[x])]

\* Whatever sessions race, a key of a tenant that is itself active resolves
\* exactly while the organization's last event is not a suspension
\* (_set_org_status, and resolve_tenant_api_key joining both statuses).
OrganizationBinds ==
    \A t \in Tenants : KeyResolves(t) <=> status[t] = "active" /\ Told(Org) = "active"

\* suspend_tenant: "Set tenants.status='suspended' and record the event."
\* (and likewise reinstate_tenant): when a session commits, the tenant has the
\* status the session was asked to set.
StatusIsSet ==
    [][\A s \in Sessions :
          session[s].step \in {"updated", "kept"} /\ events' # events /\ session'[s].step = "idle"
              => status'[session[s].subject] = session[s].target]_vars
=============================================================================
