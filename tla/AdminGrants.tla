----------------------------- MODULE AdminGrants -----------------------------
(***************************************************************************)
(* Role grants of one tenant (admin_role_grants) and the operator sessions *)
(* that grant and revoke them (app/admin/tenant_admin.py), each a READ     *)
(* COMMITTED transaction of three steps: read, write with its event,       *)
(* commit.  The audit append a session makes last holds its global lock    *)
(* until the commit, so the two are one step.                              *)
(***************************************************************************)
EXTENDS Integers, Sequences, FiniteSets

CONSTANTS Principals, Sessions

Roles == {"tenant_viewer", "tenant_operator", "tenant_admin"}
RoleRank(r) == CASE r = "tenant_viewer" -> 1
                 [] r = "tenant_operator" -> 2
                 [] r = "tenant_admin" -> 3

VARIABLES
    grants,   \* grants[p][r]: "none", "active" or "revoked" (one row per p and r)
    session,  \* the operator sessions
    events    \* events[p][r]: the kinds of that grant's tenant_admin_events, in commit order

NoJob == [step |-> "idle", kind |-> "none", principal |-> "none", role |-> "none"]

SessionState == [step : {"idle", "read", "written"}, kind : {"none", "grant", "revoke"},
                 principal : Principals \cup {"none"}, role : Roles \cup {"none"}]

EventKinds == {"role_granted", "role_revoked"}

GrantTypeOK ==
    /\ grants \in [Principals -> [Roles -> {"none", "active", "revoked"}]]
    /\ session \in [Sessions -> SessionState]
    /\ events \in [Principals -> [Roles -> Seq(EventKinds)]]

GrantInit ==
    /\ grants = [p \in Principals |-> [r \in Roles |-> "none"]]
    /\ session = [s \in Sessions |-> NoJob]
    /\ events = [p \in Principals |-> [r \in Roles |-> <<>>]]

ActiveRoles(p) == {r \in Roles : grants[p][r] = "active"}

\* grant_admin_role and revoke_admin_role up to the read: a revoke that finds
\* no active grant raises and ends.
BeginJob(s, kind, p, r) ==
    /\ session[s].step = "idle"
    /\ kind = "revoke" => r \in ActiveRoles(p)
    /\ session' = [session EXCEPT ![s] =
                     [step |-> "read", kind |-> kind, principal |-> p, role |-> r]]
    /\ UNCHANGED <<grants, events>>

\* The row (or its unique-index entry) another session has written and not committed.
RowLocked(s, p, r) ==
    \E o \in Sessions \ {s} : /\ session[o].step = "written"
                              /\ session[o].principal = p
                              /\ session[o].role = r

\* A grant table whose guard lets a revoked row be revoked again.
WriteAcceptedWithoutGuard(kind, p, r) == kind = "grant" => grants[p][r] = "none"

\* admin_role_grants: the unique index refuses a second row, and
\* admin_role_grants_guard any status change but active to revoked.
WriteAccepted(kind, p, r) ==
    grants[p][r] = (IF kind = "grant" THEN "none" ELSE "active")

\* INSERT or UPDATE, and the event whose guard sees the session's own write.
WriteJob(s) ==
    LET j == session[s]
    IN  /\ j.step = "read"
        /\ ~RowLocked(s, j.principal, j.role)
        /\ WriteAccepted(j.kind, j.principal, j.role)
        /\ session' = [session EXCEPT ![s].step = "written"]
        /\ UNCHANGED <<grants, events>>

CommitJob(s) ==
    LET j == session[s]
    IN  /\ j.step = "written"
        /\ grants' = [grants EXCEPT ![j.principal][j.role] =
                        IF j.kind = "grant" THEN "active" ELSE "revoked"]
        /\ events' = [events EXCEPT ![j.principal][j.role] =
                        Append(@, IF j.kind = "grant" THEN "role_granted" ELSE "role_revoked")]
        /\ session' = [session EXCEPT ![s] = NoJob]

\* A refused write, or a session that dies, rolls back.
AbortJob(s) ==
    /\ session[s].step # "idle"
    /\ session' = [session EXCEPT ![s] = NoJob]
    /\ UNCHANGED <<grants, events>>

GrantNext ==
    \E s \in Sessions :
        \/ \E kind \in {"grant", "revoke"}, p \in Principals, r \in Roles : BeginJob(s, kind, p, r)
        \/ WriteJob(s)
        \/ CommitJob(s)
        \/ AbortJob(s)

-----------------------------------------------------------------------------
\* The event ledger replays to the grant table, whatever sessions race on a
\* grant: a grant that was never made has no event, an active one exactly its
\* role_granted, a revoked one that and then exactly one role_revoked.
\* (grant_admin_role, revoke_admin_role and admin_role_grants_guard.)
LedgerReplaysToGrants ==
    \A p \in Principals, r \in Roles :
        events[p][r] =
            CASE grants[p][r] = "none" -> <<>>
              [] grants[p][r] = "active" -> <<"role_granted">>
              [] grants[p][r] = "revoked" -> <<"role_granted", "role_revoked">>
=============================================================================
