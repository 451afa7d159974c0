----------------------------- MODULE AdminPolicy -----------------------------
(***************************************************************************)
(* Role-gated changes of one project's autonomy policy (app/admin): the    *)
(* service apply_policy_change, the trigger that re-checks the recorded    *)
(* decision, and the writer admin_write_autonomy_policy.  A change is one  *)
(* READ COMMITTED transaction: it reads the grants, inserts its            *)
(* admin_actions row, then takes the audit lock and keeps it through the   *)
(* writer to the commit.                                                   *)
(***************************************************************************)
EXTENDS AdminGrants, AuthorityMatrix

CONSTANTS
    Txns,            \* the calls of apply_policy_change
    RequestMaps,     \* the override maps callers send
    RequestLevels    \* the levels callers send

ASSUME RequestAssumption ==
    /\ \A ov \in RequestMaps : ov \in [DOMAIN ov -> RawOverride]
    /\ RequestLevels \subseteq Int

Nobody == "unauthenticated"
Kinds == {"set_autonomy_policy", "tighten_autonomy_overrides"}
Decisions == {"allowed", "refused_unauthenticated_actor", "refused_no_grant",
              "refused_insufficient_role"}

VARIABLES
    policy,   \* the project's autonomy_policies row
    ledger,   \* admin_policy_changes, in commit order
    change    \* the calls

vars == <<grants, session, events, policy, ledger, change>>

NoLevel == -1

LedgerRow == [txn : Txns, kind : Kinds, previous : Levels \cup {NoLevel}, new : Levels,
              override_key_count : Nat]

ChangeState == [step : {"idle", "authorized", "recorded", "refused", "written", "failed"},
                principal : Principals \cup {Nobody}, kind : Kinds, level : Int,
                overrides : OverrideMap, decision : Decisions, role : Roles \cup {"none"}]

NoChange == [step |-> "idle", principal |-> Nobody, kind |-> "set_autonomy_policy",
             level |-> 0, overrides |-> EmptyMap,
             decision |-> "refused_unauthenticated_actor", role |-> "none"]

\* A call that is over keeps nothing but its outcome.
Ended(outcome) == [NoChange EXCEPT !.step = outcome]

TypeOK ==
    /\ GrantTypeOK
    /\ policy \in PolicyRow
    /\ ledger \in Seq(LedgerRow)
    /\ change \in [Txns -> ChangeState]

Init ==
    /\ GrantInit
    /\ policy = NoPolicy
    /\ ledger = <<>>
    /\ change = [t \in Txns |-> NoChange]

required_role_for(kind) ==
    IF kind = "set_autonomy_policy" THEN "tenant_admin" ELSE "tenant_operator"

Highest(roles) == CHOOSE r \in roles : \A q \in roles : RoleRank(q) <= RoleRank(r)

\* evaluate_authorization over the active grants of an authenticated principal.
evaluate_authorization(kind, p, roles) ==
    IF p = Nobody THEN [decision |-> "refused_unauthenticated_actor", role |-> "none"]
    ELSE IF roles = {} THEN [decision |-> "refused_no_grant", role |-> "none"]
    ELSE [decision |-> IF RoleRank(Highest(roles)) < RoleRank(required_role_for(kind))
                       THEN "refused_insufficient_role" ELSE "allowed",
          role |-> Highest(roles)]

RolesOf(p) == IF p = Nobody THEN {} ELSE ActiveRoles(p)

\* apply_policy_change up to its decision.  A relaxing or unknown override
\* raises before anything is recorded.
Authorize(t, p, kind, level, ov) ==
    LET d == evaluate_authorization(kind, p, RolesOf(p))
    IN  /\ change[t].step = "idle"
        /\ validate_overrides(ov)
        /\ change' = [change EXCEPT ![t] =
                        [step |-> "authorized", principal |-> p, kind |-> kind, level |-> level,
                         overrides |-> ov, decision |-> d.decision, role |-> d.role]]
        /\ UNCHANGED <<grants, session, events, policy, ledger>>

\* A trigger that accepts any role the actor holds, highest or not.
RecordAcceptedAnyRole(c) ==
    CASE c.decision \in {"allowed", "refused_insufficient_role"} -> c.role \in RolesOf(c.principal)
      [] c.decision = "refused_no_grant" -> RolesOf(c.principal) = {}
      [] OTHER -> TRUE

\* admin_actions_guard: the recorded role is held now, is the highest held,
\* and is or is not enough, as the decision says.
RecordAccepted(c) ==
    LET held == RolesOf(c.principal)
        needed == RoleRank(required_role_for(c.kind))
        highest == c.role \in held /\ \A r \in held : RoleRank(r) <= RoleRank(c.role)
    IN  CASE c.decision = "allowed" -> highest /\ RoleRank(c.role) >= needed
          [] c.decision = "refused_insufficient_role" -> highest /\ RoleRank(c.role) < needed
          [] c.decision = "refused_no_grant" -> held = {}
          [] OTHER -> TRUE

\* AdminActionRepository.record.
RecordAction(t) ==
    /\ change[t].step = "authorized"
    /\ change' = IF RecordAccepted(change[t])
                 THEN [change EXCEPT ![t].step = "recorded"]
                 ELSE [change EXCEPT ![t] = Ended("failed")]
    /\ UNCHANGED <<grants, session, events, policy, ledger>>

\* A monotonicity check that only looks at the entries the new map has.
MonotonicOnShared(old, new) ==
    \A a \in DOMAIN old \cap DOMAIN new :
        /\ old[a].allow # "absent" => new[a].allow = "false"
        /\ old[a].requires_approval # "absent" => new[a].requires_approval = "true"
        /\ old[a].min_level # NoMinLevel =>
              new[a].min_level # NoMinLevel /\ new[a].min_level >= old[a].min_level

\* admin_overrides_is_monotonic: no stored restriction is dropped or lowered.
admin_overrides_is_monotonic(old, new) ==
    \A a \in DOMAIN old :
        /\ a \in DOMAIN new
        /\ old[a].allow # "absent" => new[a].allow = "false"
        /\ old[a].requires_approval # "absent" => new[a].requires_approval = "true"
        /\ old[a].min_level # NoMinLevel =>
              new[a].min_level # NoMinLevel /\ new[a].min_level >= old[a].min_level

\* The writer's refusals for the stored row, and the level's CHECK.
WriteAllowed(c) ==
    /\ c.level \in Levels
    /\ c.kind = "tighten_autonomy_overrides" =>
          /\ policy.present
          /\ c.level = policy.level
          /\ admin_overrides_is_monotonic(policy.overrides, c.overrides)

\* A ledger that takes a missing row for a row at A0.
PreviousLevelOrZero == policy.level

\* NULL for the write that creates the row.
PreviousLevel == IF policy.present THEN policy.level ELSE NoLevel

\* admin_write_autonomy_policy, both audit entries and the commit.
WritePolicy(t) ==
    LET c == change[t]
    IN  /\ c.step = "recorded"
        /\ c.decision = "allowed"
        /\ WriteAllowed(c)
        /\ policy' = [present |-> TRUE, level |-> c.level, overrides |-> c.overrides]
        /\ ledger' = Append(ledger, [txn |-> t, kind |-> c.kind, previous |-> PreviousLevel,
                                     new |-> c.level,
                                     override_key_count |-> Cardinality(DOMAIN c.overrides)])
        /\ change' = [change EXCEPT ![t] = Ended("written")]
        /\ UNCHANGED <<grants, session, events>>

\* A refused decision is committed with its audit entry and nothing else.
CommitRefusal(t) ==
    /\ change[t].step = "recorded"
    /\ change[t].decision # "allowed"
    /\ change' = [change EXCEPT ![t] = Ended("refused")]
    /\ UNCHANGED <<grants, session, events, policy, ledger>>

\* A writer that raises, or a call that dies before its commit, rolls back
\* its admin_actions row too.
FailChange(t) ==
    /\ change[t].step \in {"authorized", "recorded"}
    /\ change' = [change EXCEPT ![t] = Ended("failed")]
    /\ UNCHANGED <<grants, session, events, policy, ledger>>

OperatorStep == GrantNext /\ UNCHANGED <<policy, ledger, change>>

Next ==
    \/ OperatorStep
    \/ \E t \in Txns :
        \/ \E p \in Principals \cup {Nobody}, kind \in Kinds, level \in RequestLevels,
              ov \in RequestMaps : Authorize(t, p, kind, level, ov)
        \/ RecordAction(t)
        \/ WritePolicy(t)
        \/ CommitRefusal(t)
        \/ FailChange(t)

Spec == Init /\ [][Next]_vars

-----------------------------------------------------------------------------
\* A decision is recorded only if evaluating it again over the grants of the
\* moment it is inserted gives the same decision and the same role, whatever an
\* operator granted or revoked since apply_policy_change read them.
\* (evaluate_authorization against admin_actions_guard.)
RecordedDecisionIsCurrent ==
    [][\A t \in Txns :
          change[t].step = "authorized" /\ change'[t].step = "recorded" =>
              evaluate_authorization(change[t].kind, change[t].principal,
                                     RolesOf(change[t].principal)) =
                  [decision |-> change[t].decision, role |-> change[t].role]]_vars

\* The ledger accounts for the policy: each row starts at the level the row
\* before it left, the first from no policy, and the stored level and number of
\* overrides are those of the last row (admin_policy_changes, written in the
\* transaction of the policy write).
LedgerExplainsPolicy ==
    /\ policy.present <=> ledger # <<>>
    /\ \A i \in DOMAIN ledger :
          ledger[i].previous = IF i = 1 THEN NoLevel ELSE ledger[i - 1].new
    /\ ledger # <<>> =>
          /\ policy.level = ledger[Len(ledger)].new
          /\ Cardinality(DOMAIN policy.overrides) = ledger[Len(ledger)].override_key_count

\* No history of policy changes lets a mandatory-approval action through
\* without approval (apply_overrides and check_authority).
MandatoryStaysGated == \A a \in Mandatory : decision_for(policy, a) # "allow"

\* A change by an actor who was not a tenant_admin when it was recorded never
\* makes any action more permitted than the policy it finds, even when an
\* administrator changed that policy after the caller composed the request.
\* (The role each kind needs, and the writer's tighten clauses.)
OperatorsOnlyTighten ==
    [][\A t \in Txns :
          change'[t].step = "written" /\ change[t].step # "written"
              /\ change[t].role # "tenant_admin" =>
              \A a \in Actions :
                  Permits(decision_for(policy', a)) <= Permits(decision_for(policy, a))]_vars
=============================================================================
