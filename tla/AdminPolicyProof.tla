-------------------------- MODULE AdminPolicyProof --------------------------
(***************************************************************************)
(* Proofs about AdminPolicy for every matrix, every set of principals,     *)
(* sessions and calls, and every set of requests, and about TenantStatus   *)
(* for every set of tenants and sessions.                                  *)
(***************************************************************************)
EXTENDS Administration, FiniteSetTheorems, SequenceTheorems, TLAPS

\* No override map, valid or not, and no level turns a mandatory-approval
\* action into one that is allowed (apply_overrides, check_authority).
LEMMA MandatoryNeverAllowed ==
    ASSUME NEW a \in Mandatory, NEW level, NEW ov
    PROVE  check_authority(a, level, ov) # "allow"
<1>1. EffectiveRule(a, ov).requires_approval
    BY DEF EffectiveRule
<1> QED
    BY <1>1 DEF check_authority

\* Between validated maps the writer's monotonicity check is exactly what
\* keeps every decision from growing at an unchanged level.
LEMMA MonotonicNeverRelaxes ==
    ASSUME NEW old \in OverrideMap, NEW new \in OverrideMap, NEW level \in Levels,
           validate_overrides(old), validate_overrides(new),
           admin_overrides_is_monotonic(old, new), NEW a \in Actions
    PROVE  Permits(check_authority(a, level, new)) <= Permits(check_authority(a, level, old))
<1> DEFINE ro == EffectiveRule(a, old)
           rn == EffectiveRule(a, new)
<1>1. BaseLevel[a] \in Int /\ level \in Int
    BY MatrixAssumption DEF Levels
<1>2. /\ a \in DOMAIN old => old[a] \in Override /\ ValidOverride(a, old[a])
      /\ a \in DOMAIN new => new[a] \in Override /\ ValidOverride(a, new[a])
    BY DEF OverrideMap, validate_overrides
<1>3. /\ a \in DOMAIN old => /\ a \in DOMAIN new
                             /\ old[a].allow = "false" => new[a].allow = "false"
                             /\ old[a].requires_approval = "true" => new[a].requires_approval = "true"
                             /\ old[a].min_level # NoMinLevel =>
                                   /\ new[a].min_level # NoMinLevel
                                   /\ new[a].min_level >= old[a].min_level
    BY DEF admin_overrides_is_monotonic
<1>4. /\ ro.min_level \in Int /\ rn.min_level \in Int
      /\ ro.min_level <= rn.min_level
  <2>1. ro.min_level = IF a \notin DOMAIN old \/ old[a].min_level = NoMinLevel
                       THEN BaseLevel[a] ELSE old[a].min_level
    BY DEF EffectiveRule
  <2>2. rn.min_level = IF a \notin DOMAIN new \/ new[a].min_level = NoMinLevel
                       THEN BaseLevel[a] ELSE new[a].min_level
    BY DEF EffectiveRule
  <2>3. /\ a \in DOMAIN old => old[a].min_level \in Int
        /\ a \in DOMAIN new => /\ new[a].min_level \in Int
                               /\ new[a].min_level # NoMinLevel => BaseLevel[a] <= new[a].min_level
    BY <1>1, <1>2, MatrixAssumption DEF Override, ValidOverride, NoMinLevel
  <2> QED BY <1>1, <1>3, <2>1, <2>2, <2>3
<1>5. ro.requires_approval => rn.requires_approval
    BY <1>3, Zenon DEF EffectiveRule
<1>6. ro.disabled => rn.disabled
    BY <1>3, Zenon DEF EffectiveRule
<1> HIDE DEF ro, rn
<1>7. check_authority(a, level, old) =
        IF ro.disabled \/ level < ro.min_level THEN "deny"
        ELSE IF ro.requires_approval THEN "needs_approval" ELSE "allow"
    BY DEF check_authority, ro
<1>8. check_authority(a, level, new) =
        IF rn.disabled \/ level < rn.min_level THEN "deny"
        ELSE IF rn.requires_approval THEN "needs_approval" ELSE "allow"
    BY DEF check_authority, rn
<1> QED
    BY <1>1, <1>4, <1>5, <1>6, <1>7, <1>8 DEF Permits

\* The ranks are distinct, so max() over the active grants has one answer.
LEMMA HighestProperty ==
    ASSUME NEW roles \in SUBSET Roles
    PROVE  /\ roles # {} => /\ Highest(roles) \in roles
                            /\ \A q \in roles : RoleRank(q) <= RoleRank(Highest(roles))
           /\ \A r \in roles : (\A q \in roles : RoleRank(q) <= RoleRank(r)) => r = Highest(roles)
<1>1. /\ RoleRank("tenant_viewer") = 1
      /\ RoleRank("tenant_operator") = 2
      /\ RoleRank("tenant_admin") = 3
    BY DEF RoleRank
<1>2. roles # {} => \E r \in roles : \A q \in roles : RoleRank(q) <= RoleRank(r)
  <2>1. CASE "tenant_admin" \in roles
    BY <1>1, <2>1 DEF Roles
  <2>2. CASE "tenant_admin" \notin roles /\ "tenant_operator" \in roles
    BY <1>1, <2>2 DEF Roles
  <2>3. CASE "tenant_admin" \notin roles /\ "tenant_operator" \notin roles
    <3>1. \A q \in roles : q = "tenant_viewer"
      BY <2>3 DEF Roles
    <3> QED BY <1>1, <3>1
  <2> QED BY <2>1, <2>2, <2>3
<1>3. roles # {} => /\ Highest(roles) \in roles
                    /\ \A q \in roles : RoleRank(q) <= RoleRank(Highest(roles))
    BY <1>2 DEF Highest
<1>4. ASSUME NEW r \in roles, \A q \in roles : RoleRank(q) <= RoleRank(r)
      PROVE  r = Highest(roles)
  <2> DEFINE h == Highest(roles)
  <2>1. h \in Roles /\ r \in Roles /\ RoleRank(r) <= RoleRank(h) /\ RoleRank(h) <= RoleRank(r)
    BY <1>3, <1>4
  <2>2. \A x, y \in Roles : RoleRank(x) \in 1..3 /\ (RoleRank(x) = RoleRank(y) => x = y)
    BY <1>1 DEF Roles
  <2> HIDE DEF h
  <2>3. RoleRank(r) = RoleRank(h)
    BY <2>1, <2>2
  <2>4. r = h
    BY <2>1, <2>2, <2>3
  <2> QED BY <2>4 DEF h
<1> QED BY <1>3, <1>4

-----------------------------------------------------------------------------
\* What a call that is under way has decided, whatever the grants are by now.
CallConsistent(c) ==
    c.step \in {"authorized", "recorded"} =>
        /\ validate_overrides(c.overrides)
        /\ c.principal = Nobody <=> c.decision = "refused_unauthenticated_actor"
        /\ c.decision \in {"allowed", "refused_insufficient_role"} => c.role \in Roles
        /\ c.decision = "allowed" => RoleRank(c.role) >= RoleRank(required_role_for(c.kind))
        /\ c.decision \in {"refused_unauthenticated_actor", "refused_no_grant"} => c.role = "none"

\* The inductive invariant.
IInv ==
    /\ TypeOK
    /\ validate_overrides(policy.overrides)
    /\ \A t \in Txns : CallConsistent(change[t])
    /\ LedgerExplainsPolicy

LEMMA EmptyMapFacts ==
    EmptyMap \in OverrideMap /\ validate_overrides(EmptyMap) /\ DOMAIN EmptyMap = {}
<1>1. EmptyMap \in [{} -> Override]
    BY DEF EmptyMap
<1> QED
    BY <1>1 DEF OverrideMap, validate_overrides, EmptyMap

\* A validated request is a map that can be stored.
LEMMA ValidatedIsStorable ==
    ASSUME NEW ov \in RequestMaps, validate_overrides(ov)
    PROVE  ov \in OverrideMap
<1>1. ov \in [DOMAIN ov -> RawOverride] /\ DOMAIN ov \in SUBSET Actions
    BY RequestAssumption DEF validate_overrides
<1>2. \A a \in DOMAIN ov : ov[a] \in Override
  <2> TAKE a \in DOMAIN ov
  <2>1. ov[a] \in RawOverride /\ a \in Actions /\ ValidOverride(a, ov[a])
    BY <1>1 DEF validate_overrides
  <2>2. ov[a].min_level \in NoMinLevel..MaxLevel
    BY <2>1, MatrixAssumption DEF RawOverride, ValidOverride, NoMinLevel
  <2> QED
    BY <2>1, <2>2 DEF RawOverride, Override
<1> QED
    BY <1>1, <1>2 DEF OverrideMap

LEMMA CountIsNatural ==
    ASSUME NEW ov \in OverrideMap
    PROVE  Cardinality(DOMAIN ov) \in Nat
<1>1. DOMAIN ov \in SUBSET Actions
    BY DEF OverrideMap
<1> QED
    BY <1>1, MatrixAssumption, FS_Subset, FS_CardinalityType

\* Operator sessions keep the grant part of the type invariant.
LEMMA GrantTypeStep ==
    ASSUME GrantTypeOK, GrantNext
    PROVE  GrantTypeOK'
<1> USE DEF GrantTypeOK
<1>1. ASSUME NEW s \in Sessions, NEW kind \in {"grant", "revoke"}, NEW p \in Principals,
             NEW r \in Roles, BeginJob(s, kind, p, r)
      PROVE  GrantTypeOK'
    BY <1>1 DEF BeginJob, SessionState
<1>2. ASSUME NEW s \in Sessions, WriteJob(s)
      PROVE  GrantTypeOK'
    BY <1>2 DEF WriteJob, SessionState
<1>3. ASSUME NEW s \in Sessions, CommitJob(s)
      PROVE  GrantTypeOK'
  <2> DEFINE j == session[s]
             status == IF j.kind = "grant" THEN "active" ELSE "revoked"
             told == IF j.kind = "grant" THEN "role_granted" ELSE "role_revoked"
  <2>1. j \in SessionState
    BY DEF SessionState
  <2>2. /\ grants' = [grants EXCEPT ![j.principal][j.role] = status]
        /\ events' = [events EXCEPT ![j.principal][j.role] = Append(@, told)]
        /\ session' = [session EXCEPT ![s] = NoJob]
    BY <1>3 DEF CommitJob
  <2>3. status \in {"none", "active", "revoked"} /\ told \in EventKinds
    BY DEF EventKinds
  <2> HIDE DEF j, status, told
  <2>4. grants' \in [Principals -> [Roles -> {"none", "active", "revoked"}]]
    BY <2>2, <2>3
  <2>5. events' \in [Principals -> [Roles -> Seq(EventKinds)]]
    <3>1. \A p \in Principals, r \in Roles : Append(events[p][r], told) \in Seq(EventKinds)
      BY <2>3
    <3>2. events' = [p \in Principals |-> [r \in Roles |->
                       IF p = j.principal /\ r = j.role THEN Append(events[p][r], told)
                                                        ELSE events[p][r]]]
      BY <2>2
    <3> QED BY <3>1, <3>2
  <2>6. session' \in [Sessions -> SessionState]
    BY <2>2 DEF SessionState, NoJob
  <2> QED BY <2>4, <2>5, <2>6
<1>4. ASSUME NEW s \in Sessions, AbortJob(s)
      PROVE  GrantTypeOK'
    BY <1>4 DEF AbortJob, SessionState, NoJob
<1> QED
    BY <1>1, <1>2, <1>3, <1>4 DEF GrantNext

LEMMA EndedFacts ==
    ASSUME NEW o \in {"refused", "written", "failed"}
    PROVE  Ended(o) \in ChangeState /\ CallConsistent(Ended(o)) /\ Ended(o).step = o
<1>1. NoChange \in ChangeState
    BY EmptyMapFacts DEF NoChange, ChangeState, Kinds, Decisions
<1>2. Ended(o) \in ChangeState /\ Ended(o).step = o
    BY <1>1 DEF Ended, ChangeState, NoChange
<1> QED
    BY <1>2 DEF CallConsistent

LEMMA InitInv == Init => IInv
<1> SUFFICES ASSUME Init PROVE IInv
    OBVIOUS
<1> USE DEF Init
<1>1. GrantTypeOK
    BY DEF GrantInit, GrantTypeOK, SessionState, NoJob
<1>2. policy \in PolicyRow
    BY EmptyMapFacts, MatrixAssumption DEF NoPolicy, PolicyRow, Levels
<1>3. NoChange \in ChangeState /\ CallConsistent(NoChange)
    BY EmptyMapFacts DEF NoChange, ChangeState, Kinds, Decisions, CallConsistent
<1>4. TypeOK /\ \A t \in Txns : CallConsistent(change[t])
    BY <1>1, <1>2, <1>3 DEF TypeOK
<1>5. validate_overrides(policy.overrides)
    BY EmptyMapFacts DEF NoPolicy
<1>6. LedgerExplainsPolicy
    BY DEF LedgerExplainsPolicy, NoPolicy
<1> QED BY <1>4, <1>5, <1>6 DEF IInv

\* What a fresh decision says of itself.
LEMMA FreshDecision ==
    ASSUME NEW p, NEW kind \in Kinds, NEW roles \in SUBSET Roles, NEW d,
           d = evaluate_authorization(kind, p, roles)
    PROVE  /\ d.decision \in Decisions /\ d.role \in Roles \cup {"none"}
           /\ p = Nobody <=> d.decision = "refused_unauthenticated_actor"
           /\ d.decision \in {"allowed", "refused_insufficient_role"} => d.role \in Roles
           /\ d.decision = "allowed" => RoleRank(d.role) >= RoleRank(required_role_for(kind))
           /\ d.decision \in {"refused_unauthenticated_actor", "refused_no_grant"} => d.role = "none"
<1> DEFINE h == Highest(roles)
           needed == RoleRank(required_role_for(kind))
<1>1. roles # {} => h \in Roles
    BY HighestProperty
<1>2. /\ needed \in Int
      /\ \A r \in Roles : RoleRank(r) \in Int
    BY DEF RoleRank, Roles, required_role_for
<1>3. CASE p = Nobody
  <2>1. d.decision = "refused_unauthenticated_actor" /\ d.role = "none"
    BY <1>3 DEF evaluate_authorization
  <2> QED BY <1>3, <2>1 DEF Decisions
<1>4. CASE p # Nobody /\ roles = {}
  <2>1. d.decision = "refused_no_grant" /\ d.role = "none"
    BY <1>4 DEF evaluate_authorization
  <2> QED BY <1>4, <2>1 DEF Decisions
<1>5. CASE p # Nobody /\ roles # {}
  <2>1. /\ d.decision = IF RoleRank(h) < needed THEN "refused_insufficient_role" ELSE "allowed"
        /\ d.role = h
    BY <1>5 DEF evaluate_authorization
  <2>2. h \in Roles /\ RoleRank(h) \in Int
    BY <1>1, <1>2, <1>5
  <2> HIDE DEF h
  <2> QED BY <1>2, <1>5, <2>1, <2>2 DEF Decisions
<1> QED BY <1>3, <1>4, <1>5

\* A step that changes one call and leaves the policy and its ledger alone.
LEMMA CallStep ==
    ASSUME IInv, NEW t \in Txns, NEW c, c \in ChangeState, CallConsistent(c),
           change' = [change EXCEPT ![t] = c],
           UNCHANGED <<grants, session, events, policy, ledger>>
    PROVE  IInv'
<1>1. change' \in [Txns -> ChangeState] /\ \A u \in Txns : CallConsistent(change'[u])
    BY DEF IInv, TypeOK
<1>2. GrantTypeOK' /\ LedgerExplainsPolicy'
    BY DEF IInv, TypeOK, GrantTypeOK, LedgerExplainsPolicy
<1> QED
    BY <1>1, <1>2 DEF IInv, TypeOK

LEMMA WriteStep ==
    ASSUME IInv, NEW t \in Txns, WritePolicy(t)
    PROVE  IInv'
<1> DEFINE c == change[t]
           row == [txn |-> t, kind |-> c.kind, previous |-> PreviousLevel, new |-> c.level,
                   override_key_count |-> Cardinality(DOMAIN c.overrides)]
<1>1. /\ c \in ChangeState /\ c.step = "recorded" /\ c.level \in Levels
      /\ c.overrides \in OverrideMap /\ c.kind \in Kinds /\ validate_overrides(c.overrides)
    BY DEF IInv, TypeOK, WritePolicy, WriteAllowed, ChangeState, CallConsistent
<1>2. /\ policy' = [present |-> TRUE, level |-> c.level, overrides |-> c.overrides]
      /\ ledger' = Append(ledger, row)
      /\ change' = [change EXCEPT ![t] = Ended("written")]
      /\ UNCHANGED <<grants, session, events>>
    BY DEF WritePolicy
<1>3. PreviousLevel \in Levels \cup {NoLevel}
    BY DEF IInv, TypeOK, PolicyRow, PreviousLevel
<1>4. row \in LedgerRow
    BY <1>1, <1>3, CountIsNatural DEF LedgerRow
<1> HIDE DEF c
<1>5. policy' \in PolicyRow /\ validate_overrides(policy.overrides)'
    BY <1>1, <1>2 DEF PolicyRow
<1>6. change' \in [Txns -> ChangeState] /\ \A u \in Txns : CallConsistent(change'[u])
    BY <1>2, EndedFacts DEF IInv, TypeOK
<1>7. GrantTypeOK'
    BY <1>2 DEF IInv, TypeOK, GrantTypeOK
<1>8. ledger \in Seq(LedgerRow) /\ LedgerExplainsPolicy
    BY DEF IInv, TypeOK
<1>9. row.previous = PreviousLevel /\ row.new = c.level
      /\ row.override_key_count = Cardinality(DOMAIN c.overrides)
    OBVIOUS
<1> HIDE DEF row
<1>10. /\ ledger' \in Seq(LedgerRow)
       /\ Len(ledger') = Len(ledger) + 1
       /\ ledger'[Len(ledger) + 1] = row
       /\ \A i \in 1..Len(ledger) : ledger'[i] = ledger[i]
    BY <1>2, <1>4, <1>8
<1>11. PreviousLevel = IF Len(ledger) = 0 THEN NoLevel ELSE ledger[Len(ledger)].new
    BY <1>8 DEF LedgerExplainsPolicy, PreviousLevel
<1>12. \A i \in DOMAIN ledger' : ledger'[i].previous = IF i = 1 THEN NoLevel ELSE ledger'[i - 1].new
  <2> SUFFICES ASSUME NEW i \in 1..(Len(ledger) + 1)
               PROVE  ledger'[i].previous = IF i = 1 THEN NoLevel ELSE ledger'[i - 1].new
    BY <1>10
  <2>1. CASE i = Len(ledger) + 1
    BY <1>8, <1>9, <1>10, <1>11, <2>1
  <2>2. CASE i \in 1..Len(ledger)
    <3>1. ledger'[i] = ledger[i] /\ (i # 1 => ledger'[i - 1] = ledger[i - 1])
      BY <1>8, <1>10, <2>2
    <3>2. ledger[i].previous = IF i = 1 THEN NoLevel ELSE ledger[i - 1].new
      BY <1>8, <2>2 DEF LedgerExplainsPolicy
    <3> QED BY <3>1, <3>2
  <2> QED BY <1>8, <2>1, <2>2
<1>13. /\ policy'.present /\ ledger' # <<>>
       /\ policy'.level = ledger'[Len(ledger')].new
       /\ Cardinality(DOMAIN policy'.overrides) = ledger'[Len(ledger')].override_key_count
    BY <1>2, <1>8, <1>9, <1>10
<1>14. LedgerExplainsPolicy'
    BY <1>12, <1>13 DEF LedgerExplainsPolicy
<1> QED
    BY <1>5, <1>6, <1>7, <1>10, <1>14 DEF IInv, TypeOK

LEMMA NextInv == IInv /\ [Next]_vars => IInv'
<1> SUFFICES ASSUME IInv, [Next]_vars PROVE IInv'
    OBVIOUS
<1>1. CASE OperatorStep
  <2>1. GrantTypeOK'
    BY <1>1, GrantTypeStep DEF OperatorStep, IInv, TypeOK
  <2>2. LedgerExplainsPolicy' /\ UNCHANGED <<policy, ledger, change>>
    BY <1>1 DEF OperatorStep, IInv, LedgerExplainsPolicy
  <2> QED BY <2>1, <2>2 DEF IInv, TypeOK
<1>2. ASSUME NEW t \in Txns, NEW p \in Principals \cup {Nobody}, NEW kind \in Kinds,
             NEW level \in RequestLevels, NEW ov \in RequestMaps, Authorize(t, p, kind, level, ov)
      PROVE  IInv'
  <2> DEFINE d == evaluate_authorization(kind, p, RolesOf(p))
             c == [step |-> "authorized", principal |-> p, kind |-> kind, level |-> level,
                   overrides |-> ov, decision |-> d.decision, role |-> d.role]
  <2>1. RolesOf(p) \in SUBSET Roles
    BY DEF RolesOf, ActiveRoles
  <2>2. ov \in OverrideMap /\ validate_overrides(ov) /\ level \in Int
    BY <1>2, ValidatedIsStorable, RequestAssumption DEF Authorize
  <2>3. /\ change' = [change EXCEPT ![t] = c]
        /\ UNCHANGED <<grants, session, events, policy, ledger>>
    BY <1>2 DEF Authorize
  <2>4. /\ d.decision \in Decisions /\ d.role \in Roles \cup {"none"}
        /\ p = Nobody <=> d.decision = "refused_unauthenticated_actor"
        /\ d.decision \in {"allowed", "refused_insufficient_role"} => d.role \in Roles
        /\ d.decision = "allowed" => RoleRank(d.role) >= RoleRank(required_role_for(kind))
        /\ d.decision \in {"refused_unauthenticated_actor", "refused_no_grant"} => d.role = "none"
    BY <2>1, FreshDecision
  <2> HIDE DEF d
  <2>5. c \in ChangeState
    BY <2>2, <2>4 DEF ChangeState
  <2>6. CallConsistent(c)
    BY <2>2, <2>4 DEF CallConsistent
  <2> HIDE DEF c
  <2> QED BY <2>3, <2>5, <2>6, CallStep
<1>3. ASSUME NEW t \in Txns, RecordAction(t)
      PROVE  IInv'
  <2> DEFINE c == [change[t] EXCEPT !.step = "recorded"]
  <2>1. change[t] \in ChangeState /\ CallConsistent(change[t]) /\ change[t].step = "authorized"
    BY <1>3 DEF IInv, TypeOK, RecordAction
  <2>2. c \in ChangeState /\ CallConsistent(c)
    BY <2>1 DEF ChangeState, CallConsistent
  <2>3. CASE RecordAccepted(change[t])
    <3>1. change' = [change EXCEPT ![t] = c] /\ UNCHANGED <<grants, session, events, policy, ledger>>
      BY <1>3, <2>3 DEF RecordAction
    <3> HIDE DEF c
    <3> QED BY <2>2, <3>1, CallStep
  <2>4. CASE ~RecordAccepted(change[t])
    <3>1. /\ change' = [change EXCEPT ![t] = Ended("failed")]
          /\ UNCHANGED <<grants, session, events, policy, ledger>>
      BY <1>3, <2>4 DEF RecordAction
    <3> QED BY <3>1, CallStep, EndedFacts
  <2> QED BY <2>3, <2>4
<1>4. ASSUME NEW t \in Txns, WritePolicy(t)
      PROVE  IInv'
    BY <1>4, WriteStep
<1>5. ASSUME NEW t \in Txns, CommitRefusal(t)
      PROVE  IInv'
    BY <1>5, CallStep, EndedFacts DEF CommitRefusal
<1>6. ASSUME NEW t \in Txns, FailChange(t)
      PROVE  IInv'
    BY <1>6, CallStep, EndedFacts DEF FailChange
<1>7. CASE UNCHANGED vars
    BY <1>7 DEF vars, IInv, TypeOK, GrantTypeOK, LedgerExplainsPolicy
<1> QED
    BY <1>1, <1>2, <1>3, <1>4, <1>5, <1>6, <1>7 DEF Next

\* Every reachable state satisfies the inductive invariant.
THEOREM InvHolds == Spec => []IInv
    BY InitInv, NextInv, PTL DEF Spec

\* Type correctness of the grants, the policy row, its ledger and the calls.
THEOREM AdminTypeCorrect == Spec => []TypeOK
<1>1. IInv => TypeOK
    BY DEF IInv
<1> QED BY <1>1, InvHolds, PTL

\* The ledger accounts for the stored policy, however many calls race
\* (admin_write_autonomy_policy).
THEOREM LedgerAccountsForPolicy == Spec => []LedgerExplainsPolicy
<1>1. IInv => LedgerExplainsPolicy
    BY DEF IInv
<1> QED BY <1>1, InvHolds, PTL

\* No policy that any history of changes can store allows a mandatory-approval
\* action (decision_for).
THEOREM MandatoryIsGated == Spec => []MandatoryStaysGated
<1>1. MandatoryStaysGated
    BY MandatoryNeverAllowed DEF MandatoryStaysGated, decision_for
<1> QED BY <1>1, PTL

\* The trigger accepts a decision only if the pure evaluator, run over the
\* grants of that moment, would decide the same.
LEMMA AcceptedIsCurrent ==
    ASSUME NEW c \in ChangeState, CallConsistent(c), c.step = "authorized", RecordAccepted(c)
    PROVE  evaluate_authorization(c.kind, c.principal, RolesOf(c.principal)) =
               [decision |-> c.decision, role |-> c.role]
<1> DEFINE held == RolesOf(c.principal)
           needed == RoleRank(required_role_for(c.kind))
<1>1. /\ c.decision \in Decisions
      /\ c.principal = Nobody <=> c.decision = "refused_unauthenticated_actor"
      /\ c.decision \in {"refused_unauthenticated_actor", "refused_no_grant"} => c.role = "none"
    BY DEF ChangeState, CallConsistent
<1>2. held \in SUBSET Roles
    BY DEF RolesOf, ActiveRoles
<1>3. CASE c.decision = "refused_unauthenticated_actor"
    BY <1>1, <1>3 DEF evaluate_authorization
<1>4. CASE c.decision = "refused_no_grant"
  <2>1. held = {} /\ c.principal # Nobody /\ c.role = "none"
    BY <1>1, <1>4 DEF RecordAccepted
  <2> QED BY <1>4, <2>1 DEF evaluate_authorization
<1>5. CASE c.decision \in {"allowed", "refused_insufficient_role"}
  <2>1. /\ c.role \in held /\ \A r \in held : RoleRank(r) <= RoleRank(c.role)
        /\ c.decision = "allowed" => RoleRank(c.role) >= needed
        /\ c.decision = "refused_insufficient_role" => RoleRank(c.role) < needed
    BY <1>5 DEF RecordAccepted
  <2>2. c.role = Highest(held) /\ held # {} /\ c.principal # Nobody /\ c.role \in Roles
    BY <1>1, <1>2, <1>5, <2>1, HighestProperty
  <2>3. needed \in Int /\ RoleRank(c.role) \in Int
    BY <2>2 DEF RoleRank, Roles, required_role_for
  <2>4. c.decision = IF RoleRank(c.role) < needed THEN "refused_insufficient_role" ELSE "allowed"
    BY <1>5, <2>1, <2>3
  <2> HIDE DEF held
  <2>5. evaluate_authorization(c.kind, c.principal, held) =
          [decision |-> IF RoleRank(c.role) < needed THEN "refused_insufficient_role" ELSE "allowed",
           role |-> c.role]
    BY <2>2 DEF evaluate_authorization
  <2> QED BY <2>4, <2>5 DEF held
<1> QED BY <1>1, <1>3, <1>4, <1>5 DEF Decisions

\* A step that records a decision is RecordAction of that call.
LEMMA RecordingStep ==
    ASSUME IInv, [Next]_vars, NEW t \in Txns,
           change[t].step = "authorized", change'[t].step = "recorded"
    PROVE  RecordAccepted(change[t])
<1>1. change \in [Txns -> ChangeState]
    BY DEF IInv, TypeOK
<1>2. ASSUME NEW u \in Txns, NEW p, NEW kind, NEW level, NEW ov, Authorize(u, p, kind, level, ov)
      PROVE  FALSE
    BY <1>1, <1>2 DEF Authorize
<1>3. ASSUME NEW u \in Txns, RecordAction(u)
      PROVE  RecordAccepted(change[t])
    BY <1>1, <1>3, EndedFacts DEF RecordAction
<1>4. ASSUME NEW u \in Txns, WritePolicy(u) \/ CommitRefusal(u) \/ FailChange(u)
      PROVE  FALSE
  <2>1. PICK o \in {"written", "refused", "failed"} : change' = [change EXCEPT ![u] = Ended(o)]
    BY <1>4 DEF WritePolicy, CommitRefusal, FailChange
  <2> QED BY <1>1, <2>1, EndedFacts
<1>5. ~OperatorStep /\ ~UNCHANGED vars
    BY DEF OperatorStep, vars
<1> QED
    BY <1>2, <1>3, <1>4, <1>5 DEF Next

\* A recorded decision is the one the grants of that moment give, for every
\* interleaving of calls and operator sessions (admin_actions_guard).
THEOREM DecisionIsCurrent == Spec => RecordedDecisionIsCurrent
<1>1. IInv /\ [Next]_vars =>
        \A t \in Txns :
            change[t].step = "authorized" /\ change'[t].step = "recorded" =>
                evaluate_authorization(change[t].kind, change[t].principal,
                                       RolesOf(change[t].principal)) =
                    [decision |-> change[t].decision, role |-> change[t].role]
  <2> SUFFICES ASSUME IInv, [Next]_vars, NEW t \in Txns,
                      change[t].step = "authorized", change'[t].step = "recorded"
               PROVE  evaluate_authorization(change[t].kind, change[t].principal,
                                             RolesOf(change[t].principal)) =
                          [decision |-> change[t].decision, role |-> change[t].role]
    OBVIOUS
  <2>1. RecordAccepted(change[t]) /\ change[t] \in ChangeState /\ CallConsistent(change[t])
    BY RecordingStep DEF IInv, TypeOK
  <2> QED BY <2>1, AcceptedIsCurrent
<1> QED
    BY <1>1, InvHolds, PTL DEF Spec, RecordedDecisionIsCurrent

\* A step that writes a policy is WritePolicy of that call.
LEMMA WritingStep ==
    ASSUME IInv, [Next]_vars, NEW t \in Txns,
           change[t].step # "written", change'[t].step = "written"
    PROVE  WritePolicy(t)
<1>1. change \in [Txns -> ChangeState]
    BY DEF IInv, TypeOK
<1>2. ASSUME NEW u \in Txns, NEW p, NEW kind, NEW level, NEW ov, Authorize(u, p, kind, level, ov)
      PROVE  FALSE
    BY <1>1, <1>2 DEF Authorize
<1>3. ASSUME NEW u \in Txns, RecordAction(u)
      PROVE  FALSE
    BY <1>1, <1>3, EndedFacts DEF RecordAction
<1>4. ASSUME NEW u \in Txns, CommitRefusal(u) \/ FailChange(u)
      PROVE  FALSE
  <2>1. PICK o \in {"refused", "failed"} : change' = [change EXCEPT ![u] = Ended(o)]
    BY <1>4 DEF CommitRefusal, FailChange
  <2> QED BY <1>1, <2>1, EndedFacts
<1>5. ASSUME NEW u \in Txns, WritePolicy(u), u # t
      PROVE  FALSE
    BY <1>1, <1>5 DEF WritePolicy
<1>6. ~OperatorStep /\ ~UNCHANGED vars
    BY DEF OperatorStep, vars
<1> QED
    BY <1>2, <1>3, <1>4, <1>5, <1>6 DEF Next

\* An actor below tenant_admin can only tighten: no action's decision grows,
\* for every matrix and every stored policy (apply_policy_change, the writer).
THEOREM OperatorsTighten == Spec => OperatorsOnlyTighten
<1>1. IInv /\ [Next]_vars =>
        \A t \in Txns :
            change'[t].step = "written" /\ change[t].step # "written"
                /\ change[t].role # "tenant_admin" =>
                \A a \in Actions :
                    Permits(decision_for(policy', a)) <= Permits(decision_for(policy, a))
  <2> SUFFICES ASSUME IInv, [Next]_vars, NEW t \in Txns, NEW a \in Actions,
                      change'[t].step = "written", change[t].step # "written",
                      change[t].role # "tenant_admin"
               PROVE  Permits(decision_for(policy', a)) <= Permits(decision_for(policy, a))
    OBVIOUS
  <2> DEFINE c == change[t]
  <2>1. WritePolicy(t)
    BY WritingStep
  <2>2. /\ c.overrides \in OverrideMap /\ c.kind \in Kinds /\ validate_overrides(c.overrides)
        /\ c.role \in Roles /\ RoleRank(c.role) >= RoleRank(required_role_for(c.kind))
    BY <2>1 DEF IInv, TypeOK, ChangeState, CallConsistent, WritePolicy
  <2>3. c.kind = "tighten_autonomy_overrides"
    BY <2>2 DEF Kinds, Roles, RoleRank, required_role_for
  <2>4. /\ policy.present /\ c.level = policy.level
        /\ admin_overrides_is_monotonic(policy.overrides, c.overrides)
    BY <2>1, <2>3 DEF WritePolicy, WriteAllowed
  <2>5. policy' = [present |-> TRUE, level |-> c.level, overrides |-> c.overrides]
    BY <2>1 DEF WritePolicy
  <2>6. /\ policy.level \in Levels /\ policy.overrides \in OverrideMap
        /\ validate_overrides(policy.overrides)
    BY DEF IInv, TypeOK, PolicyRow
  <2> HIDE DEF c
  <2>7. /\ decision_for(policy, a) = check_authority(a, policy.level, policy.overrides)
        /\ decision_for(policy', a) = check_authority(a, policy.level, c.overrides)
    BY <2>2, <2>4, <2>5, <2>6 DEF decision_for
  <2> QED
    BY <2>2, <2>4, <2>6, <2>7, MonotonicNeverRelaxes
<1> QED
    BY <1>1, InvHolds, PTL DEF Spec, OperatorsOnlyTighten

-----------------------------------------------------------------------------
(* The event ledger of the role grants.                                    *)

\* A session under way names a row and what it does to it.
JobNamed(j) ==
    j.step # "idle" =>
        j.kind \in {"grant", "revoke"} /\ j.principal \in Principals /\ j.role \in Roles

\* What the row lock and the table's guard buy: the row a session has written
\* is still in the status its write was accepted in, and no other session has
\* written it.
WritesHold ==
    \A s \in Sessions :
        session[s].step = "written" =>
            /\ WriteAccepted(session[s].kind, session[s].principal, session[s].role)
            /\ ~RowLocked(s, session[s].principal, session[s].role)

GrantInv ==
    /\ GrantTypeOK
    /\ \A s \in Sessions : JobNamed(session[s])
    /\ WritesHold
    /\ LedgerReplaysToGrants

\* The second event of a row makes a sequence of two.
LEMMA SecondEvent ==
    ASSUME NEW a \in EventKinds, NEW b \in EventKinds
    PROVE  Append(<<a>>, b) = <<a, b>>
<1> DEFINE s == Append(<<a>>, b)
           t == <<a, b>>
<1>1. <<a>> \in Seq(EventKinds) /\ t \in Seq(EventKinds) /\ Len(t) = 2 /\ t[1] = a /\ t[2] = b
  OBVIOUS
<1>2. Len(s) = 2 /\ s \in Seq(EventKinds) /\ s[1] = a /\ s[2] = b
  BY <1>1
<1> HIDE DEF s, t
<1>3. \A i \in 1..Len(s) : s[i] = t[i]
  BY <1>1, <1>2
<1>4. s = t
  BY <1>1, <1>2, <1>3, SeqEqual
<1> QED  BY <1>4 DEF s, t

\* A session that has written nothing holds no row.
LEMMA ReadingStep ==
    ASSUME GrantInv, NEW s \in Sessions, NEW j \in SessionState, JobNamed(j),
           j.step # "written",
           session' = [session EXCEPT ![s] = j], UNCHANGED <<grants, events>>
    PROVE  GrantInv'
<1>1. GrantTypeOK' /\ \A o \in Sessions : JobNamed(session'[o])
  BY DEF GrantInv, GrantTypeOK
<1>2. \A o \in Sessions : session'[o].step = "written" => o # s /\ session'[o] = session[o]
  BY DEF GrantInv, GrantTypeOK
<1>3. WritesHold'
  <2> SUFFICES ASSUME NEW o \in Sessions, session'[o].step = "written"
               PROVE  /\ WriteAccepted(session[o].kind, session[o].principal, session[o].role)'
                      /\ ~RowLocked(o, session[o].principal, session[o].role)'
    BY DEF WritesHold
  <2>1. session'[o] = session[o] /\ session[o].step = "written"
    BY <1>2
  <2>2. /\ WriteAccepted(session[o].kind, session[o].principal, session[o].role)
        /\ ~RowLocked(o, session[o].principal, session[o].role)
    BY <2>1 DEF GrantInv, WritesHold
  <2> QED  BY <1>2, <2>1, <2>2 DEF WriteAccepted, RowLocked
<1>4. LedgerReplaysToGrants'
  BY DEF GrantInv, LedgerReplaysToGrants
<1> QED  BY <1>1, <1>3, <1>4 DEF GrantInv

\* The write of a session takes a row that is free and in the right status.
LEMMA GrantWriteStep ==
    ASSUME GrantInv, NEW s \in Sessions, WriteJob(s)
    PROVE  GrantInv'
<1> DEFINE j == session[s]
<1>1. /\ j.step = "read" /\ ~RowLocked(s, j.principal, j.role)
      /\ WriteAccepted(j.kind, j.principal, j.role)
      /\ session' = [session EXCEPT ![s].step = "written"]
      /\ UNCHANGED <<grants, events>>
  BY DEF WriteJob
<1>2. session \in [Sessions -> SessionState] /\ j \in SessionState
  BY DEF GrantInv, GrantTypeOK
<1>3. /\ session'[s].step = "written" /\ session'[s].kind = j.kind
      /\ session'[s].principal = j.principal /\ session'[s].role = j.role
      /\ session'[s] \in SessionState
      /\ \A o \in Sessions \ {s} : session'[o] = session[o]
  BY <1>1, <1>2 DEF SessionState
<1>4. GrantTypeOK' /\ \A o \in Sessions : JobNamed(session'[o])
  BY <1>1, <1>2, <1>3 DEF GrantInv, GrantTypeOK, JobNamed
<1>5. WritesHold'
  <2> SUFFICES ASSUME NEW o \in Sessions, session'[o].step = "written"
               PROVE  /\ WriteAccepted(session[o].kind, session[o].principal, session[o].role)'
                      /\ ~RowLocked(o, session[o].principal, session[o].role)'
    BY DEF WritesHold
  <2>1. CASE o = s
    BY <1>1, <1>3, <2>1 DEF WriteAccepted, RowLocked
  <2>2. CASE o # s
    <3>1. session'[o] = session[o] /\ session[o].step = "written"
      BY <1>3, <2>2
    <3>2. /\ WriteAccepted(session[o].kind, session[o].principal, session[o].role)
          /\ ~RowLocked(o, session[o].principal, session[o].role)
      BY <3>1 DEF GrantInv, WritesHold
    <3>3. session[o].principal # j.principal \/ session[o].role # j.role
      BY <1>1, <2>2, <3>1 DEF RowLocked
    <3> QED  BY <1>1, <1>3, <3>1, <3>2, <3>3 DEF WriteAccepted, RowLocked
  <2> QED  BY <2>1, <2>2
<1>6. LedgerReplaysToGrants'
  BY <1>1 DEF GrantInv, LedgerReplaysToGrants
<1> QED  BY <1>4, <1>5, <1>6 DEF GrantInv

\* The commit of a session changes the one row it holds, and adds its event.
LEMMA GrantCommitStep ==
    ASSUME GrantInv, NEW s \in Sessions, CommitJob(s)
    PROVE  GrantInv'
<1> DEFINE j == session[s]
           p == j.principal
           r == j.role
<1>1. j.step = "written"
  BY DEF CommitJob
<1>2. /\ p \in Principals /\ r \in Roles /\ j.kind \in {"grant", "revoke"}
      /\ WriteAccepted(j.kind, p, r) /\ ~RowLocked(s, p, r)
  BY <1>1 DEF GrantInv, JobNamed, WritesHold
<1>3. /\ grants' = [grants EXCEPT ![p][r] = IF j.kind = "grant" THEN "active" ELSE "revoked"]
      /\ events' = [events EXCEPT ![p][r] =
                      Append(@, IF j.kind = "grant" THEN "role_granted" ELSE "role_revoked")]
      /\ session' = [session EXCEPT ![s] = NoJob]
  BY DEF CommitJob
<1>4. /\ grants \in [Principals -> [Roles -> {"none", "active", "revoked"}]]
      /\ session \in [Sessions -> SessionState]
      /\ events \in [Principals -> [Roles -> Seq(EventKinds)]]
  BY DEF GrantInv, GrantTypeOK
<1>5. GrantTypeOK'
  <2>1. GrantNext
    BY DEF GrantNext
  <2> QED  BY <2>1, GrantTypeStep DEF GrantInv
<1>6. /\ session'[s] = NoJob
      /\ \A o \in Sessions \ {s} : session'[o] = session[o]
  BY <1>3, <1>4
<1>7. \A o \in Sessions : JobNamed(session'[o])
  BY <1>6 DEF GrantInv, JobNamed, NoJob
<1>8. /\ grants'[p][r] = IF j.kind = "grant" THEN "active" ELSE "revoked"
      /\ events'[p][r] = Append(events[p][r],
                                IF j.kind = "grant" THEN "role_granted" ELSE "role_revoked")
  BY <1>2, <1>3, <1>4
<1>9. \A q \in Principals, u \in Roles :
         q # p \/ u # r => grants'[q][u] = grants[q][u] /\ events'[q][u] = events[q][u]
  BY <1>2, <1>3, <1>4
<1> HIDE DEF p, r
<1>10. WritesHold'
  <2> SUFFICES ASSUME NEW o \in Sessions, session'[o].step = "written"
               PROVE  /\ WriteAccepted(session[o].kind, session[o].principal, session[o].role)'
                      /\ ~RowLocked(o, session[o].principal, session[o].role)'
    BY DEF WritesHold
  <2>1. o # s /\ session'[o] = session[o] /\ session[o].step = "written"
    BY <1>6 DEF NoJob
  <2>2. /\ WriteAccepted(session[o].kind, session[o].principal, session[o].role)
        /\ ~RowLocked(o, session[o].principal, session[o].role)
        /\ session[o].principal \in Principals /\ session[o].role \in Roles
    BY <2>1 DEF GrantInv, WritesHold, JobNamed
  <2>3. session[o].principal # p \/ session[o].role # r
    BY <1>2, <2>1 DEF RowLocked
  <2>4. WriteAccepted(session[o].kind, session[o].principal, session[o].role)'
    BY <1>9, <2>1, <2>2, <2>3 DEF WriteAccepted
  <2>5. ~RowLocked(o, session[o].principal, session[o].role)'
    BY <1>6, <2>1, <2>2 DEF RowLocked, NoJob
  <2> QED  BY <2>4, <2>5
<1>11. LedgerReplaysToGrants'
  <2>1. grants[p][r] = IF j.kind = "grant" THEN "none" ELSE "active"
    BY <1>2 DEF WriteAccepted
  <2>2. events[p][r] = IF j.kind = "grant" THEN <<>> ELSE <<"role_granted">>
    BY <1>2, <2>1 DEF GrantInv, LedgerReplaysToGrants
  <2>3. events'[p][r] = CASE grants'[p][r] = "none" -> <<>>
                          [] grants'[p][r] = "active" -> <<"role_granted">>
                          [] grants'[p][r] = "revoked" -> <<"role_granted", "role_revoked">>
    <3>1. CASE j.kind = "grant"
      BY <1>8, <2>2, <3>1
    <3>2. CASE j.kind = "revoke"
      <4>1. Append(<<"role_granted">>, "role_revoked") = <<"role_granted", "role_revoked">>
        BY SecondEvent DEF EventKinds
      <4>2. grants'[p][r] = "revoked" /\ events'[p][r] = <<"role_granted", "role_revoked">>
        BY <1>8, <2>2, <3>2, <4>1
      <4> QED  BY <4>2
    <3> QED  BY <1>2, <3>1, <3>2
  <2> SUFFICES ASSUME NEW q \in Principals, NEW u \in Roles
               PROVE  events'[q][u] =
                        CASE grants'[q][u] = "none" -> <<>>
                          [] grants'[q][u] = "active" -> <<"role_granted">>
                          [] grants'[q][u] = "revoked" -> <<"role_granted", "role_revoked">>
    BY DEF LedgerReplaysToGrants
  <2>4. CASE q = p /\ u = r
    BY <2>3, <2>4
  <2>5. CASE q # p \/ u # r
    BY <1>9, <2>5 DEF GrantInv, LedgerReplaysToGrants
  <2> QED  BY <2>4, <2>5
<1> QED  BY <1>5, <1>7, <1>10, <1>11 DEF GrantInv

\* The grant rows and their ledger agree after every history of operator
\* sessions: sessions that race on a grant leave the events of the one that
\* got its row (grant_admin_role, revoke_admin_role, admin_role_grants_guard).
THEOREM GrantLedgerReplays == Spec => []LedgerReplaysToGrants
<1>1. Init => GrantInv
  BY DEF Init, GrantInit, GrantInv, GrantTypeOK, SessionState, NoJob, JobNamed, WritesHold,
         LedgerReplaysToGrants
<1>2. GrantInv /\ [Next]_vars => GrantInv'
  <2> SUFFICES ASSUME GrantInv, [Next]_vars PROVE GrantInv'
    OBVIOUS
  <2>1. ASSUME NEW s \in Sessions, NEW kind \in {"grant", "revoke"}, NEW p \in Principals,
               NEW r \in Roles, BeginJob(s, kind, p, r)
        PROVE  GrantInv'
    <3> DEFINE j == [step |-> "read", kind |-> kind, principal |-> p, role |-> r]
    <3>1. j \in SessionState /\ JobNamed(j) /\ j.step # "written"
      BY DEF SessionState, JobNamed
    <3>2. session' = [session EXCEPT ![s] = j] /\ UNCHANGED <<grants, events>>
      BY <2>1 DEF BeginJob
    <3> HIDE DEF j
    <3> QED  BY <3>1, <3>2, ReadingStep
  <2>2. ASSUME NEW s \in Sessions, AbortJob(s)
        PROVE  GrantInv'
    <3>1. NoJob \in SessionState /\ JobNamed(NoJob) /\ NoJob.step # "written"
      BY DEF NoJob, SessionState, JobNamed
    <3> QED  BY <2>2, <3>1, ReadingStep DEF AbortJob
  <2>3. CASE UNCHANGED <<grants, session, events>>
    BY <2>3 DEF GrantInv, GrantTypeOK, WritesHold, WriteAccepted, RowLocked,
                LedgerReplaysToGrants
  <2>4. OperatorStep \/ UNCHANGED <<grants, session, events>>
    BY DEF Next, Authorize, RecordAction, WritePolicy, CommitRefusal, FailChange, vars
  <2> QED  BY <2>1, <2>2, <2>3, <2>4, GrantWriteStep, GrantCommitStep DEF OperatorStep, GrantNext
<1>3. GrantInv => LedgerReplaysToGrants
  BY DEF GrantInv
<1> QED  BY <1>1, <1>2, <1>3, PTL DEF Spec
-----------------------------------------------------------------------------
(***************************************************************************)
(* The statuses of an organization and its tenants.                        *)
(***************************************************************************)

\* An organization's status is the one its last event tells.  A commit keeps
\* this because no session on the organization passes without an UPDATE.
TenantInv ==
    /\ T!TypeOK
    /\ \A s \in TenantSessions : operating[s].step = "kept" => operating[s].subject # T!Org
    /\ tenantStatus[T!Org] = T!Told(T!Org)

LEMMA TenantCommitStep ==
    ASSUME TenantInv, NEW s \in TenantSessions, T!Commit(s)
    PROVE  TenantInv'
<1> DEFINE j == operating[s]
<1>1. j \in T!JobState /\ j.subject \in T!Subjects /\ j.target \in T!Status
  BY DEF TenantInv, T!TypeOK, T!JobState
<1>2. T!TypeOK'
  BY <1>1, ElementOfSeq DEF TenantInv, T!TypeOK, T!Commit, T!JobState, T!NoJob, T!Org,
                            T!Subjects, T!Status
<1>3. ASSUME NEW o \in TenantSessions, operating'[o].step = "kept"
      PROVE  operating'[o].subject # T!Org
  BY <1>3 DEF TenantInv, T!TypeOK, T!Commit, T!NoJob
<1>4. tenantStatus'[T!Org] = T!Told(T!Org)'
  <2>1. T!Org \in T!Subjects /\ tenantEvents[T!Org] \in Seq(T!Status)
    BY DEF TenantInv, T!TypeOK, T!Subjects
  <2>2. CASE j.subject = T!Org
    <3>1. j.step = "updated"
      BY <2>2 DEF TenantInv, T!Commit
    <3>2. tenantStatus'[T!Org] = j.target
      BY <2>1, <2>2, <3>1 DEF TenantInv, T!TypeOK, T!Commit
    <3>3. tenantEvents'[T!Org] = Append(tenantEvents[T!Org], j.target)
      BY <2>1, <2>2 DEF TenantInv, T!TypeOK, T!Commit
    <3>4. /\ tenantEvents'[T!Org] # <<>>
          /\ tenantEvents'[T!Org][Len(tenantEvents'[T!Org])] = j.target
      BY <1>1, <2>1, <3>3
    <3> QED  BY <3>2, <3>4 DEF T!Told
  <2>3. CASE j.subject # T!Org
    <3>1. tenantStatus'[T!Org] = tenantStatus[T!Org] /\ tenantEvents'[T!Org] = tenantEvents[T!Org]
      BY <2>1, <2>3 DEF TenantInv, T!TypeOK, T!Commit
    <3> QED  BY <3>1 DEF TenantInv, T!Told
  <2> QED  BY <2>2, <2>3
<1> QED  BY <1>2, <1>3, <1>4 DEF TenantInv

\* A session that reads, writes or gives up changes no committed row.
LEMMA TenantSessionStep ==
    ASSUME TenantInv, NEW s \in TenantSessions, NEW j \in T!JobState,
           j.step = "kept" => j.subject # T!Org,
           operating' = [operating EXCEPT ![s] = j],
           UNCHANGED <<tenantStatus, tenantEvents>>
    PROVE  TenantInv'
<1>1. T!TypeOK'
  BY DEF TenantInv, T!TypeOK
<1>2. ASSUME NEW o \in TenantSessions, operating'[o].step = "kept"
      PROVE  operating'[o].subject # T!Org
  BY <1>2 DEF TenantInv, T!TypeOK
<1> QED  BY <1>1, <1>2 DEF TenantInv, T!Told

LEMMA TenantNextStep ==
    ASSUME TenantInv, [T!Next]_tvars
    PROVE  TenantInv'
<1>0. CASE UNCHANGED tvars
  BY <1>0 DEF TenantInv, tvars, T!TypeOK, T!Told
<1>1. ASSUME NEW s \in TenantSessions, NEW x \in T!Subjects, NEW target \in T!Status,
             T!ReadRow(s, x, target)
      PROVE  TenantInv'
  <2> DEFINE j == [step |-> "read", subject |-> x, target |-> target, seen |-> tenantStatus[x]]
  <2>1. j \in T!JobState /\ j.step # "kept"
    BY DEF TenantInv, T!TypeOK, T!JobState
  <2>2. operating' = [operating EXCEPT ![s] = j] /\ UNCHANGED <<tenantStatus, tenantEvents>>
    BY <1>1 DEF T!ReadRow
  <2> HIDE DEF j
  <2> QED  BY <2>1, <2>2, TenantSessionStep
<1>2. ASSUME NEW s \in TenantSessions, T!UpdateRow(s)
      PROVE  TenantInv'
  <2> DEFINE j == [operating[s] EXCEPT !.step = "updated"]
  <2>1. j \in T!JobState /\ j.step # "kept"
    BY DEF TenantInv, T!TypeOK, T!JobState
  <2>2. operating' = [operating EXCEPT ![s] = j] /\ UNCHANGED <<tenantStatus, tenantEvents>>
    BY <1>2 DEF T!UpdateRow
  <2> HIDE DEF j
  <2> QED  BY <2>1, <2>2, TenantSessionStep
<1>3. ASSUME NEW s \in TenantSessions, T!KeepRow(s)
      PROVE  TenantInv'
  <2> DEFINE j == [operating[s] EXCEPT !.step = "kept"]
  <2>1. j \in T!JobState /\ j.subject # T!Org
    BY <1>3 DEF TenantInv, T!TypeOK, T!JobState, T!KeepRow, T!SendsUpdate
  <2>2. operating' = [operating EXCEPT ![s] = j] /\ UNCHANGED <<tenantStatus, tenantEvents>>
    BY <1>3 DEF T!KeepRow
  <2> HIDE DEF j
  <2> QED  BY <2>1, <2>2, TenantSessionStep
<1>4. ASSUME NEW s \in TenantSessions, T!Abort(s)
      PROVE  TenantInv'
  <2>1. T!NoJob \in T!JobState /\ T!NoJob.step # "kept"
    BY DEF T!NoJob, T!JobState, T!Subjects, T!Status
  <2> QED  BY <1>4, <2>1, TenantSessionStep DEF T!Abort
<1> QED  BY <1>0, <1>1, <1>2, <1>3, <1>4, TenantCommitStep DEF T!Next

\* A suspended organization binds the keys of all its tenants and a reinstated
\* one releases them, for any tenants and any racing sessions
\* (_set_org_status sends its UPDATE always, so its event cannot be committed
\* without the status it tells; resolve_tenant_api_key joins both statuses).
THEOREM OrganizationBindsItsTenants == AdministrationSpec => []OrganizationBinds
<1>1. AdministrationInit => TenantInv
  BY DEF AdministrationInit, TenantInv, T!Init, T!TypeOK, T!NoJob, T!JobState, T!Subjects,
         T!Status, T!Told
<1>2. TenantInv /\ [AdministrationNext]_dvars => TenantInv'
  <2> SUFFICES ASSUME TenantInv, [AdministrationNext]_dvars PROVE TenantInv'
    OBVIOUS
  <2>1. [T!Next]_tvars
    BY DEF AdministrationNext, dvars
  <2> QED  BY <2>1, TenantNextStep
<1>3. TenantInv => OrganizationBinds
  BY DEF TenantInv, OrganizationBinds, T!OrganizationBinds, T!KeyResolves
<1> QED  BY <1>1, <1>2, <1>3, PTL DEF AdministrationSpec

\* What holds of the policy component holds of the sum that the runs explore.
THEOREM AdministrationKeepsPolicy == AdministrationSpec => Spec
<1>1. AdministrationInit => Init
  BY DEF AdministrationInit
<1>2. [AdministrationNext]_dvars => [Next]_vars
  BY DEF AdministrationNext, dvars
<1> QED  BY <1>1, <1>2, PTL DEF AdministrationSpec, Spec
=============================================================================
