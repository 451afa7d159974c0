--------------------------- MODULE AuthorityMatrix ---------------------------
(***************************************************************************)
(* The autonomy decision of app/policy: a code-defined matrix of actions,  *)
(* tighten-only per-project overrides, and the fail-closed decision over a *)
(* stored policy row.  A level A0..A5 is the integer 0..MaxLevel.          *)
(***************************************************************************)
EXTENDS Integers, FiniteSets

CONSTANTS
    Actions,      \* the keys of MATRIX
    Mandatory,    \* its mandatory-approval actions
    BaseLevel,    \* the matrix's min_level of each action
    MaxLevel      \* 5 in the code (A5)

ASSUME MatrixAssumption ==
    /\ MaxLevel \in Nat
    /\ IsFiniteSet(Actions)
    /\ Mandatory \subseteq Actions
    /\ BaseLevel \in [Actions -> 0..MaxLevel]

Levels == 0..MaxLevel

\* A JSON flag is missing, true or false; a missing min_level is -1.
Flag == {"absent", "true", "false"}
NoMinLevel == -1

\* One action's override, {"min_level": .., "requires_approval": .., "allow": ..},
\* as it can be stored.
Override == [min_level : NoMinLevel..MaxLevel, requires_approval : Flag, allow : Flag]

\* The override maps over the known actions: some of them have an entry.
OverrideMap == UNION {[S -> Override] : S \in SUBSET Actions}

EmptyMap == [a \in {} |-> [min_level |-> NoMinLevel,
                           requires_approval |-> "absent", allow |-> "absent"]]

\* An override entry before it is validated: any natural number as min_level.
RawOverride == [min_level : Nat \cup {NoMinLevel}, requires_approval : Flag, allow : Flag]

\* A validator without the A5 cap.
ValidOverrideUncapped(a, o) ==
    /\ o.min_level # NoMinLevel => o.min_level >= BaseLevel[a]
    /\ o.requires_approval # "false"
    /\ o.allow # "true"

\* What apply_overrides accepts for one action: nothing that relaxes its rule.
ValidOverride(a, o) ==
    /\ o.min_level # NoMinLevel => o.min_level \in BaseLevel[a]..MaxLevel
    /\ o.requires_approval # "false"
    /\ o.allow # "true"

validate_overrides(ov) == \A a \in DOMAIN ov : a \in Actions /\ ValidOverride(a, ov[a])

\* An override that replaces the rule's approval flag instead of adding to it.
EffectiveRuleReplacing(a, ov) ==
    IF a \notin DOMAIN ov
    THEN [min_level |-> BaseLevel[a], requires_approval |-> a \in Mandatory, disabled |-> FALSE]
    ELSE [min_level |-> IF ov[a].min_level = NoMinLevel THEN BaseLevel[a] ELSE ov[a].min_level,
          requires_approval |-> ov[a].requires_approval = "true",
          disabled |-> ov[a].allow = "false"]

\* apply_overrides on a validated entry.  In MATRIX approval is required
\* exactly of the mandatory actions.
EffectiveRule(a, ov) ==
    IF a \notin DOMAIN ov
    THEN [min_level |-> BaseLevel[a], requires_approval |-> a \in Mandatory, disabled |-> FALSE]
    ELSE [min_level |-> IF ov[a].min_level = NoMinLevel THEN BaseLevel[a] ELSE ov[a].min_level,
          requires_approval |-> a \in Mandatory \/ ov[a].requires_approval = "true",
          disabled |-> ov[a].allow = "false"]

check_authority(a, level, ov) ==
    LET rule == EffectiveRule(a, ov)
    IN  IF a \notin Actions THEN "deny"
        ELSE IF rule.disabled \/ level < rule.min_level THEN "deny"
        ELSE IF rule.requires_approval THEN "needs_approval"
        ELSE "allow"

\* A policy row; a project without one has present = FALSE.
PolicyRow == [present : BOOLEAN, level : Levels, overrides : OverrideMap]
NoPolicy == [present |-> FALSE, level |-> 0, overrides |-> EmptyMap]

\* AutonomyPolicyRepository.decision_for: no row or any bad override denies.
decision_for(policy, a) ==
    IF ~policy.present \/ ~validate_overrides(policy.overrides) THEN "deny"
    ELSE check_authority(a, policy.level, policy.overrides)

\* How much a decision permits.
Permits(decision) == CASE decision = "deny" -> 0
                       [] decision = "needs_approval" -> 1
                       [] OTHER -> 2
=============================================================================
