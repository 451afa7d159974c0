---------------------------- MODULE MCAdminPolicy ----------------------------
(***************************************************************************)
(* Two actions, one of them mandatory, and the override maps that differ   *)
(* in what the decision and the writer look at; and, as a component of its *)
(* own, the tenants whose status operators change.                         *)
(***************************************************************************)
EXTENDS Administration, TLC

CONSTANTS build, deploy

OneTenant == {"tenant"}

MCBaseLevel == [a \in {build, deploy} |-> IF a = build THEN 0 ELSE 1]

Entry(min, appr, allow) == [min_level |-> min, requires_approval |-> appr, allow |-> allow]

MCMaps == { EmptyMap,
            [a \in {build, deploy} |-> Entry(1, "absent", "absent")],
            [a \in {build, deploy} |-> IF a = build THEN Entry(NoMinLevel, "true", "absent")
                                                    ELSE Entry(NoMinLevel, "absent", "false")],
            [a \in {build} |-> Entry(0, "false", "absent")],
            [a \in {build} |-> Entry(2, "absent", "absent")] }

Symmetry == Permutations(Txns) \cup Permutations(Sessions)

\* Operator sessions race with each other before the first policy change, and
\* one at a time with the changes.
OneSessionBesideChanges ==
    \/ \A t \in Txns : change[t] = NoChange
    \/ Cardinality({s \in Sessions : session[s] # NoJob}) <= 1
=============================================================================
