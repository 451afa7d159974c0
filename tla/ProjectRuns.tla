----------------------------- MODULE ProjectRuns -----------------------------
(***************************************************************************)
(* project_runs.status and its transition table                            *)
(* (app/repositories/runs.py), shared by the components that move runs.    *)
(***************************************************************************)

CONSTANTS Runs, RunKind

RunKinds == {"demo", "approval", "costguard", "retry"}

ASSUME RunKindAssumption == RunKind \in [Runs -> RunKinds]

\* "absent" is a run whose row has not been inserted yet.
RunStatus == {"absent", "created", "running", "paused", "blocked", "completed", "failed"}
Terminal == {"completed", "failed"}

\* _ALLOWED
Allowed(from) ==
    CASE from = "created" -> {"running"}
      [] from = "running" -> {"completed", "failed", "paused", "blocked"}
      [] from \in {"paused", "blocked"} -> {"running", "failed"}
      [] OTHER -> {}

IsValidTransition(from, to) == to \in Allowed(from)

\* Two transitions in one transaction, the second from where the first led.
ValidPath(from, via, to) == IsValidTransition(from, via) /\ IsValidTransition(via, to)
=============================================================================
