------------------------------ MODULE RunEngine ------------------------------
(***************************************************************************)
(* The durable workflow runtime (app/runtime/engine.py) under the          *)
(* emergency latch: what starts, resumes, blocks and finishes runs.        *)
(*                                                                         *)
(* Every entry point of the engine opens with enforce_boundary, which      *)
(* locks the project row until the entry point's transaction commits, so   *)
(* an entry point is one action.  A boundary that finds the latch active   *)
(* pauses the run and raises; the raise rolls the pause back with the rest *)
(* of the transaction, so such a call changes nothing.  Approval decisions *)
(* and cost entries are written without the project lock.                  *)
(***************************************************************************)
EXTENDS EmergencyControl

VARIABLES approval,  \* per run: status of its workflow.resume approval request
          costStop   \* what cost.evaluate returns for the project now

vars == <<ecVars, approval, costStop>>

\* The request is high-risk and explicit: it neither expires nor proceeds by
\* policy.
ApprovalStatus == {"none", "pending", "approved", "rejected", "cancelled"}

Init ==
    /\ ECInit
    /\ approval = [r \in Runs |-> "none"]
    /\ costStop = FALSE

-----------------------------------------------------------------------------
\* Insertion of a project_runs row; its foreign key waits for the project lock.
CreateRun(r) ==
    /\ runs[r] = "absent"
    /\ runs' = [runs EXCEPT ![r] = "created"]
    /\ UNCHANGED <<approval, costStop>>

\* A run of the given kind moves to a status within one entry point that has
\* passed the boundary.
Moves(r, kind, to) ==
    /\ RunKind[r] = kind
    /\ NotStopped
    /\ runs' = [runs EXCEPT ![r] = to]

\* start_demo_run: run node_a, stop at the checkpoint after it, still running.
StartDemoRun(r) ==
    /\ IsValidTransition(runs[r], "running")
    /\ Moves(r, "demo", "running")
    /\ UNCHANGED <<approval, costStop>>

\* resume_demo_run: run node_b and complete.  It records the resumption
\* without a transition, so the completion must be valid from the run's
\* status; from paused it is not, and the transaction rolls back.
ResumeDemoRun(r) ==
    /\ IsValidTransition(runs[r], "completed")
    /\ Moves(r, "demo", "completed")
    /\ UNCHANGED <<approval, costStop>>

\* start_approval_run: stop at the gate, request approval once, block.
StartApprovalRun(r) ==
    /\ ValidPath(runs[r], "running", "blocked")
    /\ Moves(r, "approval", "blocked")
    /\ approval' = [approval EXCEPT ![r] = IF @ = "none" THEN "pending" ELSE @]
    /\ UNCHANGED costStop

\* A variant of resume_approval_run that runs the protected node as soon as a
\* decision exists.
ResumeApprovalRunAnyDecision(r) ==
    /\ approval[r] \notin {"none", "pending"}
    /\ ValidPath(runs[r], "running", "completed")
    /\ Moves(r, "approval", "completed")
    /\ UNCHANGED <<approval, costStop>>

\* resume_approval_run: an approved request runs the protected node and
\* completes; any other decided request fails the run; a pending one waits.
ResumeApprovalRun(r) ==
    /\ approval[r] \notin {"none", "pending"}
    /\ IF approval[r] = "approved"
         THEN ValidPath(runs[r], "running", "completed") /\ Moves(r, "approval", "completed")
         ELSE IsValidTransition(runs[r], "failed") /\ Moves(r, "approval", "failed")
    /\ UNCHANGED <<approval, costStop>>

\* run_retry_demo and run_failing_demo: the node succeeds within its bounded
\* attempts, or the run fails.
RunRetryDemo(r, to) ==
    /\ ValidPath(runs[r], "running", to)
    /\ Moves(r, "retry", to)
    /\ UNCHANGED <<approval, costStop>>

\* start_costguard_run: a STOP pauses before the node, otherwise it completes.
StartCostguardRun(r) ==
    LET to == IF costStop THEN "paused" ELSE "completed" IN
    /\ ValidPath(runs[r], "running", to)
    /\ Moves(r, "costguard", to)
    /\ UNCHANGED <<approval, costStop>>

\* resume_costguard_run: still STOP stays paused, otherwise it completes.
ResumeCostguardRun(r) ==
    /\ ~costStop
    /\ ValidPath(runs[r], "running", "completed")
    /\ Moves(r, "costguard", "completed")
    /\ UNCHANGED <<approval, costStop>>

\* enforce_boundary waits until no request of the emergency control holds the
\* project row, and so does the foreign key of a new run.
EngineNext ==
    /\ LockFree
    /\ \E r \in Runs :
         \/ CreateRun(r)
         \/ StartDemoRun(r) \/ ResumeDemoRun(r)
         \/ StartApprovalRun(r) \/ ResumeApprovalRun(r)
         \/ StartCostguardRun(r) \/ ResumeCostguardRun(r)
         \/ \E to \in Terminal : RunRetryDemo(r, to)
    /\ UNCHANGED <<sourceVars, bindings, events, auths, request, seen>>

\* ApprovalRepository.decide on a workflow.resume request.
DecideApproval(r) ==
    /\ approval[r] = "pending"
    /\ \E d \in {"approved", "rejected", "cancelled"} : approval' = [approval EXCEPT ![r] = d]
    /\ UNCHANGED <<ecVars, costStop>>

\* Cost entries and budgets change, or the day does.
CostChanges ==
    /\ costStop' = ~costStop
    /\ UNCHANGED <<ecVars, approval>>

Next ==
    \/ ECNext /\ UNCHANGED <<approval, costStop>>
    \/ EngineNext
    \/ \E r \in Runs : DecideApproval(r)
    \/ CostChanges

Spec == Init /\ [][Next]_vars

-----------------------------------------------------------------------------
TypeOK ==
    /\ ECTypeOK
    /\ approval \in [Runs -> ApprovalStatus]
    /\ costStop \in BOOLEAN

\* While the latch is active no run is committed as running: activation pauses
\* every running run and no entry point starts or resumes one afterwards
\* (activate, assert_project_not_stopped, enforce_boundary).
StoppedMeansStopped ==
    LatchState = "active" => \A r \in Runs : runs[r] # "running"

\* The event chain starts with one anchor and then alternates activated and
\* cleared, and whoever clears is not who activated: two custodians
\* (slice54_validate_event, clear).
ChainAlternates ==
    \A i \in DOMAIN events :
        /\ i = 1 <=> events[i].type = "armed_anchor"
        /\ i > 1 /\ i % 2 = 0 => events[i].type = "activated"
        /\ i > 1 /\ i % 2 = 1 => events[i].type = "cleared"
                                  /\ events[i].actor # events[i-1].actor

\* A retried or duplicated activate or clear never takes effect twice, however
\* late it arrives: one key, one event (uq_ese_idempotency).
KeyActsOnce ==
    \A i, j \in DOMAIN events : events[i].key = events[j].key => i = j

\* Authority is never older than the lock.  Every binding, every event and every
\* rollback authorization is recorded on a policy that names its actor, a
\* checklist, an autonomy policy under which deploy_production needs approval
\* and, for an authorization, release evidence, each of which was the recorded
\* one at some moment since the request locked the project row, although the
\* request chose its binding before (_assert_current_member, append_binding,
\* authorize_rollback).  Not at one moment, nor still at the insert: the four
\* are separate reads and their writers do not take the lock.
Stood(b, a) ==
    /\ a \in b.policy /\ b.policy \in seen.policy
    /\ b.checklist \in seen.checklist
    /\ b.stamp \in seen.stamp

RecordedUnderSourcesSinceLock ==
    [][/\ \A i \in DOMAIN bindings' \ DOMAIN bindings :
            Stood(bindings'[i], bindings'[i].by) /\ bindings'[i].release \in seen.release
       /\ \A i \in DOMAIN events' \ DOMAIN events :
            Stood(bindings'[events'[i].binding], events'[i].actor)
       /\ \A i \in DOMAIN auths' \ DOMAIN auths :
            LET b == bindings[auths'[i].binding] IN
            /\ Stood(b, auths'[i].actor)
            /\ auths'[i].release = b.release
            /\ b.release \in seen.release \ {NoRelease}]_vars

\* The protected node of an approval run runs only after its request was
\* approved (resume_approval_run, fail-closed gate).
ProtectedOnlyIfApproved ==
    \A r \in Runs :
        RunKind[r] = "approval" /\ runs[r] = "completed" => approval[r] = "approved"

\* The effects recorded with the newest activation still describe the runs
\* while the latch is active: paused and already_paused runs are paused,
\* not_started ones created, already_blocked ones blocked
\* (emergency_stop_run_effects, status_after).
EffectInventoryHolds ==
    LatchState = "active" =>
        \A r \in Runs :
            /\ LatestEvent.effect[r] \in {"paused", "already_paused"} => runs[r] = "paused"
            /\ LatestEvent.effect[r] = "already_blocked" => runs[r] = "blocked"
            /\ LatestEvent.effect[r] = "not_started" => runs[r] = "created"
            /\ LatestEvent.effect[r] = "none" => runs[r] \in {"absent", "created"} \cup Terminal

-----------------------------------------------------------------------------
Running == {r \in Runs : runs[r] = "running"}
Stop == INSTANCE StopSpec WITH latch <- LatchState, running <- Running

\* Bindings, requests, engine entry points and approvals together implement
\* the emergency stop that StopSpec promises.
ImplementsStop == Stop!Spec
=============================================================================
