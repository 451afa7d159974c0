-------------------------- MODULE EmergencyControl --------------------------
(***************************************************************************)
(* The project emergency latch: authority bindings, the activate / clear   *)
(* event chain, and rollback authorizations                                *)
(* (app/release/emergency_control_service.py,                              *)
(* app/repositories/emergency_controls.py, migration 0053).                *)
(*                                                                         *)
(* A request is one READ COMMITTED transaction.  What it reads before it   *)
(* locks the project row (Submit) may be stale when it gets the lock.      *)
(* From the lock to the commit no other locking transaction of the project *)
(* runs: latch, bindings, authorizations and runs stand still.  The        *)
(* sources of authority do not, their writers take no project lock; so     *)
(* each source is read by a step of its own, and what the request writes   *)
(* is its last step.                                                       *)
(***************************************************************************)
EXTENDS Integers, Sequences, FiniteSets, ProjectRuns

CONSTANTS Principals,   \* request-authenticated human subjects
          Policies,     \* approver sets a recorded approval policy may name
          Checklists,   \* contents a recorded go-live checklist may have
          Releases,     \* current release / rollback-evidence bindings
          Keys,         \* idempotency keys clients use
          Clients,      \* concurrent API requests
          AnchorKey,    \* the digest the armed anchor derives for itself
          NoChecklist,  \* no declared go-live checklist
          NoRelease,    \* no current gate-eligible rollback evidence
          MaxEvents, MaxBindings, MaxStamp   \* bounds

ASSUME PoliciesAssumption == Policies \subseteq SUBSET Principals
ASSUME BoundsAssumption == MaxEvents \in Nat /\ MaxBindings \in Nat /\ MaxStamp \in Nat
ASSUME KeysAssumption == AnchorKey \notin Keys /\ NoRelease \notin Releases

VARIABLES policy,    \* approvers of the declared human_approval_policy; {} if there is none
          checklist, \* the declared go_live_checklist
          autonomy,  \* the autonomy policy: update stamp, and whether deploy_production needs approval
          release,   \* the current release / rollback-evidence binding
          bindings,  \* emergency_control_bindings, oldest first
          events,    \* emergency_stop_events, oldest first
          auths,     \* emergency_rollback_authorizations, oldest first
          request,   \* per client: its open request and what it has read
          seen,      \* history: the sources there were since the project row was locked
          runs       \* project_runs.status

sourceVars == <<policy, checklist, autonomy, release>>
ecVars == <<sourceVars, bindings, events, auths, request, seen, runs>>

Ops == {"activate", "clear", "authorize_rollback"}
EventTypes == {"armed_anchor", "activated", "cleared"}
EffectCodes == {"none", "paused", "not_started", "already_paused", "already_blocked"}

\* emergency_control_bindings: the authority snapshot a binding freezes.  Its
\* members are exactly the approvers of the policy it was made from.
Binding == [policy : Policies, checklist : Checklists, stamp : Nat,
            release : Releases \cup {NoRelease}, by : Principals, key : Keys]
\* emergency_stop_events with the emergency_stop_run_effects of an activation.
Event == [type : EventTypes, binding : Nat, actor : Principals,
          key : Keys \cup {AnchorKey}, effect : [Runs -> EffectCodes]]
Authorization == [binding : Nat, actor : Principals, key : Keys, release : Releases]

\* A request before the lock, and then after each of its statements.
Stages == {"submitted", "locked", "policy", "checklist", "autonomy", "release"}
Sources == [policy : Policies \cup {{}}, checklist : Checklists \cup {NoChecklist},
            stamp : Nat, release : Releases \cup {NoRelease}]
Request == [op : Ops \cup {"bind"}, actor : Principals, key : Keys, binding : Nat,
            at : Stages, read : Sources]
NoRequest == [op |-> "none", at |-> "none"]
Unread == [policy |-> {}, checklist |-> NoChecklist, stamp |-> 0, release |-> NoRelease]

Seen == [policy : SUBSET (Policies \cup {{}}), checklist : SUBSET (Checklists \cup {NoChecklist}),
         stamp : SUBSET Nat, release : SUBSET (Releases \cup {NoRelease})]
NothingSeen == [policy |-> {}, checklist |-> {}, stamp |-> {}, release |-> {}]

ECInit ==
    /\ policy = {}
    /\ checklist = NoChecklist
    /\ autonomy = [stamp |-> 0, eligible |-> FALSE]
    /\ release = NoRelease
    /\ bindings = <<>>
    /\ events = <<>>
    /\ auths = <<>>
    /\ request = [c \in Clients |-> NoRequest]
    /\ seen = NothingSeen
    /\ runs = [r \in Runs |-> "absent"]

-----------------------------------------------------------------------------
\* latest_stop_event: created_at is clock_timestamp() under the project lock,
\* so the newest event is the one appended last.
LatestEvent == events[Len(events)]

\* state_after of the newest event, as status() reports it.
LatchState ==
    IF events = <<>> THEN "unconfigured"
    ELSE IF LatestEvent.type = "activated" THEN "active" ELSE "armed"

\* A variant of assert_project_not_stopped that takes the lock but never looks.
NotStoppedUnchecked == TRUE

\* assert_project_not_stopped, enforce_boundary and the
\* project_runs_emergency_latch_guard trigger.
NotStopped == LatchState # "active"

\* A variant that inventories the untouched runs too.
EffectOfAll(status) ==
    CASE status = "running" -> "paused"
      [] status = "created" -> "not_started"
      [] status = "paused"  -> "already_paused"
      [] status = "blocked" -> "already_blocked"
      [] OTHER -> status

\* The status of a run after an activation, and the effect code recorded.
EffectOf(status) ==
    CASE status = "running" -> "paused"
      [] status = "created" -> "not_started"
      [] status = "paused"  -> "already_paused"
      [] status = "blocked" -> "already_blocked"
      [] OTHER -> "none"

NoEffect == [r \in Runs |-> "none"]

-----------------------------------------------------------------------------
(* Who has the project row.                                                *)

\* A request that has locked the project row and has not ended.
Holds(c) == request[c].at \notin {"none", "submitted"}

LockFree == \A c \in Clients : ~Holds(c)

\* The transaction of a client ends, and its lock with it.
Leave(c) ==
    /\ request' = [request EXCEPT ![c] = NoRequest]
    /\ seen' = IF Holds(c) THEN NothingSeen ELSE seen

-----------------------------------------------------------------------------
(* Where authority comes from: the recorded policy and checklist           *)
(* categories, the autonomy policy, and the release evidence.  None of     *)
(* these writers takes the project lock.                                   *)

RecordPolicy(p) ==
    /\ policy' = p
    /\ seen' = IF LockFree THEN seen ELSE [seen EXCEPT !.policy = @ \cup {p}]
    /\ UNCHANGED <<checklist, autonomy, release, bindings, events, auths, request, runs>>

RecordChecklist(l) ==
    /\ checklist' = l
    /\ seen' = IF LockFree THEN seen ELSE [seen EXCEPT !.checklist = @ \cup {l}]
    /\ UNCHANGED <<policy, autonomy, release, bindings, events, auths, request, runs>>

\* The stamps seen are those under which deploy_production needs approval.
SetAutonomy(e) ==
    /\ autonomy.stamp < MaxStamp
    /\ autonomy' = [stamp |-> autonomy.stamp + 1, eligible |-> e]
    /\ seen' = IF LockFree \/ ~e THEN seen
               ELSE [seen EXCEPT !.stamp = @ \cup {autonomy.stamp + 1}]
    /\ UNCHANGED <<policy, checklist, release, bindings, events, auths, request, runs>>

SetRelease(x) ==
    /\ release' = x
    /\ seen' = IF LockFree THEN seen ELSE [seen EXCEPT !.release = @ \cup {x}]
    /\ UNCHANGED <<policy, checklist, autonomy, bindings, events, auths, request, runs>>

SeenNow == [policy |-> {policy}, checklist |-> {checklist},
            stamp |-> IF autonomy.eligible THEN {autonomy.stamp} ELSE {},
            release |-> {release}]

-----------------------------------------------------------------------------
(* The statements of a request.                                            *)

\* _current_binding_member and the replay lookup, both before the lock.
Submit(c, op, a, k) ==
    /\ request[c] = NoRequest
    /\ bindings # <<>>
    /\ bindings[Len(bindings)].policy = policy /\ a \in policy
    /\ bindings[Len(bindings)].checklist = checklist
    /\ IF op = "authorize_rollback" THEN \A i \in DOMAIN auths : auths[i].key # k
                                    ELSE \A i \in DOMAIN events : events[i].key # k
    /\ request' = [request EXCEPT ![c] =
                     [op |-> op, actor |-> a, key |-> k, binding |-> Len(bindings),
                      at |-> "submitted", read |-> Unread]]
    /\ UNCHANGED <<sourceVars, bindings, events, auths, seen, runs>>

\* lock_project_row.
Lock(c) ==
    /\ request[c].at = "submitted" /\ LockFree
    /\ request' = [request EXCEPT ![c] = [@ EXCEPT !.at = "locked"]]
    /\ seen' = SeenNow
    /\ UNCHANGED <<sourceVars, bindings, events, auths, runs>>

\* bind locks the row first; a reused key replays and changes nothing.
LockToBind(c, a, k) ==
    /\ request[c] = NoRequest /\ LockFree
    /\ \A i \in DOMAIN bindings : bindings[i].key # k
    /\ request' = [request EXCEPT ![c] =
                     [op |-> "bind", actor |-> a, key |-> k, binding |-> 0,
                      at |-> "locked", read |-> Unread]]
    /\ seen' = SeenNow
    /\ UNCHANGED <<sourceVars, bindings, events, auths, runs>>

\* The request executes one more read.
Reads(c, stage, sources) ==
    /\ request' = [request EXCEPT ![c] = [@ EXCEPT !.at = stage, !.read = sources]]
    /\ UNCHANGED <<sourceVars, bindings, events, auths, seen, runs>>

\* current_authority_sources, statement by statement, under the lock; and what
\* append_binding and _assert_current_member ask of each source.  A request that
\* reads anything else can only be refused.  First the policy category: bind
\* needs two approvers, the others the policy their binding froze.
ReadPolicy(c) ==
    LET q == request[c] IN
    /\ q.at = "locked"
    /\ q.actor \in policy
    /\ IF q.op = "bind" THEN Cardinality(policy) >= 2
                        ELSE bindings[q.binding].policy = policy
    /\ Reads(c, "policy", [q.read EXCEPT !.policy = policy])

\* Then the checklist category, by a second get_category.
ReadChecklist(c) ==
    LET q == request[c] IN
    /\ q.at = "policy"
    /\ checklist # NoChecklist
    /\ q.op # "bind" => bindings[q.binding].checklist = checklist
    /\ Reads(c, "checklist", [q.read EXCEPT !.checklist = checklist])

\* Then the autonomy policy; decision_for selects the row again but is given the
\* object the session already holds.
ReadAutonomy(c) ==
    LET q == request[c] IN
    /\ q.at = "checklist"
    /\ autonomy.eligible
    /\ q.op # "bind" => bindings[q.binding].stamp = autonomy.stamp
    /\ Reads(c, "autonomy", [q.read EXCEPT !.stamp = autonomy.stamp])

\* _current_release_binding: bind freezes whatever there is, authorize_rollback
\* needs the evidence its binding froze.
ReadRelease(c) ==
    LET q == request[c] IN
    /\ q.at = "autonomy" /\ q.op \in {"bind", "authorize_rollback"}
    /\ q.op # "bind" => release # NoRelease /\ bindings[q.binding].release = release
    /\ Reads(c, "release", [q.read EXCEPT !.release = release])

-----------------------------------------------------------------------------
(* What a request writes, and its commit.                                  *)

\* append_binding: freeze the authority that was read; the first binding of a
\* project also arms the latch.
Bind(c) ==
    LET q == request[c] IN
    /\ q.op = "bind" /\ q.at = "release"
    /\ Len(bindings) < MaxBindings
    /\ Len(events) < MaxEvents
    /\ bindings' = Append(bindings, [policy |-> q.read.policy, checklist |-> q.read.checklist,
                                     stamp |-> q.read.stamp, release |-> q.read.release,
                                     by |-> q.actor, key |-> q.key])
    /\ events' = IF events # <<>> THEN events
                 ELSE <<[type |-> "armed_anchor", binding |-> Len(bindings) + 1,
                         actor |-> q.actor, key |-> AnchorKey, effect |-> NoEffect]>>
    /\ Leave(c)
    /\ UNCHANGED <<sourceVars, auths, runs>>

\* A variant of append_event without the uq_ese_idempotency constraint.
AppendEventAnyKey(c, type, effect) ==
    /\ Len(events) < MaxEvents
    /\ events' = Append(events, [type |-> type, binding |-> request[c].binding,
                                 actor |-> request[c].actor, key |-> request[c].key,
                                 effect |-> effect])
    /\ Leave(c)

\* append_event; a second insert of a key violates uq_ese_idempotency.
AppendEvent(c, type, effect) ==
    /\ Len(events) < MaxEvents
    /\ \A i \in DOMAIN events : events[i].key # request[c].key
    /\ events' = Append(events, [type |-> type, binding |-> request[c].binding,
                                 actor |-> request[c].actor, key |-> request[c].key,
                                 effect |-> effect])
    /\ Leave(c)

\* A variant of activate that trusts what the request read before the lock.
ActivateStaleMember(c) ==
    /\ request[c].op = "activate" /\ request[c].at = "locked"
    /\ LatchState = "armed"
    /\ AppendEvent(c, "activated", [r \in Runs |-> EffectOf(runs[r])])
    /\ runs' = [r \in Runs |-> IF runs[r] = "running" THEN "paused" ELSE runs[r]]
    /\ UNCHANGED <<sourceVars, bindings, auths>>

\* A variant of activate that leaves the running runs alone.
ActivateWithoutPause(c) ==
    /\ request[c].op = "activate" /\ request[c].at = "autonomy"
    /\ LatchState = "armed"
    /\ AppendEvent(c, "activated", [r \in Runs |-> EffectOf(runs[r])])
    /\ UNCHANGED <<sourceVars, bindings, auths, runs>>

\* activate: append the event, pause every running run, inventory the effects;
\* the runs, which only move under the project lock, are as the event found them.
Activate(c) ==
    /\ request[c].op = "activate" /\ request[c].at = "autonomy"
    /\ LatchState = "armed"
    /\ AppendEvent(c, "activated", [r \in Runs |-> EffectOf(runs[r])])
    /\ runs' = [r \in Runs |-> IF runs[r] = "running" THEN "paused" ELSE runs[r]]
    /\ UNCHANGED <<sourceVars, bindings, auths>>

\* A variant of clear that lets the activating member clear.
ClearBySame(c) ==
    /\ request[c].op = "clear" /\ request[c].at = "autonomy"
    /\ LatchState = "active"
    /\ AppendEvent(c, "cleared", NoEffect)
    /\ UNCHANGED <<sourceVars, bindings, auths, runs>>

\* clear: a member other than the activating one; no run resumes by itself.
Clear(c) ==
    /\ request[c].op = "clear" /\ request[c].at = "autonomy"
    /\ LatchState = "active"
    /\ LatestEvent.actor # request[c].actor
    /\ AppendEvent(c, "cleared", NoEffect)
    /\ UNCHANGED <<sourceVars, bindings, auths, runs>>

\* A variant of authorize_rollback that trusts the binding's own evidence.
AuthorizeRollbackStale(c) ==
    LET q == request[c] IN
    /\ q.op = "authorize_rollback" /\ q.at = "autonomy"
    /\ bindings[q.binding].release # NoRelease
    /\ \A i \in DOMAIN auths : auths[i].key # q.key
    /\ auths' = Append(auths, [binding |-> q.binding, actor |-> q.actor, key |-> q.key,
                               release |-> bindings[q.binding].release])
    /\ Leave(c)
    /\ UNCHANGED <<sourceVars, bindings, events, runs>>

\* authorize_rollback, for the release evidence that was read.
AuthorizeRollback(c) ==
    LET q == request[c] IN
    /\ q.op = "authorize_rollback" /\ q.at = "release"
    /\ \A i \in DOMAIN auths : auths[i].key # q.key
    /\ auths' = Append(auths, [binding |-> q.binding, actor |-> q.actor, key |-> q.key,
                               release |-> q.read.release])
    /\ Leave(c)
    /\ UNCHANGED <<sourceVars, bindings, events, runs>>

\* The request answers 409, or its connection goes: nothing is written.
Refuse(c) ==
    /\ request[c] # NoRequest
    /\ Leave(c)
    /\ UNCHANGED <<sourceVars, bindings, events, auths, runs>>

ECNext ==
    \/ \E p \in Policies \cup {{}} : RecordPolicy(p)
    \/ \E l \in Checklists \cup {NoChecklist} : RecordChecklist(l)
    \/ \E e \in BOOLEAN : SetAutonomy(e)
    \/ \E x \in Releases \cup {NoRelease} : SetRelease(x)
    \/ \E c \in Clients, a \in Principals, k \in Keys :
         LockToBind(c, a, k) \/ \E op \in Ops : Submit(c, op, a, k)
    \/ \E c \in Clients :
         \/ Lock(c)
         \/ ReadPolicy(c) \/ ReadChecklist(c) \/ ReadAutonomy(c) \/ ReadRelease(c)
         \/ Bind(c) \/ Activate(c) \/ Clear(c) \/ AuthorizeRollback(c)
         \/ Refuse(c)

-----------------------------------------------------------------------------
ECTypeOK ==
    /\ policy \in Policies \cup {{}}
    /\ checklist \in Checklists \cup {NoChecklist}
    /\ autonomy \in [stamp : Nat, eligible : BOOLEAN]
    /\ release \in Releases \cup {NoRelease}
    /\ bindings \in Seq(Binding)
    /\ events \in Seq(Event)
    /\ auths \in Seq(Authorization)
    /\ request \in [Clients -> Request \cup {NoRequest}]
    /\ seen \in Seen
    /\ runs \in [Runs -> RunStatus]
=============================================================================
