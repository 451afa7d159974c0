--------------------------- MODULE RunEngineProof ---------------------------
(***************************************************************************)
(* Proofs about RunEngine, for any number of principals, clients, runs,    *)
(* keys and releases: type correctness, that an active latch means that no *)
(* run is running, that the engine and the emergency control together      *)
(* implement StopSpec, that two custodians alternate in the chain of       *)
(* events, that a key acts once, that protected work was approved, that    *)
(* what a stop recorded of the runs stays true, and that what a request    *)
(* records rests on sources that were there since it had the project lock. *)
(***************************************************************************)
EXTENDS RunEngine, TLAPS

\* What a request read is typed by what it asked of it: a policy that names the
\* actor, a declared checklist, and for an authorization release evidence.
WellRead(q) ==
    /\ q.at \in {"policy", "checklist", "autonomy", "release"} => q.read.policy \in Policies
    /\ q.at \in {"checklist", "autonomy", "release"} => q.read.checklist \in Checklists
    /\ q.at = "release" /\ q.op = "authorize_rollback" => q.read.release \in Releases

Typed == TypeOK /\ \A c \in Clients : WellRead(request[c])

\* The steps that leave bindings, events and runs alone.
Quiet ==
    \/ /\ UNCHANGED <<approval, costStop>>
       /\ \/ \E p \in Policies \cup {{}} : RecordPolicy(p)
          \/ \E l \in Checklists \cup {NoChecklist} : RecordChecklist(l)
          \/ \E e \in BOOLEAN : SetAutonomy(e)
          \/ \E x \in Releases \cup {NoRelease} : SetRelease(x)
          \/ \E c \in Clients, a \in Principals, k \in Keys :
               LockToBind(c, a, k) \/ \E op \in Ops : Submit(c, op, a, k)
          \/ \E c \in Clients :
               \/ Lock(c)
               \/ ReadPolicy(c) \/ ReadChecklist(c) \/ ReadAutonomy(c) \/ ReadRelease(c)
               \/ AuthorizeRollback(c) \/ Refuse(c)
    \/ \E r \in Runs : DecideApproval(r)
    \/ CostChanges
    \/ UNCHANGED vars

\* The invariant that the safety argument rests on.
StopInv == Typed /\ StoppedMeansStopped

-----------------------------------------------------------------------------
\* Appending an event makes it the newest: the latch is what it says.
LEMMA LatchAfterAppend ==
    ASSUME events \in Seq(Event), NEW e \in Event, events' = Append(events, e)
    PROVE  /\ events' \in Seq(Event)
           /\ LatchState' = IF e.type = "activated" THEN "active" ELSE "armed"
<1>1. events' \in Seq(Event) /\ events' # <<>> /\ Len(events') \in Nat
      /\ events'[Len(events')] = e
  OBVIOUS
<1>2. LatestEvent' = e
  BY <1>1 DEF LatestEvent
<1> QED  BY <1>1, <1>2 DEF LatchState

\* The effect inventory of an activation is well typed.
LEMMA EffectsTyped ==
    ASSUME runs \in [Runs -> RunStatus]
    PROVE  [r \in Runs |-> EffectOf(runs[r])] \in [Runs -> EffectCodes]
  BY DEF EffectOf, EffectCodes, RunStatus

\* A request with an operation is not the absent one.
LEMMA OpenRequest ==
    ASSUME Typed, NEW c \in Clients, request[c].op # "none"
    PROVE  request[c] \in Request
  BY DEF Typed, TypeOK, ECTypeOK, NoRequest

\* A typed request keeps the requests typed.
LEMMA RequestTyped ==
    ASSUME Typed, NEW c \in Clients, NEW q \in Request \cup {NoRequest}, WellRead(q),
           request' = [request EXCEPT ![c] = q]
    PROVE  /\ request' \in [Clients -> Request \cup {NoRequest}]
           /\ \A d \in Clients : WellRead(request'[d])
  BY DEF Typed, TypeOK, ECTypeOK

\* So does its end.
LEMMA LeaveTyped ==
    ASSUME Typed, NEW c \in Clients, Leave(c)
    PROVE  /\ request' \in [Clients -> Request \cup {NoRequest}]
           /\ \A d \in Clients : WellRead(request'[d])
           /\ seen' \in Seen
<1>1. WellRead(NoRequest)
  BY DEF WellRead, NoRequest
<1>2. request' = [request EXCEPT ![c] = NoRequest]
  BY DEF Leave
<1>3. seen' \in Seen
  BY DEF Leave, Seen, NothingSeen, Typed, TypeOK, ECTypeOK
<1> QED  BY <1>1, <1>2, <1>3, RequestTyped

\* append_event keeps the events and the requests typed, and decides the latch.
LEMMA AppendEventTyped ==
    ASSUME Typed, NEW c \in Clients, NEW type \in EventTypes,
           NEW effect \in [Runs -> EffectCodes],
           request[c] \in Request, AppendEvent(c, type, effect)
    PROVE  /\ events' \in Seq(Event)
           /\ request' \in [Clients -> Request \cup {NoRequest}]
           /\ \A d \in Clients : WellRead(request'[d])
           /\ seen' \in Seen
           /\ LatchState' = IF type = "activated" THEN "active" ELSE "armed"
<1> DEFINE e == [type |-> type, binding |-> request[c].binding, actor |-> request[c].actor,
                 key |-> request[c].key, effect |-> effect]
<1>1. e \in Event
  BY DEF Event, Request
<1>2. events' = Append(events, e) /\ events \in Seq(Event)
  BY DEF AppendEvent, Typed, TypeOK, ECTypeOK
<1>3. /\ events' \in Seq(Event)
      /\ LatchState' = IF e.type = "activated" THEN "active" ELSE "armed"
  <2> HIDE DEF e
  <2> QED  BY <1>1, <1>2, LatchAfterAppend
<1>4. Leave(c)
  BY DEF AppendEvent
<1> QED  BY <1>3, <1>4, LeaveTyped

-----------------------------------------------------------------------------
\* Every engine entry point keeps the types, and moves runs only while the
\* latch is not active.
LEMMA EngineStep ==
    ASSUME Typed, EngineNext
    PROVE  /\ Typed'
           /\ LatchState' = LatchState
           /\ \/ NotStopped
              \/ \A r \in Runs : runs'[r] = "running" <=> runs[r] = "running"
<1> USE DEF Typed, TypeOK, ECTypeOK, RunStatus, ApprovalStatus
<1>1. UNCHANGED <<sourceVars, bindings, events, auths, request, seen>>
  BY DEF EngineNext
<1>2. LatchState' = LatchState
  BY <1>1 DEF LatchState, LatestEvent
<1>3. PICK r \in Runs :
         \/ CreateRun(r)
         \/ StartDemoRun(r) \/ ResumeDemoRun(r)
         \/ StartApprovalRun(r) \/ ResumeApprovalRun(r)
         \/ StartCostguardRun(r) \/ ResumeCostguardRun(r)
         \/ \E to \in Terminal : RunRetryDemo(r, to)
  BY DEF EngineNext
<1>4. /\ runs' \in [Runs -> RunStatus] /\ approval' \in [Runs -> ApprovalStatus]
      /\ costStop' \in BOOLEAN
      /\ \/ NotStopped
         \/ \A s \in Runs : runs'[s] = "running" <=> runs[s] = "running"
  <2>1. CASE CreateRun(r)
    BY <2>1 DEF CreateRun
  <2>2. CASE StartDemoRun(r)
    BY <2>2 DEF StartDemoRun, Moves
  <2>3. CASE ResumeDemoRun(r)
    BY <2>3 DEF ResumeDemoRun, Moves
  <2>4. CASE StartApprovalRun(r)
    BY <2>4 DEF StartApprovalRun, Moves
  <2>5. CASE ResumeApprovalRun(r)
    BY <2>5 DEF ResumeApprovalRun, Moves
  <2>6. CASE StartCostguardRun(r)
    BY <2>6 DEF StartCostguardRun, Moves
  <2>7. CASE ResumeCostguardRun(r)
    BY <2>7 DEF ResumeCostguardRun, Moves
  <2>8. CASE \E to \in Terminal : RunRetryDemo(r, to)
    BY <2>8 DEF RunRetryDemo, Moves, Terminal
  <2> QED  BY <1>3, <2>1, <2>2, <2>3, <2>4, <2>5, <2>6, <2>7, <2>8
<1> QED  BY <1>1, <1>2, <1>4 DEF sourceVars

\* An activation arms to active and leaves no run running.
LEMMA ActivateStep ==
    ASSUME Typed, NEW c \in Clients, Activate(c), UNCHANGED <<approval, costStop>>
    PROVE  /\ Typed'
           /\ LatchState = "armed" /\ LatchState' = "active"
           /\ \A r \in Runs : runs'[r] # "running"
<1>1. request[c] \in Request
  BY OpenRequest DEF Activate
<1>2. "activated" \in EventTypes /\ [r \in Runs |-> EffectOf(runs[r])] \in [Runs -> EffectCodes]
  BY EffectsTyped DEF EventTypes, Typed, TypeOK, ECTypeOK
<1>3. AppendEvent(c, "activated", [r \in Runs |-> EffectOf(runs[r])])
  BY DEF Activate
<1>4. /\ events' \in Seq(Event)
      /\ request' \in [Clients -> Request \cup {NoRequest}]
      /\ \A d \in Clients : WellRead(request'[d])
      /\ seen' \in Seen
      /\ LatchState' = "active"
  BY <1>1, <1>2, <1>3, AppendEventTyped
<1>5. /\ runs' \in [Runs -> RunStatus]
      /\ \A r \in Runs : runs'[r] # "running"
  BY DEF Activate, Typed, TypeOK, ECTypeOK, RunStatus
<1>6. LatchState = "armed" /\ UNCHANGED <<sourceVars, bindings, auths>>
  BY DEF Activate
<1> QED  BY <1>4, <1>5, <1>6 DEF Typed, TypeOK, ECTypeOK, sourceVars

\* A clear takes the latch back to armed and touches no run.
LEMMA ClearStep ==
    ASSUME Typed, NEW c \in Clients, Clear(c), UNCHANGED <<approval, costStop>>
    PROVE  /\ Typed'
           /\ LatchState = "active" /\ LatchState' = "armed"
           /\ runs' = runs
<1>1. request[c] \in Request
  BY OpenRequest DEF Clear
<1>2. "cleared" \in EventTypes /\ NoEffect \in [Runs -> EffectCodes]
  BY DEF EventTypes, NoEffect, EffectCodes
<1>3. AppendEvent(c, "cleared", NoEffect)
  BY DEF Clear
<1>4. /\ events' \in Seq(Event)
      /\ request' \in [Clients -> Request \cup {NoRequest}]
      /\ \A d \in Clients : WellRead(request'[d])
      /\ seen' \in Seen
      /\ LatchState' = "armed"
  BY <1>1, <1>2, <1>3, AppendEventTyped
<1>5. /\ LatchState = "active" /\ runs' = runs
      /\ UNCHANGED <<sourceVars, bindings, auths>>
  BY DEF Clear
<1> QED  BY <1>4, <1>5 DEF Typed, TypeOK, ECTypeOK, sourceVars

\* A binding arms an unconfigured project and touches no run.
LEMMA BindStep ==
    ASSUME Typed, NEW c \in Clients, Bind(c), UNCHANGED <<approval, costStop>>
    PROVE  /\ Typed'
           /\ runs' = runs
           /\ \/ LatchState' = LatchState
              \/ LatchState = "unconfigured" /\ LatchState' = "armed"
<1> USE DEF TypeOK, ECTypeOK
<1> DEFINE q == request[c]
           b == [policy |-> q.read.policy, checklist |-> q.read.checklist,
                 stamp |-> q.read.stamp, release |-> q.read.release,
                 by |-> q.actor, key |-> q.key]
           e == [type |-> "armed_anchor", binding |-> Len(bindings) + 1,
                 actor |-> q.actor, key |-> AnchorKey, effect |-> NoEffect]
<1>0. q \in Request /\ q.read.policy \in Policies /\ q.read.checklist \in Checklists
  BY OpenRequest DEF Bind, Typed, WellRead
<1>1. b \in Binding /\ bindings' = Append(bindings, b)
  BY <1>0 DEF Bind, Binding, Request, Sources
<1>2. bindings' \in Seq(Binding)
  <2> HIDE DEF b
  <2> QED  BY <1>1 DEF Typed
<1>3. e \in Event
  <2>1. NoEffect \in [Runs -> EffectCodes]
    BY DEF NoEffect, EffectCodes
  <2>2. Len(bindings) + 1 \in Nat
    BY DEF Typed
  <2> QED  BY <1>0, <2>1, <2>2 DEF Event, EventTypes, Request
<1>4. Leave(c) /\ UNCHANGED <<sourceVars, auths, runs>>
  BY DEF Bind
<1>5. events' \in Seq(Event) => Typed'
  BY <1>2, <1>4, LeaveTyped DEF Typed, sourceVars
<1>6. CASE events = <<>>
  <2>1. events' = <<e>>
    BY <1>6 DEF Bind
  <2>2. e.type = "armed_anchor"
    OBVIOUS
  <2>3. events' = Append(events, e) /\ events \in Seq(Event)
    <3> HIDE DEF e
    <3> QED  BY <2>1, <1>6 DEF Typed
  <2>4. events' \in Seq(Event) /\ LatchState' = "armed"
    <3> HIDE DEF e
    <3> QED  BY <1>3, <2>2, <2>3, LatchAfterAppend
  <2>5. LatchState = "unconfigured"
    BY <1>6 DEF LatchState
  <2> QED  BY <1>4, <1>5, <2>4, <2>5
<1>7. CASE events # <<>>
  <2>1. events' = events
    BY <1>7 DEF Bind
  <2> QED  BY <1>4, <1>5, <2>1 DEF LatchState, LatestEvent, Typed
<1> QED  BY <1>6, <1>7

\* What a request reads keeps the requests typed.
LEMMA ReadTyped ==
    ASSUME Typed, NEW c \in Clients,
           ReadPolicy(c) \/ ReadChecklist(c) \/ ReadAutonomy(c) \/ ReadRelease(c)
    PROVE  /\ request' \in [Clients -> Request \cup {NoRequest}]
           /\ \A d \in Clients : WellRead(request'[d])
           /\ UNCHANGED <<sourceVars, bindings, events, auths, seen, runs>>
<1> DEFINE q == request[c]
<1> USE DEF TypeOK, ECTypeOK
<1>1. q \in Request
  BY DEF ReadPolicy, ReadChecklist, ReadAutonomy, ReadRelease, NoRequest, Typed
<1>2. UNCHANGED <<sourceVars, bindings, events, auths, seen, runs>>
  BY DEF ReadPolicy, ReadChecklist, ReadAutonomy, ReadRelease, Reads
<1>3. CASE ReadPolicy(c)
  <2> DEFINE n == [q EXCEPT !.at = "policy", !.read = [q.read EXCEPT !.policy = policy]]
  <2>1. request' = [request EXCEPT ![c] = n] /\ policy \in Policies
    BY <1>3 DEF ReadPolicy, Reads, Typed
  <2>2. n \in Request /\ n.at = "policy" /\ n.read.policy = policy
    BY <1>1, <2>1 DEF Request, Sources, Stages
  <2>3. WellRead(n)
    BY <2>1, <2>2 DEF WellRead
  <2> HIDE DEF n
  <2> QED  BY <1>2, <2>1, <2>2, <2>3, RequestTyped
<1>4. CASE ReadChecklist(c)
  <2> DEFINE n == [q EXCEPT !.at = "checklist", !.read = [q.read EXCEPT !.checklist = checklist]]
  <2>1. request' = [request EXCEPT ![c] = n] /\ checklist \in Checklists
        /\ q.read.policy \in Policies
    BY <1>4 DEF ReadChecklist, Reads, Typed, WellRead
  <2>2. n \in Request /\ n.at = "checklist" /\ n.read.checklist = checklist /\ n.read.policy = q.read.policy
    BY <1>1, <2>1 DEF Request, Sources, Stages
  <2>3. WellRead(n)
    BY <2>1, <2>2 DEF WellRead
  <2> HIDE DEF n
  <2> QED  BY <1>2, <2>1, <2>2, <2>3, RequestTyped
<1>5. CASE ReadAutonomy(c)
  <2> DEFINE n == [q EXCEPT !.at = "autonomy", !.read = [q.read EXCEPT !.stamp = autonomy.stamp]]
  <2>1. request' = [request EXCEPT ![c] = n] /\ autonomy.stamp \in Nat
        /\ q.read.policy \in Policies /\ q.read.checklist \in Checklists
    BY <1>5 DEF ReadAutonomy, Reads, Typed, WellRead
  <2>2. n \in Request /\ n.at = "autonomy" /\ n.read.checklist = q.read.checklist /\ n.read.policy = q.read.policy
    BY <1>1, <2>1 DEF Request, Sources, Stages
  <2>3. WellRead(n)
    BY <2>1, <2>2 DEF WellRead
  <2> HIDE DEF n
  <2> QED  BY <1>2, <2>1, <2>2, <2>3, RequestTyped
<1>6. CASE ReadRelease(c)
  <2> DEFINE n == [q EXCEPT !.at = "release", !.read = [q.read EXCEPT !.release = release]]
  <2>1. /\ request' = [request EXCEPT ![c] = n] /\ release \in Releases \cup {NoRelease}
        /\ q.read.policy \in Policies /\ q.read.checklist \in Checklists
        /\ q.op = "authorize_rollback" => release \in Releases
    BY <1>6 DEF ReadRelease, Reads, Typed, WellRead
  <2>2. /\ n \in Request /\ n.op = q.op /\ n.read.release = release
        /\ n.read.checklist = q.read.checklist /\ n.read.policy = q.read.policy
    BY <1>1, <2>1 DEF Request, Sources, Stages
  <2>3. WellRead(n)
    BY <2>1, <2>2 DEF WellRead
  <2> HIDE DEF n
  <2> QED  BY <1>2, <2>1, <2>2, <2>3, RequestTyped
<1> QED  BY <1>3, <1>4, <1>5, <1>6

\* What was seen since the lock stays typed when a source changes.
LEMMA SeenGrows ==
    ASSUME seen \in Seen
    PROVE  /\ \A p \in Policies \cup {{}} : [seen EXCEPT !.policy = @ \cup {p}] \in Seen
           /\ \A l \in Checklists \cup {NoChecklist} :
                [seen EXCEPT !.checklist = @ \cup {l}] \in Seen
           /\ \A n \in Nat : [seen EXCEPT !.stamp = @ \cup {n}] \in Seen
           /\ \A x \in Releases \cup {NoRelease} : [seen EXCEPT !.release = @ \cup {x}] \in Seen
<1>1. ASSUME NEW p \in Policies \cup {{}} PROVE [seen EXCEPT !.policy = @ \cup {p}] \in Seen
  <2>1. seen.policy \cup {p} \in SUBSET (Policies \cup {{}})
    BY DEF Seen
  <2> QED  BY <2>1 DEF Seen
<1>2. ASSUME NEW l \in Checklists \cup {NoChecklist}
      PROVE  [seen EXCEPT !.checklist = @ \cup {l}] \in Seen
  <2>1. seen.checklist \cup {l} \in SUBSET (Checklists \cup {NoChecklist})
    BY DEF Seen
  <2> QED  BY <2>1 DEF Seen
<1>3. ASSUME NEW n \in Nat PROVE [seen EXCEPT !.stamp = @ \cup {n}] \in Seen
  <2>1. seen.stamp \cup {n} \in SUBSET Nat
    BY DEF Seen
  <2> QED  BY <2>1 DEF Seen
<1>4. ASSUME NEW x \in Releases \cup {NoRelease}
      PROVE  [seen EXCEPT !.release = @ \cup {x}] \in Seen
  <2>1. seen.release \cup {x} \in SUBSET (Releases \cup {NoRelease})
    BY DEF Seen
  <2> QED  BY <2>1 DEF Seen
<1> QED  BY <1>1, <1>2, <1>3, <1>4

\* The sources of the moment are typed.
LEMMA SeenNowTyped == ASSUME Typed PROVE SeenNow \in Seen
  BY DEF Typed, TypeOK, ECTypeOK, SeenNow, Seen

\* The remaining steps leave bindings, latch and runs alone.
LEMMA QuietStep ==
    ASSUME Typed, Quiet
    PROVE  /\ Typed' /\ LatchState' = LatchState /\ runs' = runs
           /\ events' = events /\ bindings' = bindings
           /\ \A r \in Runs : approval[r] = "approved" => approval'[r] = "approved"
<1> USE DEF TypeOK, ECTypeOK
<1> DEFINE Requests == /\ request' \in [Clients -> Request \cup {NoRequest}]
                       /\ \A d \in Clients : WellRead(request'[d])
<1>1. request' = request => Requests
  BY DEF Typed
<1>2. CASE /\ UNCHANGED <<approval, costStop>>
           /\ \/ \E p \in Policies \cup {{}} : RecordPolicy(p)
              \/ \E l \in Checklists \cup {NoChecklist} : RecordChecklist(l)
              \/ \E e \in BOOLEAN : SetAutonomy(e)
              \/ \E x \in Releases \cup {NoRelease} : SetRelease(x)
  <2>1. /\ policy' \in Policies \cup {{}} /\ checklist' \in Checklists \cup {NoChecklist}
        /\ autonomy' \in [stamp : Nat, eligible : BOOLEAN]
        /\ release' \in Releases \cup {NoRelease}
        /\ seen' \in Seen
    <3>1. CASE \E p \in Policies \cup {{}} : RecordPolicy(p)
      BY <3>1, SeenGrows DEF RecordPolicy, Typed
    <3>2. CASE \E l \in Checklists \cup {NoChecklist} : RecordChecklist(l)
      BY <3>2, SeenGrows DEF RecordChecklist, Typed
    <3>3. CASE \E e \in BOOLEAN : SetAutonomy(e)
      BY <3>3, SeenGrows DEF SetAutonomy, Typed
    <3>4. CASE \E x \in Releases \cup {NoRelease} : SetRelease(x)
      BY <3>4, SeenGrows DEF SetRelease, Typed
    <3> QED  BY <1>2, <3>1, <3>2, <3>3, <3>4
  <2>2. UNCHANGED <<bindings, events, auths, request, runs>>
    BY <1>2 DEF RecordPolicy, RecordChecklist, SetAutonomy, SetRelease
  <2> HIDE DEF Requests
  <2>3. Requests
    BY <1>1, <2>2
  <2> QED  BY <1>2, <2>1, <2>2, <2>3 DEF Typed, Requests, LatchState, LatestEvent
<1>3. CASE /\ UNCHANGED <<approval, costStop>>
           /\ \E c \in Clients, a \in Principals, k \in Keys :
                LockToBind(c, a, k) \/ \E op \in Ops : Submit(c, op, a, k)
  <2>1. PICK c \in Clients, a \in Principals, k \in Keys :
              LockToBind(c, a, k) \/ \E op \in Ops : Submit(c, op, a, k)
    BY <1>3
  <2>2. PICK q \in Request : request' = [request EXCEPT ![c] = q]
                             /\ WellRead(q)
    <3>1. Unread \in Sources
      BY DEF Unread, Sources
    <3> QED  BY <2>1, <3>1 DEF LockToBind, Submit, Request, Stages, Typed, WellRead
  <2>3. Requests
    BY <2>2, RequestTyped
  <2>4. seen' \in Seen
    BY <2>1, SeenNowTyped DEF LockToBind, Submit, Typed
  <2>5. UNCHANGED <<sourceVars, bindings, events, auths, runs>>
    BY <2>1 DEF LockToBind, Submit
  <2> HIDE DEF Requests
  <2> QED  BY <1>3, <2>3, <2>4, <2>5 DEF Typed, Requests, LatchState, LatestEvent, sourceVars
<1>4. CASE UNCHANGED <<approval, costStop>> /\ \E c \in Clients : Lock(c)
  <2>1. PICK c \in Clients : Lock(c)
    BY <1>4
  <2>2. request[c] \in Request
    BY <2>1 DEF Lock, NoRequest, Typed
  <2> DEFINE n == [request[c] EXCEPT !.at = "locked"]
  <2>3. n \in Request /\ WellRead(n) /\ request' = [request EXCEPT ![c] = n]
    BY <2>1, <2>2 DEF Lock, Request, Stages, WellRead
  <2>4. seen' \in Seen /\ UNCHANGED <<sourceVars, bindings, events, auths, runs>>
    BY <2>1, SeenNowTyped DEF Lock
  <2> HIDE DEF n
  <2>5. Requests
    BY <2>3, RequestTyped
  <2> HIDE DEF Requests
  <2> QED  BY <1>4, <2>4, <2>5 DEF Typed, Requests, LatchState, LatestEvent, sourceVars
<1>5. CASE /\ UNCHANGED <<approval, costStop>>
           /\ \E c \in Clients : \/ ReadPolicy(c) \/ ReadChecklist(c)
                                 \/ ReadAutonomy(c) \/ ReadRelease(c)
  <2>1. Requests /\ UNCHANGED <<sourceVars, bindings, events, auths, seen, runs>>
    BY <1>5, ReadTyped
  <2> HIDE DEF Requests
  <2> QED  BY <1>5, <2>1 DEF Typed, Requests, LatchState, LatestEvent, sourceVars
<1>6. CASE /\ UNCHANGED <<approval, costStop>>
           /\ \E c \in Clients : AuthorizeRollback(c)
  <2>1. PICK c \in Clients : AuthorizeRollback(c)
    BY <1>6
  <2>2. request[c] \in Request /\ request[c].read.release \in Releases
    BY <2>1, OpenRequest DEF AuthorizeRollback, Typed, WellRead
  <2> DEFINE n == [binding |-> request[c].binding, actor |-> request[c].actor,
                   key |-> request[c].key, release |-> request[c].read.release]
  <2>3. n \in Authorization /\ auths' = Append(auths, n)
    BY <2>1, <2>2 DEF AuthorizeRollback, Authorization, Request
  <2>4. auths' \in Seq(Authorization)
    <3> HIDE DEF n
    <3> QED  BY <2>3 DEF Typed
  <2>5. Requests /\ seen' \in Seen /\ UNCHANGED <<sourceVars, bindings, events, runs>>
    BY <2>1, LeaveTyped DEF AuthorizeRollback
  <2> HIDE DEF Requests
  <2> QED  BY <1>6, <2>4, <2>5 DEF Typed, Requests, LatchState, LatestEvent, sourceVars
<1>7. CASE UNCHANGED <<approval, costStop>> /\ \E c \in Clients : Refuse(c)
  <2>1. Requests /\ seen' \in Seen /\ UNCHANGED <<sourceVars, bindings, events, auths, runs>>
    BY <1>7, LeaveTyped DEF Refuse
  <2> HIDE DEF Requests
  <2> QED  BY <1>7, <2>1 DEF Typed, Requests, LatchState, LatestEvent, sourceVars
<1>8. CASE (\E r \in Runs : DecideApproval(r)) \/ CostChanges \/ UNCHANGED vars
  <2>1. UNCHANGED ecVars /\ approval' \in [Runs -> ApprovalStatus] /\ costStop' \in BOOLEAN
        /\ \A r \in Runs : approval[r] = "approved" => approval'[r] = "approved"
    <3>1. CASE \E r \in Runs : DecideApproval(r)
      BY <3>1 DEF DecideApproval, ApprovalStatus, Typed
    <3>2. CASE CostChanges \/ UNCHANGED vars
      BY <3>2 DEF CostChanges, vars, Typed
    <3> QED  BY <1>8, <3>1, <3>2
  <2>2. Requests
    BY <1>1, <2>1 DEF ecVars
  <2> HIDE DEF Requests
  <2> QED  BY <2>1, <2>2 DEF Typed, Requests, LatchState, LatestEvent, ecVars, sourceVars
<1> QED  BY <1>2, <1>3, <1>4, <1>5, <1>6, <1>7, <1>8 DEF Quiet

\* Every step is an entry point of the engine, an activation, a clear, a binding
\* or quiet.
LEMMA StepKinds ==
    ASSUME [Next]_vars
    PROVE  \/ EngineNext
           \/ \E c \in Clients : Activate(c) /\ UNCHANGED <<approval, costStop>>
           \/ \E c \in Clients : Clear(c) /\ UNCHANGED <<approval, costStop>>
           \/ \E c \in Clients : Bind(c) /\ UNCHANGED <<approval, costStop>>
           \/ Quiet
  BY Zenon DEF Next, ECNext, Quiet

\* What one step may do to the latch and the runs.
LEMMA StepEffect ==
    ASSUME Typed, [Next]_vars
    PROVE  /\ Typed'
           /\ \/ LatchState' = LatchState /\ Running' = Running
              \/ LatchState' = LatchState /\ NotStopped
              \/ LatchState = "armed" /\ LatchState' = "active" /\ Running' = {}
              \/ LatchState = "active" /\ LatchState' = "armed" /\ Running' = Running
              \/ LatchState = "unconfigured" /\ LatchState' = "armed" /\ Running' = Running
<1>1. CASE EngineNext
  BY <1>1, EngineStep DEF Running
<1>2. CASE \E c \in Clients : Activate(c) /\ UNCHANGED <<approval, costStop>>
  BY <1>2, ActivateStep DEF Running
<1>3. CASE \E c \in Clients : Clear(c) /\ UNCHANGED <<approval, costStop>>
  BY <1>3, ClearStep DEF Running
<1>4. CASE \E c \in Clients : Bind(c) /\ UNCHANGED <<approval, costStop>>
  BY <1>4, BindStep DEF Running
<1>5. CASE Quiet
  BY <1>5, QuietStep DEF Running
<1> QED  BY <1>1, <1>2, <1>3, <1>4, <1>5, StepKinds

\* The initial state is typed, unconfigured and has nothing running.
LEMMA InitFacts ==
    ASSUME Init
    PROVE  Typed /\ LatchState = "unconfigured" /\ Running = {}
<1>1. bindings \in Seq(Binding) /\ events \in Seq(Event) /\ auths \in Seq(Authorization)
  BY DEF Init, ECInit
<1>2. request \in [Clients -> Request \cup {NoRequest}] /\ seen \in Seen
  BY DEF Init, ECInit, Seen, NothingSeen
<1>3. runs \in [Runs -> RunStatus] /\ approval \in [Runs -> ApprovalStatus]
  BY DEF Init, ECInit, RunStatus, ApprovalStatus
<1>4. autonomy \in [stamp : Nat, eligible : BOOLEAN] /\ costStop \in BOOLEAN
  BY DEF Init, ECInit
<1>5. /\ policy \in Policies \cup {{}} /\ checklist \in Checklists \cup {NoChecklist}
      /\ release \in Releases \cup {NoRelease}
  BY DEF Init, ECInit
<1>6. LatchState = "unconfigured" /\ Running = {}
  BY DEF Init, ECInit, LatchState, Running
<1>7. \A c \in Clients : request[c].at = "none"
  BY DEF Init, ECInit, NoRequest
<1> QED  BY <1>1, <1>2, <1>3, <1>4, <1>5, <1>6, <1>7
         DEF Typed, TypeOK, ECTypeOK, WellRead

-----------------------------------------------------------------------------
\* The types, and what the typing of the reads rests on, are inductive.
LEMMA EngineTyped == Spec => []Typed
<1>1. Init => Typed
  BY InitFacts
<1>2. Typed /\ [Next]_vars => Typed'
  BY StepEffect
<1> QED  BY <1>1, <1>2, PTL DEF Spec

\* Every reachable state of the engine under the latch is well typed, whatever
\* the sets of principals, clients, runs, keys and releases are.
THEOREM EngineTypeCorrect == Spec => []TypeOK
<1>1. Typed => TypeOK
  BY DEF Typed
<1> QED  BY <1>1, EngineTyped, PTL

\* While the latch is active no run is running (activate, clear,
\* assert_project_not_stopped and every engine entry point).
THEOREM ActiveLatchStopsRuns == Spec => []StoppedMeansStopped
<1>1. Init => StopInv
  <2> SUFFICES ASSUME Init PROVE StopInv
    OBVIOUS
  <2> QED  BY InitFacts DEF StopInv, StoppedMeansStopped
<1>2. StopInv /\ [Next]_vars => StopInv'
  <2> SUFFICES ASSUME StopInv, [Next]_vars PROVE StopInv'
    OBVIOUS
  <2>1. Typed /\ (LatchState = "active" => Running = {})
    BY DEF StopInv, StoppedMeansStopped, Running
  <2>2. Typed' /\ (LatchState' = "active" => Running' = {})
    BY <2>1, StepEffect DEF NotStopped
  <2> QED  BY <2>2 DEF StopInv, StoppedMeansStopped, Running
<1>3. StopInv => StoppedMeansStopped
  BY DEF StopInv
<1> QED  BY <1>1, <1>2, <1>3, PTL DEF Spec

\* The engine and the emergency control implement the emergency stop of
\* StopSpec: arming, stopping with every running run, releasing without
\* resuming, and working only while the latch is not active.
THEOREM EngineImplementsStop == Spec => ImplementsStop
<1>1. Init => Stop!Init
  BY InitFacts DEF Stop!Init
<1>2. Typed /\ [Next]_vars => [Stop!Next]_(Stop!vars)
  <2> SUFFICES ASSUME Typed, [Next]_vars PROVE [Stop!Next]_(Stop!vars)
    OBVIOUS
  <2>1. Running' \in SUBSET Runs
    BY DEF Running
  <2> QED  BY <2>1, StepEffect DEF Stop!Next, Stop!vars, Stop!Arm, Stop!Engage,
             Stop!Disengage, Stop!Work, NotStopped
<1> QED  BY <1>1, <1>2, EngineTyped, PTL DEF Spec, ImplementsStop, Stop!Spec

-----------------------------------------------------------------------------
(* The chain of latch events.                                              *)

\* An event that is appended is one of the two kinds of a request, carries the
\* request's actor and key, and follows the events there are: an activation
\* follows an event that is none, a clear follows an activation of another
\* actor.
Follows(e) ==
    /\ events # <<>>
    /\ \A i \in DOMAIN events : events[i].key # e.key
    /\ \/ e.type = "activated" /\ LatestEvent.type # "activated"
       \/ /\ e.type = "cleared" /\ LatestEvent.type = "activated"
          /\ LatestEvent.actor # e.actor

\* How one step may change the events: it leaves them, writes the anchor, or
\* appends an event that follows.
LEMMA EventsStep ==
    ASSUME Typed, [Next]_vars
    PROVE  \/ events' = events
           \/ /\ events = <<>>
              /\ \E e \in Event : e.type = "armed_anchor" /\ events' = Append(events, e)
           \/ \E e \in Event : Follows(e) /\ events' = Append(events, e)
<1>1. CASE EngineNext
  BY <1>1 DEF EngineNext
<1>2. CASE \E c \in Clients : Activate(c) /\ UNCHANGED <<approval, costStop>>
  <2>1. PICK c \in Clients : Activate(c)
    BY <1>2
  <2> DEFINE e == [type |-> "activated", binding |-> request[c].binding,
                   actor |-> request[c].actor, key |-> request[c].key,
                   effect |-> [r \in Runs |-> EffectOf(runs[r])]]
  <2>2. request[c] \in Request /\ [r \in Runs |-> EffectOf(runs[r])] \in [Runs -> EffectCodes]
    BY <2>1, OpenRequest, EffectsTyped DEF Activate, Typed, TypeOK, ECTypeOK
  <2>3. e \in Event
    BY <2>2 DEF Event, EventTypes, Request
  <2>4. events' = Append(events, e) /\ \A i \in DOMAIN events : events[i].key # e.key
    BY <2>1 DEF Activate, AppendEvent
  <2>5. events # <<>> /\ LatestEvent.type # "activated"
    BY <2>1 DEF Activate, LatchState
  <2> QED  BY <2>3, <2>4, <2>5 DEF Follows
<1>3. CASE \E c \in Clients : Clear(c) /\ UNCHANGED <<approval, costStop>>
  <2>1. PICK c \in Clients : Clear(c)
    BY <1>3
  <2> DEFINE e == [type |-> "cleared", binding |-> request[c].binding,
                   actor |-> request[c].actor, key |-> request[c].key, effect |-> NoEffect]
  <2>2. request[c] \in Request /\ NoEffect \in [Runs -> EffectCodes]
    BY <2>1, OpenRequest DEF Clear, NoEffect, EffectCodes
  <2>3. e \in Event
    BY <2>2 DEF Event, EventTypes, Request
  <2>4. events' = Append(events, e) /\ \A i \in DOMAIN events : events[i].key # e.key
    BY <2>1 DEF Clear, AppendEvent
  <2>5. events # <<>> /\ LatestEvent.type = "activated" /\ LatestEvent.actor # e.actor
    BY <2>1 DEF Clear, LatchState
  <2> QED  BY <2>3, <2>4, <2>5 DEF Follows
<1>4. CASE \E c \in Clients : Bind(c) /\ UNCHANGED <<approval, costStop>>
  <2>1. PICK c \in Clients : Bind(c)
    BY <1>4
  <2> DEFINE e == [type |-> "armed_anchor", binding |-> Len(bindings) + 1,
                   actor |-> request[c].actor, key |-> AnchorKey, effect |-> NoEffect]
  <2>2. e \in Event
    <3>1. NoEffect \in [Runs -> EffectCodes] /\ Len(bindings) + 1 \in Nat
      BY DEF NoEffect, EffectCodes, Typed, TypeOK, ECTypeOK
    <3>2. request[c] \in Request
      BY <2>1, OpenRequest DEF Bind
    <3> QED  BY <3>1, <3>2 DEF Event, EventTypes, Request
  <2>3. e.type = "armed_anchor"
    OBVIOUS
  <2>4. events' = events \/ (events = <<>> /\ events' = <<e>>)
    BY <2>1 DEF Bind
  <2> HIDE DEF e
  <2>5. events = <<>> => <<e>> = Append(events, e)
    OBVIOUS
  <2> QED  BY <2>2, <2>3, <2>4, <2>5
<1>5. CASE Quiet
  BY <1>5, QuietStep
<1> QED  BY <1>1, <1>2, <1>3, <1>4, <1>5, StepKinds

\* The newest event tells the length of an alternating chain: even after an
\* activation, odd otherwise.
LEMMA LatestTellsParity ==
    ASSUME Typed, ChainAlternates, events # <<>>
    PROVE  /\ Len(events) \in Nat /\ Len(events) >= 1
           /\ LatestEvent.type = "activated" => Len(events) % 2 = 0
           /\ LatestEvent.type # "activated" => Len(events) % 2 = 1
<1>1. Len(events) \in Nat /\ Len(events) >= 1 /\ Len(events) \in DOMAIN events
  BY DEF Typed, TypeOK, ECTypeOK
<1>2. Len(events) % 2 \in {0, 1}
  BY <1>1
<1>3. CASE Len(events) = 1
  <2>1. LatestEvent.type = "armed_anchor"
    BY <1>1, <1>3 DEF ChainAlternates, LatestEvent
  <2> QED  BY <1>1, <1>3, <2>1
<1>4. CASE Len(events) > 1
  BY <1>1, <1>2, <1>4 DEF ChainAlternates, LatestEvent
<1>5. Len(events) = 1 \/ Len(events) > 1
  <2>1. \A n \in Nat : n >= 1 => n = 1 \/ n > 1
    OBVIOUS
  <2> QED  BY <1>1, <2>1, Zenon
<1> QED  BY <1>1, <1>3, <1>4, <1>5, Zenon

\* A chain stays alternating, with unique keys, when an event that follows is
\* appended.
LEMMA AppendKeepsChain ==
    ASSUME Typed, ChainAlternates, KeyActsOnce,
           NEW e \in Event, Follows(e), events' = Append(events, e)
    PROVE  ChainAlternates' /\ KeyActsOnce'
<1> DEFINE n == Len(events)
<1>1. n \in Nat /\ n >= 1 /\ (LatestEvent.type = "activated" => n % 2 = 0)
      /\ (LatestEvent.type # "activated" => n % 2 = 1)
  BY LatestTellsParity DEF Follows
<1>2. /\ DOMAIN events = 1..n /\ DOMAIN events' = 1..(n + 1)
      /\ \A i \in 1..n : events'[i] = events[i]
      /\ events'[n + 1] = e
  BY DEF Typed, TypeOK, ECTypeOK
<1>3. LatestEvent = events'[n]
  BY <1>1, <1>2 DEF LatestEvent
<1>4. /\ e.type = "activated" => (n + 1) % 2 = 0
      /\ e.type = "cleared" => (n + 1) % 2 = 1 /\ e.actor # events'[n].actor
      /\ e.type \in {"activated", "cleared"}
  BY <1>1, <1>3 DEF Follows
<1>5. ChainAlternates'
  <2> SUFFICES ASSUME NEW i \in 1..(n + 1)
               PROVE  /\ i = 1 <=> events'[i].type = "armed_anchor"
                      /\ i > 1 /\ i % 2 = 0 => events'[i].type = "activated"
                      /\ i > 1 /\ i % 2 = 1 => events'[i].type = "cleared"
                                                /\ events'[i].actor # events'[i-1].actor
    BY <1>2 DEF ChainAlternates
  <2>1. CASE i = n + 1
    BY <1>1, <1>2, <1>4, <2>1
  <2>2. CASE i # n + 1
    <3>1. i \in 1..n /\ events'[i] = events[i] /\ (i > 1 => events'[i-1] = events[i-1])
      BY <1>1, <1>2, <2>2
    <3>2. i \in DOMAIN events
      BY <1>2, <3>1
    <3> HIDE DEF n
    <3> QED  BY <3>1, <3>2 DEF ChainAlternates
  <2> QED  BY <2>1, <2>2
<1>6. KeyActsOnce'
  BY <1>1, <1>2 DEF KeyActsOnce, Follows
<1> QED  BY <1>5, <1>6

\* A chain of one anchor alternates and has unique keys.
LEMMA AnchorStartsChain ==
    ASSUME NEW e \in Event, e.type = "armed_anchor", events = <<>>,
           events' = Append(events, e)
    PROVE  ChainAlternates' /\ KeyActsOnce'
<1>1. DOMAIN events' = {1} /\ events'[1] = e
  OBVIOUS
<1> QED  BY <1>1 DEF ChainAlternates, KeyActsOnce

\* The chain of activations and clears, with unique keys, is inductive.
ChainInv == Typed /\ ChainAlternates /\ KeyActsOnce

\* The initial state satisfies ChainInv and every step keeps it.
LEMMA ChainInvariant == Spec => []ChainInv
<1>1. Init => ChainInv
  <2> SUFFICES ASSUME Init PROVE ChainInv
    OBVIOUS
  <2>1. Typed
    BY InitFacts
  <2>2. DOMAIN events = {}
    BY DEF Init, ECInit
  <2> QED  BY <2>1, <2>2 DEF ChainInv, ChainAlternates, KeyActsOnce
<1>2. ChainInv /\ [Next]_vars => ChainInv'
  <2> SUFFICES ASSUME ChainInv, [Next]_vars PROVE ChainInv'
    OBVIOUS
  <2>1. Typed /\ ChainAlternates /\ KeyActsOnce /\ Typed'
    BY StepEffect DEF ChainInv
  <2>2. CASE events' = events
    BY <2>1, <2>2 DEF ChainInv, ChainAlternates, KeyActsOnce
  <2>3. CASE /\ events = <<>>
             /\ \E e \in Event : e.type = "armed_anchor" /\ events' = Append(events, e)
    BY <2>1, <2>3, AnchorStartsChain DEF ChainInv
  <2>4. CASE \E e \in Event : Follows(e) /\ events' = Append(events, e)
    BY <2>1, <2>4, AppendKeepsChain DEF ChainInv
  <2> QED  BY <2>1, <2>2, <2>3, <2>4, EventsStep
<1> QED  BY <1>1, <1>2, PTL DEF Spec

\* However requests interleave with each other and with changes of the
\* approver policy, the chain starts with one anchor and alternates, and a
\* clear is by another actor than the activation it ends
\* (slice54_validate_event, clear).
THEOREM TwoCustodians == Spec => []ChainAlternates
<1>1. ChainInv => ChainAlternates
  BY DEF ChainInv
<1> QED  BY <1>1, ChainInvariant, PTL

\* Any number of concurrent requests with one idempotency key leave at most
\* one event (append_event, uq_ese_idempotency).
THEOREM OneEventOfAKey == Spec => []KeyActsOnce
<1>1. ChainInv => KeyActsOnce
  BY DEF ChainInv
<1> QED  BY <1>1, ChainInvariant, PTL

-----------------------------------------------------------------------------
(* What the engine does to one run, and what an activation recorded.       *)

\* A step other than an engine entry point and an activation leaves the runs
\* alone, and no decided approval changes again.
LEMMA ApprovalStep ==
    ASSUME Typed, [Next]_vars, ~EngineNext
    PROVE  /\ \A r \in Runs : approval[r] = "approved" => approval'[r] = "approved"
           /\ \A r \in Runs : runs'[r] = "completed" => runs[r] = "completed"
<1> USE DEF Typed, TypeOK, ECTypeOK
<1>1. CASE \E c \in Clients : Activate(c) /\ UNCHANGED <<approval, costStop>>
  BY <1>1 DEF Activate
<1>2. CASE \E c \in Clients : Clear(c) /\ UNCHANGED <<approval, costStop>>
  BY <1>2 DEF Clear
<1>3. CASE \E c \in Clients : Bind(c) /\ UNCHANGED <<approval, costStop>>
  BY <1>3 DEF Bind
<1>4. CASE Quiet
  BY <1>4, QuietStep
<1> QED  BY <1>1, <1>2, <1>3, <1>4, StepKinds

\* An engine entry point completes an approval run only on an approved request.
LEMMA EngineCompletesApproved ==
    ASSUME Typed, ProtectedOnlyIfApproved, EngineNext
    PROVE  ProtectedOnlyIfApproved'
<1> USE DEF Typed, TypeOK, ECTypeOK, ProtectedOnlyIfApproved
<1>1. PICK r \in Runs :
         \/ CreateRun(r)
         \/ StartDemoRun(r) \/ ResumeDemoRun(r)
         \/ StartApprovalRun(r) \/ ResumeApprovalRun(r)
         \/ StartCostguardRun(r) \/ ResumeCostguardRun(r)
         \/ \E to \in Terminal : RunRetryDemo(r, to)
  BY DEF EngineNext
<1>2. CASE CreateRun(r)
  BY <1>2 DEF CreateRun
<1>3. CASE StartDemoRun(r)
  BY <1>3 DEF StartDemoRun, Moves
<1>4. CASE ResumeDemoRun(r)
  BY <1>4 DEF ResumeDemoRun, Moves
<1>5. CASE StartApprovalRun(r)
  BY <1>5 DEF StartApprovalRun, Moves, ApprovalStatus
<1>6. CASE ResumeApprovalRun(r)
  BY <1>6 DEF ResumeApprovalRun, Moves
<1>7. CASE StartCostguardRun(r)
  BY <1>7 DEF StartCostguardRun, Moves
<1>8. CASE ResumeCostguardRun(r)
  BY <1>8 DEF ResumeCostguardRun, Moves
<1>9. CASE \E to \in Terminal : RunRetryDemo(r, to)
  BY <1>9 DEF RunRetryDemo, Moves
<1> QED  BY <1>1, <1>2, <1>3, <1>4, <1>5, <1>6, <1>7, <1>8, <1>9

\* The protected node of an approval run runs only after a human approved it,
\* whatever starts, resumes, stops, clears and decisions interleave
\* (resume_approval_run, ApprovalRepository.decide).
THEOREM ProtectedWorkIsApproved == Spec => []ProtectedOnlyIfApproved
<1> DEFINE Inv == Typed /\ ProtectedOnlyIfApproved
<1>1. Init => Inv
  BY InitFacts DEF Init, ECInit, ProtectedOnlyIfApproved
<1>2. Inv /\ [Next]_vars => Inv'
  <2> SUFFICES ASSUME Inv, [Next]_vars PROVE Inv'
    OBVIOUS
  <2>1. Typed'
    BY StepEffect
  <2>2. CASE EngineNext
    BY <2>1, <2>2, EngineCompletesApproved
  <2>3. CASE ~EngineNext
    BY <2>1, <2>3, ApprovalStep DEF ProtectedOnlyIfApproved
  <2> QED  BY <2>2, <2>3
<1>3. Inv => ProtectedOnlyIfApproved
  OBVIOUS
<1> QED  BY <1>1, <1>2, <1>3, PTL DEF Spec

\* The effects an activation records describe the runs it leaves behind.
LEMMA ActivationInventory ==
    ASSUME Typed, NEW c \in Clients, Activate(c)
    PROVE  EffectInventoryHolds'
<1>1. /\ events' = Append(events, [type |-> "activated", binding |-> request[c].binding,
                                    actor |-> request[c].actor, key |-> request[c].key,
                                    effect |-> [r \in Runs |-> EffectOf(runs[r])]])
      /\ runs' = [r \in Runs |-> IF runs[r] = "running" THEN "paused" ELSE runs[r]]
  BY DEF Activate, AppendEvent
<1>2. events \in Seq(Event) /\ runs \in [Runs -> RunStatus]
  BY DEF Typed, TypeOK, ECTypeOK
<1>3. LatestEvent'.effect = [r \in Runs |-> EffectOf(runs[r])]
  BY <1>1, <1>2 DEF LatestEvent
<1> QED  BY <1>1, <1>2, <1>3 DEF EffectInventoryHolds, EffectOf, RunStatus, Terminal

\* While the latch is active the engine can only insert new runs.
LEMMA EngineUnderStop ==
    ASSUME Typed, EngineNext, ~NotStopped
    PROVE  /\ events' = events
           /\ \E r \in Runs : runs[r] = "absent" /\ runs' = [runs EXCEPT ![r] = "created"]
<1>1. PICK r \in Runs :
         \/ CreateRun(r)
         \/ StartDemoRun(r) \/ ResumeDemoRun(r)
         \/ StartApprovalRun(r) \/ ResumeApprovalRun(r)
         \/ StartCostguardRun(r) \/ ResumeCostguardRun(r)
         \/ \E to \in Terminal : RunRetryDemo(r, to)
  BY DEF EngineNext
<1>2. CreateRun(r)
  BY <1>1 DEF StartDemoRun, ResumeDemoRun, StartApprovalRun, ResumeApprovalRun,
              StartCostguardRun, ResumeCostguardRun, RunRetryDemo, Moves
<1> QED  BY <1>2 DEF EngineNext, CreateRun

\* As long as the latch is active, the effects recorded with its activation
\* describe every run (activate, emergency_stop_run_effects.status_after):
\* what operators read of the stop stays true until it is cleared.
THEOREM InventoryDescribesRuns == Spec => []EffectInventoryHolds
<1> DEFINE Inv == Typed /\ EffectInventoryHolds
<1>1. Init => Inv
  BY InitFacts DEF EffectInventoryHolds
<1>2. Inv /\ [Next]_vars => Inv'
  <2> SUFFICES ASSUME Inv, [Next]_vars PROVE Inv'
    OBVIOUS
  <2>1. Typed'
    BY StepEffect
  <2>2. CASE EngineNext
    <3>1. LatchState' = LatchState /\ LatestEvent' = LatestEvent
      BY <2>2, EngineStep DEF EngineNext, LatestEvent
    <3>2. CASE NotStopped
      BY <2>1, <3>1, <3>2 DEF EffectInventoryHolds, NotStopped
    <3>3. CASE ~NotStopped
      <4>1. PICK r \in Runs : runs[r] = "absent" /\ runs' = [runs EXCEPT ![r] = "created"]
        BY <2>2, <3>3, EngineUnderStop
      <4> QED  BY <2>1, <3>1, <3>3, <4>1 DEF EffectInventoryHolds, NotStopped, Typed, TypeOK, ECTypeOK
    <3> QED  BY <3>2, <3>3
  <2>3. CASE \E c \in Clients : Activate(c) /\ UNCHANGED <<approval, costStop>>
    BY <2>1, <2>3, ActivationInventory
  <2>4. CASE \E c \in Clients : Clear(c) /\ UNCHANGED <<approval, costStop>>
    BY <2>1, <2>4, ClearStep DEF EffectInventoryHolds
  <2>5. CASE \E c \in Clients : Bind(c) /\ UNCHANGED <<approval, costStop>>
    <3>1. runs' = runs /\ (events' = events \/ LatchState' = "armed")
      BY <2>5, BindStep DEF Bind, LatchState
    <3> QED  BY <2>1, <3>1 DEF EffectInventoryHolds, LatchState, LatestEvent
  <2>6. CASE Quiet
    <3>1. runs' = runs /\ events' = events
      BY <2>6, QuietStep
    <3> QED  BY <2>1, <3>1 DEF EffectInventoryHolds, LatchState, LatestEvent
  <2> QED  BY <2>2, <2>3, <2>4, <2>5, <2>6, StepKinds
<1>3. Inv => EffectInventoryHolds
  OBVIOUS
<1> QED  BY <1>1, <1>2, <1>3, PTL DEF Spec

-----------------------------------------------------------------------------

-----------------------------------------------------------------------------
(* What a request read since it locked the project row.                    *)

\* What the statements so far tell of a request: its binding exists, and each
\* source it read was the recorded one since the lock and is the one its binding
\* froze.
Rests(q) ==
    /\ q.op \in Ops => q.binding \in DOMAIN bindings
    /\ q.at \in {"policy", "checklist", "autonomy", "release"} =>
         /\ q.actor \in q.read.policy /\ q.read.policy \in seen.policy
         /\ q.op \in Ops => bindings[q.binding].policy = q.read.policy
    /\ q.at \in {"checklist", "autonomy", "release"} =>
         /\ q.read.checklist \in seen.checklist
         /\ q.op \in Ops => bindings[q.binding].checklist = q.read.checklist
    /\ q.at \in {"autonomy", "release"} =>
         /\ q.read.stamp \in seen.stamp
         /\ q.op \in Ops => bindings[q.binding].stamp = q.read.stamp
    /\ q.at = "release" =>
         /\ q.read.release \in seen.release
         /\ q.op \in Ops => /\ bindings[q.binding].release = q.read.release
                            /\ q.read.release # NoRelease

\* The sources of the moment are among those seen.
SeenHasNow ==
    /\ policy \in seen.policy /\ checklist \in seen.checklist /\ release \in seen.release
    /\ autonomy.eligible => autonomy.stamp \in seen.stamp

\* One request holds the row; what was seen since then goes up to now; and every
\* request rests on what it read.
LockInv ==
    /\ \A c, d \in Clients : Holds(c) /\ Holds(d) => c = d
    /\ ~LockFree => SeenHasNow
    /\ \A c \in Clients : Rests(request[c])

\* A changed source is seen by whoever holds the row.
LEMMA SourceKeepsLock ==
    ASSUME Typed, LockInv,
           \/ \E p \in Policies \cup {{}} : RecordPolicy(p)
           \/ \E l \in Checklists \cup {NoChecklist} : RecordChecklist(l)
           \/ \E e \in BOOLEAN : SetAutonomy(e)
           \/ \E x \in Releases \cup {NoRelease} : SetRelease(x)
    PROVE  LockInv'
<1>1. /\ request' = request /\ bindings' = bindings
      /\ LockFree => seen' = seen
      /\ /\ seen.policy \subseteq seen'.policy /\ seen.checklist \subseteq seen'.checklist
         /\ seen.stamp \subseteq seen'.stamp /\ seen.release \subseteq seen'.release
      /\ ~LockFree => SeenHasNow'
  <2>1. seen \in Seen /\ (~LockFree => SeenHasNow)
    BY DEF Typed, TypeOK, ECTypeOK, LockInv
  <2>2. CASE \E p \in Policies \cup {{}} : RecordPolicy(p)
    BY <2>1, <2>2 DEF RecordPolicy, Seen, SeenHasNow
  <2>3. CASE \E l \in Checklists \cup {NoChecklist} : RecordChecklist(l)
    BY <2>1, <2>3 DEF RecordChecklist, Seen, SeenHasNow
  <2>4. CASE \E e \in BOOLEAN : SetAutonomy(e)
    BY <2>1, <2>4 DEF SetAutonomy, Seen, SeenHasNow
  <2>5. CASE \E x \in Releases \cup {NoRelease} : SetRelease(x)
    BY <2>1, <2>5 DEF SetRelease, Seen, SeenHasNow
  <2> QED  BY <2>2, <2>3, <2>4, <2>5
<1>2. (LockFree' <=> LockFree) /\ \A c \in Clients : Holds(c)' <=> Holds(c)
  BY <1>1 DEF LockFree, Holds
<1>3. \A c \in Clients : Rests(request[c])'
  BY <1>1 DEF Rests, LockInv
<1> QED  BY <1>1, <1>2, <1>3 DEF LockInv

\* A request that does not hold the row yet rests on nothing it read.
LEMMA BeforeReads ==
    ASSUME NEW d \in Clients, request'[d].at \in {"none", "submitted", "locked"},
           request'[d].op \in Ops => request'[d].binding \in DOMAIN bindings'
    PROVE  Rests(request[d])'
  BY DEF Rests

\* Submit, lock_project_row and the lock of bind.
LEMMA LockKeepsLock ==
    ASSUME Typed, LockInv, NEW c \in Clients,
           \/ Lock(c)
           \/ \E a \in Principals, k \in Keys :
                LockToBind(c, a, k) \/ \E op \in Ops : Submit(c, op, a, k)
    PROVE  LockInv'
<1> USE DEF TypeOK, ECTypeOK
<1>1. UNCHANGED <<sourceVars, bindings>>
  BY DEF Lock, LockToBind, Submit
<1>2. CASE Lock(c) \/ \E a \in Principals, k \in Keys : LockToBind(c, a, k)
  <2>1. LockFree /\ seen' = SeenNow
    BY <1>2 DEF Lock, LockToBind
  <2>2. PICK q : /\ request' = [request EXCEPT ![c] = q] /\ q.at = "locked"
                 /\ q.op \in Ops => q.binding \in DOMAIN bindings
    <3>1. CASE Lock(c)
      <4>1. request[c] \in Request /\ Rests(request[c])
        BY <3>1 DEF Lock, NoRequest, LockInv, Typed
      <4> DEFINE n == [request[c] EXCEPT !.at = "locked"]
      <4>2. /\ request' = [request EXCEPT ![c] = n] /\ n.at = "locked"
            /\ n.op = request[c].op /\ n.binding = request[c].binding
        BY <3>1, <4>1 DEF Lock, Request
      <4> HIDE DEF n
      <4> QED  BY <4>1, <4>2 DEF Rests
    <3>2. CASE \E a \in Principals, k \in Keys : LockToBind(c, a, k)
      <4>1. PICK a \in Principals, k \in Keys : LockToBind(c, a, k)
        BY <3>2
      <4> DEFINE n == [op |-> "bind", actor |-> a, key |-> k, binding |-> 0,
                       at |-> "locked", read |-> Unread]
      <4>2. request' = [request EXCEPT ![c] = n]
        BY <4>1 DEF LockToBind
      <4>3. n.at = "locked" /\ n.op \notin Ops
        BY DEF Ops
      <4> HIDE DEF n
      <4> QED  BY <4>2, <4>3
    <3> QED  BY <1>2, <3>1, <3>2
  <2>3. \A d \in Clients : d # c => request'[d] = request[d] /\ ~Holds(d)
    BY <2>1, <2>2 DEF LockFree, Typed
  <2>4. request'[c] = q
    BY <2>2 DEF Typed
  <2>5. SeenHasNow'
    BY <1>1, <2>1 DEF SeenHasNow, SeenNow, sourceVars
  <2>6. \A d \in Clients : Rests(request[d])'
    <3> SUFFICES ASSUME NEW d \in Clients PROVE Rests(request[d])'
      OBVIOUS
    <3>1. CASE d = c
      BY <1>1, <2>2, <2>4, <3>1, BeforeReads
    <3>2. CASE d # c
      <4>1. request'[d] = request[d] /\ request[d].at \in {"none", "submitted"}
        BY <2>3, <3>2 DEF Holds
      <4>2. request[d].op \in Ops => request[d].binding \in DOMAIN bindings'
        BY <1>1 DEF LockInv, Rests
      <4> QED  BY <4>1, <4>2, BeforeReads
    <3> QED  BY <3>1, <3>2
  <2>7. \A d \in Clients : Holds(d)' => d = c
    BY <2>3 DEF Holds
  <2> QED  BY <2>5, <2>6, <2>7 DEF LockInv
<1>3. CASE \E a \in Principals, k \in Keys, op \in Ops : Submit(c, op, a, k)
  <2>1. PICK q : /\ request' = [request EXCEPT ![c] = q] /\ q.at = "submitted"
                 /\ q.binding \in DOMAIN bindings
                 /\ seen' = seen /\ request[c] = NoRequest
    <3>1. PICK a \in Principals, k \in Keys, op \in Ops : Submit(c, op, a, k)
      BY <1>3
    <3> DEFINE n == [op |-> op, actor |-> a, key |-> k, binding |-> Len(bindings),
                     at |-> "submitted", read |-> Unread]
    <3>2. /\ request' = [request EXCEPT ![c] = n] /\ n.at = "submitted"
          /\ n.binding = Len(bindings)
          /\ seen' = seen /\ request[c] = NoRequest
      BY <3>1 DEF Submit
    <3>3. Len(bindings) \in DOMAIN bindings
      BY <3>1 DEF Submit, Typed
    <3> HIDE DEF n
    <3> QED  BY <3>2, <3>3
  <2>2. /\ request'[c] = q
        /\ \A d \in Clients : d # c => request'[d] = request[d]
    BY <2>1 DEF Typed
  <2>3. \A d \in Clients : Holds(d)' <=> Holds(d)
    BY <2>1, <2>2 DEF Holds, NoRequest
  <2>4. \A d \in Clients : Rests(request[d])'
    <3> SUFFICES ASSUME NEW d \in Clients PROVE Rests(request[d])'
      OBVIOUS
    <3>1. CASE d = c
      BY <1>1, <2>1, <2>2, <3>1, BeforeReads
    <3>2. CASE d # c
      BY <1>1, <2>1, <2>2, <3>2 DEF LockInv, Rests
    <3> QED  BY <3>1, <3>2
  <2>5. SeenHasNow' <=> SeenHasNow
    BY <1>1, <2>1 DEF SeenHasNow, sourceVars
  <2> QED  BY <2>3, <2>4, <2>5 DEF LockInv, LockFree
<1> QED  BY <1>2, <1>3

\* A read adds one source to what the request rests on.
LEMMA ReadKeepsLock ==
    ASSUME Typed, LockInv, NEW c \in Clients,
           ReadPolicy(c) \/ ReadChecklist(c) \/ ReadAutonomy(c) \/ ReadRelease(c)
    PROVE  LockInv'
<1> USE DEF TypeOK, ECTypeOK
<1> DEFINE q == request[c]
<1>1. /\ q \in Request /\ Holds(c)
  BY DEF ReadPolicy, ReadChecklist, ReadAutonomy, ReadRelease, NoRequest, Holds, Typed
<1>2. UNCHANGED <<sourceVars, bindings, seen>> /\ SeenHasNow /\ Rests(q)
  BY <1>1 DEF ReadPolicy, ReadChecklist, ReadAutonomy, ReadRelease, Reads, LockInv, LockFree
<1>3. PICK n \in Request : request' = [request EXCEPT ![c] = n] /\ n.at \in Stages \ {"submitted"}
                           /\ Rests(n)
  <2>1. CASE ReadPolicy(c)
    <3> DEFINE n == [q EXCEPT !.at = "policy", !.read = [q.read EXCEPT !.policy = policy]]
    <3>1. request' = [request EXCEPT ![c] = n] /\ q.actor \in policy
          /\ (q.op \in Ops => bindings[q.binding].policy = policy)
          /\ policy \in Policies \cup {{}}
      BY <2>1 DEF ReadPolicy, Reads, Ops, Typed
    <3>2. /\ n \in Request /\ n.at = "policy" /\ n.op = q.op /\ n.actor = q.actor
          /\ n.binding = q.binding /\ n.read.policy = policy
      BY <1>1, <3>1 DEF Request, Sources, Stages
    <3> HIDE DEF n
    <3>3. Rests(n)
      BY <1>2, <3>1, <3>2 DEF Rests, SeenHasNow
    <3> QED  BY <3>1, <3>2, <3>3 DEF Stages
  <2>2. CASE ReadChecklist(c)
    <3> DEFINE n == [q EXCEPT !.at = "checklist", !.read = [q.read EXCEPT !.checklist = checklist]]
    <3>1. request' = [request EXCEPT ![c] = n] /\ q.at = "policy"
          /\ (q.op \in Ops => bindings[q.binding].checklist = checklist)
          /\ checklist \in Checklists \cup {NoChecklist}
      BY <2>2 DEF ReadChecklist, Reads, Ops, Typed
    <3>2. /\ n \in Request /\ n.at = "checklist" /\ n.op = q.op /\ n.actor = q.actor
          /\ n.binding = q.binding /\ n.read.checklist = checklist
          /\ n.read.policy = q.read.policy
      BY <1>1, <3>1 DEF Request, Sources, Stages
    <3> HIDE DEF n
    <3>3. Rests(n)
      BY <1>2, <3>1, <3>2 DEF Rests, SeenHasNow
    <3> QED  BY <3>1, <3>2, <3>3 DEF Stages
  <2>3. CASE ReadAutonomy(c)
    <3> DEFINE n == [q EXCEPT !.at = "autonomy", !.read = [q.read EXCEPT !.stamp = autonomy.stamp]]
    <3>1. request' = [request EXCEPT ![c] = n] /\ q.at = "checklist" /\ autonomy.eligible
          /\ (q.op \in Ops => bindings[q.binding].stamp = autonomy.stamp)
          /\ autonomy.stamp \in Nat
      BY <2>3 DEF ReadAutonomy, Reads, Ops, Typed
    <3>2. /\ n \in Request /\ n.at = "autonomy" /\ n.op = q.op /\ n.actor = q.actor
          /\ n.binding = q.binding /\ n.read.stamp = autonomy.stamp
          /\ n.read.policy = q.read.policy /\ n.read.checklist = q.read.checklist
      BY <1>1, <3>1 DEF Request, Sources, Stages
    <3> HIDE DEF n
    <3>3. Rests(n)
      BY <1>2, <3>1, <3>2 DEF Rests, SeenHasNow
    <3> QED  BY <3>1, <3>2, <3>3 DEF Stages
  <2>4. CASE ReadRelease(c)
    <3> DEFINE n == [q EXCEPT !.at = "release", !.read = [q.read EXCEPT !.release = release]]
    <3>1. request' = [request EXCEPT ![c] = n] /\ q.at = "autonomy"
          /\ (q.op \in Ops => bindings[q.binding].release = release /\ release # NoRelease)
          /\ release \in Releases \cup {NoRelease}
      BY <2>4 DEF ReadRelease, Reads, Ops, Typed
    <3>2. /\ n \in Request /\ n.at = "release" /\ n.op = q.op /\ n.actor = q.actor
          /\ n.binding = q.binding /\ n.read.release = release
          /\ n.read.policy = q.read.policy /\ n.read.checklist = q.read.checklist
          /\ n.read.stamp = q.read.stamp
      BY <1>1, <3>1 DEF Request, Sources, Stages
    <3> HIDE DEF n
    <3>3. Rests(n)
      BY <1>2, <3>1, <3>2 DEF Rests, SeenHasNow
    <3> QED  BY <3>1, <3>2, <3>3 DEF Stages
  <2> QED  BY <2>1, <2>2, <2>3, <2>4
<1>4. /\ request'[c] = n
      /\ \A d \in Clients : d # c => request'[d] = request[d]
  BY <1>3 DEF Typed
<1>5. \A d \in Clients : Holds(d)' <=> Holds(d)
  BY <1>1, <1>3, <1>4 DEF Holds, Stages
<1>6. \A d \in Clients : Rests(request[d])'
  BY <1>2, <1>3, <1>4 DEF LockInv, Rests
<1>7. SeenHasNow'
  BY <1>2 DEF SeenHasNow, sourceVars
<1> QED  BY <1>5, <1>6, <1>7 DEF LockInv

\* The end of a request leaves nothing seen if it held the row, and the other
\* requests as they were; bindings only grow.
LEMMA LeaveKeepsLock ==
    ASSUME Typed, LockInv, NEW c \in Clients, Leave(c), UNCHANGED sourceVars,
           DOMAIN bindings \subseteq DOMAIN bindings',
           \A i \in DOMAIN bindings : bindings'[i] = bindings[i]
    PROVE  LockInv'
<1>1. /\ request'[c] = NoRequest
      /\ \A d \in Clients : d # c => request'[d] = request[d]
  BY DEF Leave, Typed, TypeOK, ECTypeOK
<1>2. ~Holds(c)' /\ \A d \in Clients : d # c => (Holds(d)' <=> Holds(d))
  BY <1>1 DEF Holds, NoRequest
<1>3. \A d \in Clients : d # c /\ Holds(d) => seen' = seen
  BY DEF Leave, LockInv
<1>4. \A d \in Clients : Rests(request[d])'
  <2> SUFFICES ASSUME NEW d \in Clients PROVE Rests(request[d])'
    OBVIOUS
  <2>1. CASE d = c
    BY <1>1, <2>1, BeforeReads DEF NoRequest, Ops
  <2>2. CASE d # c /\ Holds(d)
    BY <1>1, <1>3, <2>2 DEF LockInv, Rests
  <2>3. CASE d # c /\ ~Holds(d)
    <3>1. request'[d] = request[d] /\ request[d].at \in {"none", "submitted"}
      BY <1>1, <2>3 DEF Holds
    <3>2. request[d].op \in Ops => request[d].binding \in DOMAIN bindings'
      BY DEF LockInv, Rests
    <3> QED  BY <3>1, <3>2, BeforeReads
  <2> QED  BY <2>1, <2>2, <2>3
<1>5. ~LockFree' => SeenHasNow'
  BY <1>2, <1>3 DEF LockInv, LockFree, SeenHasNow, sourceVars
<1> QED  BY <1>2, <1>4, <1>5 DEF LockInv

\* Every step keeps LockInv.
LEMMA LockStep == ASSUME Typed, LockInv, [Next]_vars PROVE LockInv'
<1>1. CASE UNCHANGED <<sourceVars, bindings, request, seen>>
  BY <1>1 DEF LockInv, LockFree, Holds, Rests, SeenHasNow, sourceVars
<1>2. CASE \E c \in Clients : Bind(c)
  <2>1. PICK c \in Clients : Bind(c)
    BY <1>2
  <2>2. Leave(c) /\ UNCHANGED sourceVars
    BY <2>1 DEF Bind
  <2>3. PICK b : bindings' = Append(bindings, b)
    BY <2>1 DEF Bind
  <2>4. /\ DOMAIN bindings \subseteq DOMAIN bindings'
        /\ \A i \in DOMAIN bindings : bindings'[i] = bindings[i]
    BY <2>3 DEF Typed, TypeOK, ECTypeOK
  <2> QED  BY <2>1, <2>2, <2>4, LeaveKeepsLock
<1>3. CASE \E c \in Clients : Activate(c) \/ Clear(c) \/ AuthorizeRollback(c) \/ Refuse(c)
  <2>1. PICK c \in Clients : Leave(c) /\ UNCHANGED <<sourceVars, bindings>>
    BY <1>3 DEF Activate, Clear, AuthorizeRollback, Refuse, AppendEvent
  <2> QED  BY <2>1, LeaveKeepsLock
<1>4. CASE \E c \in Clients : \/ ReadPolicy(c) \/ ReadChecklist(c)
                              \/ ReadAutonomy(c) \/ ReadRelease(c)
  BY <1>4, ReadKeepsLock
<1>5. CASE \/ \E c \in Clients, a \in Principals, k \in Keys :
                LockToBind(c, a, k) \/ \E op \in Ops : Submit(c, op, a, k)
           \/ \E c \in Clients : Lock(c)
  BY <1>5, LockKeepsLock
<1>6. CASE \/ \E p \in Policies \cup {{}} : RecordPolicy(p)
           \/ \E l \in Checklists \cup {NoChecklist} : RecordChecklist(l)
           \/ \E e \in BOOLEAN : SetAutonomy(e)
           \/ \E x \in Releases \cup {NoRelease} : SetRelease(x)
  BY <1>6, SourceKeepsLock
<1>7. CASE EngineNext \/ (\E r \in Runs : DecideApproval(r)) \/ CostChanges \/ UNCHANGED vars
  BY <1>1, <1>7 DEF EngineNext, DecideApproval, CostChanges, vars, ecVars
<1> QED  BY <1>2, <1>3, <1>4, <1>5, <1>6, <1>7, StepKinds DEF Quiet

\* A row that is appended is the only new one.
LEMMA AppendedRow ==
    ASSUME NEW S, NEW s \in Seq(S), NEW x \in S
    PROVE  /\ DOMAIN Append(s, x) \ DOMAIN s = {Len(s) + 1}
           /\ Append(s, x)[Len(s) + 1] = x
  OBVIOUS

\* Whoever appends an event from a request rests on what it read since the lock.
LEMMA EventUnderSources ==
    ASSUME Typed, LockInv, NEW c \in Clients, NEW type \in EventTypes,
           NEW effect \in [Runs -> EffectCodes], request[c] \in Request,
           request[c].op \in Ops, request[c].at = "autonomy",
           AppendEvent(c, type, effect), UNCHANGED bindings
    PROVE  \A i \in DOMAIN events' \ DOMAIN events :
               Stood(bindings'[events'[i].binding], events'[i].actor)
<1> DEFINE e == [type |-> type, binding |-> request[c].binding, actor |-> request[c].actor,
                 key |-> request[c].key, effect |-> effect]
<1>1. e \in Event /\ events \in Seq(Event)
  BY DEF Event, Request, Typed, TypeOK, ECTypeOK
<1>2. events' = Append(events, e)
  BY DEF AppendEvent
<1>3. e.actor = request[c].actor /\ e.binding = request[c].binding
  OBVIOUS
<1>4. Stood(bindings[request[c].binding], request[c].actor)
  BY DEF LockInv, Rests, Stood
<1> HIDE DEF e
<1>5. \A i \in DOMAIN events' \ DOMAIN events : events'[i] = e
  BY <1>1, <1>2, AppendedRow
<1> QED  BY <1>3, <1>4, <1>5

\* A binding, and the anchor it may write, rest on what bind read.
LEMMA BindingUnderSources ==
    ASSUME Typed, LockInv, NEW c \in Clients, Bind(c)
    PROVE  /\ \A i \in DOMAIN bindings' \ DOMAIN bindings :
                Stood(bindings'[i], bindings'[i].by) /\ bindings'[i].release \in seen.release
           /\ \A i \in DOMAIN events' \ DOMAIN events :
                Stood(bindings'[events'[i].binding], events'[i].actor)
<1> DEFINE q == request[c]
           b == [policy |-> q.read.policy, checklist |-> q.read.checklist,
                 stamp |-> q.read.stamp, release |-> q.read.release,
                 by |-> q.actor, key |-> q.key]
           e == [type |-> "armed_anchor", binding |-> Len(bindings) + 1,
                 actor |-> q.actor, key |-> AnchorKey, effect |-> NoEffect]
<1>0. q \in Request /\ q.read.policy \in Policies /\ q.read.checklist \in Checklists
  BY OpenRequest DEF Bind, Typed, WellRead
<1>1. b \in Binding /\ bindings \in Seq(Binding) /\ bindings' = Append(bindings, b)
  BY <1>0 DEF Bind, Binding, Request, Sources, Typed, TypeOK, ECTypeOK
<1>2. Stood(b, q.actor) /\ b.release \in seen.release /\ b.by = q.actor
  BY DEF Bind, LockInv, Rests, Stood
<1>3. e.actor = q.actor /\ e.binding = Len(bindings) + 1
  OBVIOUS
<1>4. events' = events \/ events' = <<e>>
  BY DEF Bind
<1> HIDE DEF b, e
<1>5. /\ DOMAIN bindings' \ DOMAIN bindings = {Len(bindings) + 1}
      /\ bindings'[Len(bindings) + 1] = b
  BY <1>1, AppendedRow
<1>6. \A i \in DOMAIN events' \ DOMAIN events : events'[i] = e
  BY <1>4
<1> QED  BY <1>2, <1>3, <1>5, <1>6

\* What a step records, a binding, an event or a rollback authorization, rests
\* on sources each of which was the recorded one at some moment since the
\* request locked the project row, although the request chose its binding before
\* the lock and nobody locks the sources (_assert_current_member,
\* append_binding, authorize_rollback).
THEOREM RecordsRestOnSourcesSinceLock == Spec => RecordedUnderSourcesSinceLock
<1> DEFINE NewBindings ==
             \A i \in DOMAIN bindings' \ DOMAIN bindings :
                 Stood(bindings'[i], bindings'[i].by) /\ bindings'[i].release \in seen.release
           NewEvents ==
             \A i \in DOMAIN events' \ DOMAIN events :
                 Stood(bindings'[events'[i].binding], events'[i].actor)
           NewAuths ==
             \A i \in DOMAIN auths' \ DOMAIN auths :
                 LET b == bindings[auths'[i].binding] IN
                 /\ Stood(b, auths'[i].actor)
                 /\ auths'[i].release = b.release
                 /\ b.release \in seen.release \ {NoRelease}
<1>1. Typed /\ LockInv /\ [Next]_vars => NewBindings /\ NewEvents /\ NewAuths
  <2> SUFFICES ASSUME Typed, LockInv, [Next]_vars PROVE NewBindings /\ NewEvents /\ NewAuths
    OBVIOUS
  <2>1. CASE UNCHANGED <<bindings, events, auths>>
    BY <2>1
  <2>2. CASE \E c \in Clients : Activate(c)
    <3>1. PICK c \in Clients : Activate(c)
      BY <2>2
    <3>2. /\ request[c] \in Request /\ "activated" \in EventTypes
          /\ [r \in Runs |-> EffectOf(runs[r])] \in [Runs -> EffectCodes]
      BY <3>1, OpenRequest, EffectsTyped DEF Activate, EventTypes, Typed, TypeOK, ECTypeOK
    <3>3. /\ request[c].op \in Ops /\ request[c].at = "autonomy"
          /\ AppendEvent(c, "activated", [r \in Runs |-> EffectOf(runs[r])])
          /\ UNCHANGED <<bindings, auths>>
      BY <3>1 DEF Activate, Ops
    <3> QED  BY <3>2, <3>3, EventUnderSources
  <2>3. CASE \E c \in Clients : Clear(c)
    <3>1. PICK c \in Clients : Clear(c)
      BY <2>3
    <3>2. /\ request[c] \in Request /\ "cleared" \in EventTypes
          /\ NoEffect \in [Runs -> EffectCodes]
      BY <3>1, OpenRequest DEF Clear, EventTypes, NoEffect, EffectCodes
    <3>3. /\ request[c].op \in Ops /\ request[c].at = "autonomy"
          /\ AppendEvent(c, "cleared", NoEffect)
          /\ UNCHANGED <<bindings, auths>>
      BY <3>1 DEF Clear, Ops
    <3> QED  BY <3>2, <3>3, EventUnderSources
  <2>4. CASE \E c \in Clients : Bind(c)
    <3>1. auths' = auths
      BY <2>4 DEF Bind
    <3> QED  BY <2>4, <3>1, BindingUnderSources
  <2>5. CASE \E c \in Clients : AuthorizeRollback(c)
    <3>1. PICK c \in Clients : AuthorizeRollback(c)
      BY <2>5
    <3>2. /\ request[c] \in Request /\ request[c].op \in Ops /\ request[c].at = "release"
          /\ request[c].read.release \in Releases
      BY <3>1, OpenRequest DEF AuthorizeRollback, Ops, Typed, WellRead
    <3> DEFINE n == [binding |-> request[c].binding, actor |-> request[c].actor,
                     key |-> request[c].key, release |-> request[c].read.release]
    <3>3. /\ n \in Authorization /\ auths \in Seq(Authorization)
          /\ auths' = Append(auths, n) /\ events' = events /\ bindings' = bindings
      BY <3>1, <3>2 DEF AuthorizeRollback, Authorization, Request, Typed, TypeOK, ECTypeOK
    <3>4. /\ Stood(bindings[n.binding], n.actor) /\ n.release = bindings[n.binding].release
          /\ n.release \in seen.release \ {NoRelease}
      BY <3>2 DEF LockInv, Rests, Stood
    <3> HIDE DEF n
    <3>5. \A i \in DOMAIN auths' \ DOMAIN auths : auths'[i] = n
      BY <3>3, AppendedRow
    <3> QED  BY <3>3, <3>4, <3>5
  <2>6. CASE EngineNext
    BY <2>1, <2>6 DEF EngineNext
  <2>7. CASE Quiet /\ ~\E c \in Clients : AuthorizeRollback(c)
    <3>1. UNCHANGED <<bindings, events, auths>>
      BY <2>7 DEF Quiet, RecordPolicy, RecordChecklist, SetAutonomy, SetRelease, Submit, Lock,
                  LockToBind, ReadPolicy, ReadChecklist, ReadAutonomy, ReadRelease, Reads, Refuse,
                  DecideApproval, CostChanges, vars, ecVars
    <3> QED  BY <2>1, <3>1
  <2> QED  BY <2>2, <2>3, <2>4, <2>5, <2>6, <2>7, StepKinds
<1>2. Init => LockInv
  <2> SUFFICES ASSUME Init PROVE LockInv
    OBVIOUS
  <2>1. \A c \in Clients : request[c] = NoRequest
    BY DEF Init, ECInit
  <2> QED  BY <2>1 DEF LockInv, LockFree, Holds, Rests, NoRequest, Ops
<1>3. Typed /\ LockInv /\ [Next]_vars => LockInv'
  BY LockStep
<1>4. NewBindings /\ NewEvents /\ NewAuths
        => (/\ \A i \in DOMAIN bindings' \ DOMAIN bindings :
                 Stood(bindings'[i], bindings'[i].by) /\ bindings'[i].release \in seen.release
            /\ \A i \in DOMAIN events' \ DOMAIN events :
                 Stood(bindings'[events'[i].binding], events'[i].actor)
            /\ \A i \in DOMAIN auths' \ DOMAIN auths :
                 LET b == bindings[auths'[i].binding] IN
                 /\ Stood(b, auths'[i].actor)
                 /\ auths'[i].release = b.release
                 /\ b.release \in seen.release \ {NoRelease})
  OBVIOUS
<1> QED  BY <1>1, <1>2, <1>3, EngineTyped, PTL DEF Spec, RecordedUnderSourcesSinceLock
=============================================================================
