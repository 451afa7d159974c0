---------------------------- MODULE Preapprovals ----------------------------
(***************************************************************************)
(* Production pre-approvals: who asked, who approved what release binding  *)
(* under which recorded policy, and the evidence gate 12 reads             *)
(* (app/release/production_approval_service, production_approval,          *)
(* app/repositories/production_preapprovals, migration 0052).              *)
(*                                                                         *)
(* A service call is one READ COMMITTED transaction: what it reads may be  *)
(* stale when it writes.  Its first audit append takes the global audit    *)
(* lock, held to the commit; the project row is locked by revoke before    *)
(* that and by approve after it.  Deferred triggers run at the commit.     *)
(***************************************************************************)
EXTENDS Naturals, Sequences, FiniteSets

CONSTANTS
    Humans, Services,   \* authenticated principals by actor_type
    ApproverLists,      \* lists human_approval_policy may declare
    Releases,           \* candidate, core, verdict and autonomy policy, as one value
    Keys,               \* request idempotency keys
    Sessions,
    Validity,           \* ticks until an attestation expires
    MaxRequests, MaxTime

\* What the proofs assume of the constants: the bounds and the validity are numbers.
Parameters == MaxRequests \in Nat /\ MaxTime \in Nat /\ Validity \in Nat

VARIABLES
    release, approvers, eligible,   \* the current sources; eligible: re-audited, verdict and A5 policy good
    requests,       \* production_preapproval_requests with their approvals, by created_at
    attestations,   \* with the head of their lifecycle, by created_at
    now,
    session

vars == <<release, approvers, eligible, requests, attestations, now, session>>

Principals == Humans \cup Services
\* A snapshot of the declared policy: its ordered, distinct, exact principals.
PolicyVersion == {list \in ApproverLists : list # {}}
Binding == [release : Releases, approvers : PolicyVersion]
ApprovalStatus == {"pending", "approved", "rejected", "cancelled"}
PreapprovalRequest == [key : Keys, requester : Principals, binding : Binding, status : ApprovalStatus]
LifecycleEvent == {"approved_anchor", "revoked", "superseded"}
Attestation == [request : 1..MaxRequests, approver : Principals, approved_at : 0..MaxTime,
                head : LifecycleEvent]

Idle == [step |-> "idle"]
Jobs ==
    {Idle}
    \cup [step : {"requesting"}, key : Keys, by : Principals, binding : Binding]
    \cup [step : {"deciding"}, request : 1..MaxRequests, by : Principals, to : ApprovalStatus]
    \cup [step : {"approving"}, request : 1..MaxRequests, by : Principals]
    \cup [step : {"revoking"}, attestation : 1..MaxRequests, by : Principals]

TypeOK ==
    /\ release \in Releases /\ approvers \in ApproverLists /\ eligible \in BOOLEAN
    /\ requests \in Seq(PreapprovalRequest) /\ Len(requests) <= MaxRequests
    /\ attestations \in Seq(Attestation) /\ Len(attestations) <= Len(requests)
    /\ now \in 0..MaxTime
    /\ session \in [Sessions -> Jobs]

Init ==
    /\ release \in Releases /\ approvers \in ApproverLists /\ eligible = TRUE
    /\ requests = <<>> /\ attestations = <<>> /\ now = 0
    /\ session = [s \in Sessions |-> Idle]

-----------------------------------------------------------------------------
(* Coverage.                                                                *)

\* release_binding_digest of the current sources.
CurrentBinding == [release |-> release, approvers |-> approvers]

AttestationsOf(r) == {a \in DOMAIN attestations : attestations[a].request = r}
AttestationOf(r) == CHOOSE a \in AttestationsOf(r) : TRUE

\* preapproval_is_expired: at the boundary it is.
Expired(a) == now >= attestations[a].approved_at + Validity

\* Coverage that falls back to the newest request that was approved.
LatestApproved ==
    LET R == {r \in DOMAIN requests : requests[r].status = "approved"}
    IN  IF R = {} THEN Len(requests) ELSE CHOOSE r \in R : \A q \in R : q <= r

\* latest_request: the newest one, also when it is pending, rejected or cancelled.
LatestRequest == Len(requests)

BindingIsCurrent(r) == requests[r].binding = CurrentBinding

\* coverage_for_project(...).gate_eligible.
GateEligible ==
    /\ requests # <<>>
    /\ LET r == LatestRequest IN
         /\ requests[r].status = "approved" /\ BindingIsCurrent(r)
         /\ AttestationsOf(r) # {}
         /\ attestations[AttestationOf(r)].head = "approved_anchor"
         /\ ~Expired(AttestationOf(r))

\* The ladder of gate 12: the rungs of the sources, then those of the coverage.
Gate12 == eligible /\ approvers # {} /\ GateEligible

-----------------------------------------------------------------------------
(* The deferred triggers.                                                   *)

\* slice53_validate_policy: the snapshot still is the declared policy.
PolicyProjectionHolds(binding) == binding.approvers = approvers

\* slice53_validate_request: approved exactly when attested, by a listed
\* approver that is not the requester; over the graph as it is at the commit.
RequestGraphHolds(r, rs, as) ==
    /\ PolicyProjectionHolds(rs[r].binding)
    /\ LET A == {a \in DOMAIN as : as[a].request = r} IN
         /\ Cardinality(A) = IF rs[r].status = "approved" THEN 1 ELSE 0
         /\ \A a \in A : as[a].approver \in rs[r].binding.approvers \ {rs[r].requester}

-----------------------------------------------------------------------------
(* What the pre-approval rests on changes.                                  *)

\* A new candidate, core, verdict or autonomy policy.
Advance(r) ==
    /\ r # release
    /\ release' = r
    /\ UNCHANGED <<approvers, eligible, requests, attestations, now, session>>

\* IntakeCategoryRepository.revise of human_approval_policy.
RevisePolicy(list) ==
    /\ list # approvers
    /\ approvers' = list
    /\ UNCHANGED <<release, eligible, requests, attestations, now, session>>

\* The core stops, or starts again, to re-audit.
Reaudit ==
    /\ eligible' = ~eligible
    /\ UNCHANGED <<release, approvers, requests, attestations, now, session>>

Tick ==
    /\ now < MaxTime
    /\ now' = now + 1
    /\ UNCHANGED <<release, approvers, eligible, requests, attestations, session>>

-----------------------------------------------------------------------------
(* request.                                                                 *)

\* uq_ppr_idempotency.
KeyUnused(key) == \A r \in DOMAIN requests : requests[r].key # key

\* parse_recorded_policy: an empty or an inexact list of approvers does not parse.
PolicyParses == approvers \in PolicyVersion

\* require_current_sources, with a recorded policy that parses.
SourcesComplete == eligible /\ PolicyParses

\* A key already used replays its request; otherwise the sources are read.
BeginRequest(s, key, by) ==
    /\ session[s] = Idle
    /\ KeyUnused(key) /\ SourcesComplete
    /\ session' = [session EXCEPT ![s] =
          [step |-> "requesting", key |-> key, by |-> by, binding |-> CurrentBinding]]
    /\ UNCHANGED <<release, approvers, eligible, requests, attestations, now>>

AuditFree == \A s \in Sessions : session[s].step # "approving"
ProjectFree == \A s \in Sessions : session[s].step # "revoking"

\* append_policy_snapshot, the explicit production approval and append_request.
CommitRequest(s) ==
    LET j == session[s] IN
    /\ j.step = "requesting" /\ AuditFree
    /\ Len(requests) < MaxRequests
    /\ KeyUnused(j.key)
    /\ PolicyProjectionHolds(j.binding)
    /\ requests' = Append(requests, [key |-> j.key, requester |-> j.by, binding |-> j.binding,
                                     status |-> "pending"])
    /\ session' = [session EXCEPT ![s] = Idle]
    /\ UNCHANGED <<release, approvers, eligible, attestations, now>>

-----------------------------------------------------------------------------
(* approve, reject and cancel.                                              *)

\* _require_policy_approver.
PolicyApprover(r, by) == by \in Humans /\ by \in requests[r].binding.approvers

\* and its separation of duties.
SeparateApprover(r, by) == PolicyApprover(r, by) /\ by # requests[r].requester

\* The reads of the call: its request is pending, the newest and current.
BeginDecision(s, r, to, by) ==
    /\ session[s] = Idle
    /\ requests[r].status = "pending"
    /\ to # "cancelled" => r = LatestRequest /\ BindingIsCurrent(r) /\ SeparateApprover(r, by)
    /\ to = "cancelled" => by = requests[r].requester
    /\ session' = [session EXCEPT ![s] = [step |-> "deciding", request |-> r, by |-> by, to |-> to]]
    /\ UNCHANGED <<release, approvers, eligible, requests, attestations, now>>

\* ApprovalRepository.reject and .cancel: only a row still pending moves.
CommitDecision(s) ==
    LET j == session[s]
        rs == [requests EXCEPT ![j.request].status = j.to]
    IN
    /\ j.step = "deciding" /\ j.to \in {"rejected", "cancelled"} /\ AuditFree
    /\ requests[j.request].status = "pending"
    /\ RequestGraphHolds(j.request, rs, attestations)
    /\ requests' = rs
    /\ session' = [session EXCEPT ![s] = Idle]
    /\ UNCHANGED <<release, approvers, eligible, attestations, now>>

\* An approval that trusts the status it read.
ApproveAsRead(s) ==
    LET j == session[s] IN
    /\ j.step = "deciding" /\ j.to = "approved" /\ AuditFree
    /\ session' = [session EXCEPT ![s] = [step |-> "approving", request |-> j.request, by |-> j.by]]
    /\ UNCHANGED <<release, approvers, eligible, requests, attestations, now>>

\* ApprovalRepository.approve: the transition, and the audit lock with it.
Approve(s) ==
    LET j == session[s] IN
    /\ j.step = "deciding" /\ j.to = "approved" /\ AuditFree
    /\ requests[j.request].status = "pending"
    /\ session' = [session EXCEPT ![s] = [step |-> "approving", request |-> j.request, by |-> j.by]]
    /\ UNCHANGED <<release, approvers, eligible, requests, attestations, now>>

\* An approval that leaves the prior attestation standing.
SupersedeNothing(as) == as

\* _supersede_prior: the newest other attestation, when it still is anchored.
SupersedePrior(as) ==
    IF as # <<>> /\ as[Len(as)].head = "approved_anchor"
      THEN [as EXCEPT ![Len(as)].head = "superseded"] ELSE as

\* The checks and keys of the attestations: one for a request, by another human.
AttestationAdmitted(r, by) ==
    AttestationsOf(r) = {} /\ by \in Humans \ {requests[r].requester}

\* append_attestation, its anchor and _supersede_prior under the project lock.
CommitApproval(s) ==
    LET j == session[s]
        rs == [requests EXCEPT ![j.request].status = "approved"]
        prior == SupersedePrior(attestations)
        as == Append(prior, [request |-> j.request, approver |-> j.by, approved_at |-> now,
                             head |-> "approved_anchor"])
    IN
    /\ j.step = "approving" /\ ProjectFree
    /\ AttestationAdmitted(j.request, j.by)
    /\ RequestGraphHolds(j.request, rs, as)
    /\ \A a \in DOMAIN attestations :
          prior[a] # attestations[a] => RequestGraphHolds(attestations[a].request, rs, as)
    /\ requests' = rs /\ attestations' = as
    /\ session' = [session EXCEPT ![s] = Idle]
    /\ UNCHANGED <<release, approvers, eligible, now>>

-----------------------------------------------------------------------------
(* revoke.                                                                  *)

\* ck_pple_chain, uq_pple_previous: an event follows the anchor, and one only.
EventAdmitted(a) == attestations[a].head = "approved_anchor"

\* The project row is locked before the attestation and its head are read.
BeginRevoke(s, a, by) ==
    /\ session[s] = Idle /\ ProjectFree
    /\ PolicyApprover(attestations[a].request, by)
    /\ attestations[a].head = "approved_anchor"
    /\ session' = [session EXCEPT ![s] = [step |-> "revoking", attestation |-> a, by |-> by]]
    /\ UNCHANGED <<release, approvers, eligible, requests, attestations, now>>

CommitRevoke(s) ==
    LET j == session[s]
        as == [attestations EXCEPT ![j.attestation].head = "revoked"]
    IN
    /\ j.step = "revoking" /\ AuditFree /\ EventAdmitted(j.attestation)
    /\ RequestGraphHolds(attestations[j.attestation].request, requests, as)
    /\ attestations' = as
    /\ session' = [session EXCEPT ![s] = Idle]
    /\ UNCHANGED <<release, approvers, eligible, requests, now>>

\* A conflict, a refused commit, or the victim of a deadlock between approve and revoke.
Abort(s) ==
    /\ session[s] # Idle
    /\ session' = [session EXCEPT ![s] = Idle]
    /\ UNCHANGED <<release, approvers, eligible, requests, attestations, now>>

Next ==
    \/ \E r \in Releases : Advance(r)
    \/ \E list \in ApproverLists : RevisePolicy(list)
    \/ Reaudit
    \/ Tick
    \/ \E s \in Sessions :
         \/ \E key \in Keys, by \in Principals : BeginRequest(s, key, by)
         \/ CommitRequest(s)
         \/ \E r \in DOMAIN requests, by \in Principals, to \in ApprovalStatus \ {"pending"} :
               BeginDecision(s, r, to, by)
         \/ CommitDecision(s)
         \/ Approve(s)
         \/ CommitApproval(s)
         \/ \E a \in DOMAIN attestations, by \in Humans : BeginRevoke(s, a, by)
         \/ CommitRevoke(s)
         \/ Abort(s)

Spec == Init /\ [][Next]_vars

-----------------------------------------------------------------------------
Live == {a \in DOMAIN attestations : attestations[a].head = "approved_anchor"}

\* At most one attestation of a project stands, however approvals of older and
\* newer requests and revocations interleave (_supersede_prior looks at one
\* prior attestation only).
OneLiveAttestation == Cardinality(Live) <= 1

\* Gate 12 is open only while the newest request of all was approved for
\* exactly the current binding, by a declared approver other than the
\* requester, less than the validity ago, and its attestation is the only one
\* that stands: an approval that a newer request overtook between its check
\* and its commit opens nothing (_require_current_request reads before the lock).
GateRestsOnNewest ==
    Gate12 =>
        LET r == requests[Len(requests)] IN
        /\ r.status = "approved" /\ r.binding = CurrentBinding
        /\ \E a \in Live :
             /\ Live = {a} /\ attestations[a].request = Len(requests)
             /\ attestations[a].approver \in (Humans \cap approvers) \ {r.requester}
             /\ now < attestations[a].approved_at + Validity

\* What stands for a project is one attestation, and gate 12 opens on it only
\* for the newest request (coverage_for_project, _supersede_prior).
PreapprovalStands == OneLiveAttestation /\ GateRestsOnNewest

\* A decided request is never decided again, and an attestation that was
\* revoked or superseded never stands again, although approve, reject, cancel
\* and revoke check what they read earlier in their transactions.
DecisionStep ==
    /\ \A r \in DOMAIN requests :
         requests[r].status # "pending" => requests'[r].status = requests[r].status
    /\ \A a \in DOMAIN attestations :
         attestations[a].head # "approved_anchor" => attestations'[a].head = attestations[a].head

\* What the plan of the slice promises: an attestation that stands can be
\* revoked by a listed approver, and superseded by a later approval.
StandingIsRevocable ==
    \A a \in Live : RequestGraphHolds(attestations[a].request, requests,
                                     [attestations EXCEPT ![a].head = "revoked"])
=============================================================================
