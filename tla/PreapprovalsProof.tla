------------------------- MODULE PreapprovalsProof -------------------------
(***************************************************************************)
(* Proofs about Preapprovals, for any people, policies, releases, sessions *)
(* and bounds: one attestation stands, gate 12 rests on the newest         *)
(* request, and what was decided stays decided.                            *)
(***************************************************************************)
EXTENDS Preapprovals, FiniteSetTheorems, SequenceTheorems, TLAPS

\* Only the newest attestation may stand.
NewestStands ==
    \A a \in DOMAIN attestations :
        attestations[a].head = "approved_anchor" => a = Len(attestations)

\* An attestation is about an approved request, by a listed human that did not
\* ask for it.
Attests(x) ==
    /\ x.request \in DOMAIN requests
    /\ requests[x.request].status = "approved"
    /\ x.approver \in (Humans \cap requests[x.request].binding.approvers)
                          \ {requests[x.request].requester}

\* A request is attested once.
AttestedOnce ==
    \A a, b \in DOMAIN attestations : attestations[a].request = attestations[b].request => a = b

\* A session names rows that exist.
JobFits(j) ==
    /\ j.step \in {"deciding", "approving"} => j.request \in DOMAIN requests
    /\ j.step = "revoking" => j.attestation \in DOMAIN attestations

\* The audit lock is held by one approval, whose request is still pending.
ApprovalsLock ==
    \A s \in Sessions : session[s].step = "approving" =>
        /\ requests[session[s].request].status = "pending"
        /\ \A o \in Sessions \ {s} : session[o].step # "approving"

PreapprovalInv ==
    /\ TypeOK
    /\ NewestStands
    /\ \A a \in DOMAIN attestations : Attests(attestations[a])
    /\ AttestedOnce
    /\ \A s \in Sessions : JobFits(session[s])
    /\ ApprovalsLock
-----------------------------------------------------------------------------
(* Rows.                                                                   *)

\* Rows are numbered from 1 and have their types.
LEMMA Rows ==
    ASSUME TypeOK
    PROVE  /\ Len(requests) \in Nat /\ DOMAIN requests = 1..Len(requests)
           /\ Len(attestations) \in Nat /\ DOMAIN attestations = 1..Len(attestations)
           /\ \A r \in DOMAIN requests : requests[r] \in PreapprovalRequest
           /\ \A a \in DOMAIN attestations : attestations[a] \in Attestation
<1>1. requests \in Seq(PreapprovalRequest) /\ attestations \in Seq(Attestation)
  BY DEF TypeOK
<1>2. Len(requests) \in Nat /\ DOMAIN requests = 1..Len(requests)
      /\ Len(attestations) \in Nat /\ DOMAIN attestations = 1..Len(attestations)
  BY <1>1, LenProperties
<1> QED
  BY <1>1, <1>2, ElementOfSeq

\* Since a request is attested once, there are no more attestations than requests.
LEMMA AttestationsFit ==
    ASSUME NEW n \in Nat, NEW m \in Nat, NEW f \in [1..n -> 1..m],
           \A a, b \in 1..n : f[a] = f[b] => a = b
    PROVE  n <= m
<1> DEFINE S == 1..n
           T == 1..m
<1>1. IsFiniteSet(S) /\ Cardinality(S) = n /\ IsFiniteSet(T) /\ Cardinality(T) = m
  BY FS_Interval
<1>2. f \in Injection(S, T)
  BY DEF Injection, IsInjective
<1>3. Cardinality(S) <= Cardinality(T)
  <2> HIDE DEF S, T
  <2> QED
    BY <1>1, <1>2, FS_Injection
<1> QED
  BY <1>1, <1>3

\* The attestations after _supersede_prior: none stands, and nothing but the
\* head of the one that stood has changed.
LEMMA Superseded ==
    ASSUME TypeOK, NewestStands, NEW p, p = SupersedePrior(attestations)
    PROVE  /\ p \in Seq(Attestation) /\ Len(p) = Len(attestations)
           /\ \A a \in 1..Len(attestations) :
                /\ p[a].head # "approved_anchor"
                /\ p[a].request = attestations[a].request
                /\ p[a].approver = attestations[a].approver
                /\ attestations[a].head # "approved_anchor" => p[a].head = attestations[a].head
<1> DEFINE n == Len(attestations)
           x == [attestations[n] EXCEPT !.head = "superseded"]
<1>1. /\ n \in Nat /\ DOMAIN attestations = 1..n /\ attestations \in Seq(Attestation)
      /\ \A a \in 1..n : attestations[a] \in Attestation
  BY Rows DEF TypeOK
<1>2. CASE attestations # <<>> /\ attestations[n].head = "approved_anchor"
  <2>1. n \in 1..n
    BY <1>1, <1>2, EmptySeq
  <2>2. x \in Attestation /\ x.head = "superseded" /\ x.request = attestations[n].request
        /\ x.approver = attestations[n].approver
    BY <1>1, <2>1 DEF Attestation, LifecycleEvent
  <2>3. p = [attestations EXCEPT ![n] = x]
    BY <1>2 DEF SupersedePrior
  <2> HIDE DEF x, n
  <2>4. /\ p \in Seq(Attestation) /\ Len(p) = Len(attestations)
        /\ \A a \in 1..Len(attestations) : p[a] = IF a = n THEN x ELSE attestations[a]
    BY <1>1, <2>1, <2>2, <2>3, ExceptSeq DEF n
  <2>5. \A a \in 1..Len(attestations) : a # n => attestations[a].head # "approved_anchor"
    BY <1>1 DEF NewestStands, n
  <2> QED
    BY <1>2, <2>1, <2>2, <2>4, <2>5
<1>3. CASE ~(attestations # <<>> /\ attestations[n].head = "approved_anchor")
  <2>1. p = attestations
    BY <1>3 DEF SupersedePrior
  <2>2. \A a \in 1..n : attestations[a].head # "approved_anchor"
    BY <1>1, <1>3, EmptySeq DEF NewestStands
  <2> QED
    BY <1>1, <2>1, <2>2
<1> QED
  BY <1>2, <1>3
-----------------------------------------------------------------------------
(* Steps.                                                                  *)

\* What the sessions owe the tables.
SessionsFit ==
    /\ session \in [Sessions -> Jobs]
    /\ \A s \in Sessions : JobFits(session[s])
    /\ ApprovalsLock

\* What the tables owe themselves.
TablesFit ==
    /\ release \in Releases /\ approvers \in ApproverLists /\ eligible \in BOOLEAN
    /\ requests \in Seq(PreapprovalRequest) /\ Len(requests) <= MaxRequests
    /\ attestations \in Seq(Attestation) /\ Len(attestations) <= Len(requests)
    /\ now \in 0..MaxTime
    /\ NewestStands
    /\ \A a \in DOMAIN attestations : Attests(attestations[a])
    /\ AttestedOnce

\* The invariant is what both owe.
LEMMA InvParts == PreapprovalInv <=> TablesFit /\ SessionsFit
BY DEF PreapprovalInv, TablesFit, SessionsFit, TypeOK

\* One session turns to j while rows are only added, and an approval under way
\* still finds its request pending.
LEMMA OneSession ==
    ASSUME SessionsFit, NEW s \in Sessions, NEW j \in Jobs,
           session' = [session EXCEPT ![s] = j],
           DOMAIN requests \subseteq DOMAIN requests',
           DOMAIN attestations \subseteq DOMAIN attestations',
           j.step \in {"deciding", "approving"} => j.request \in DOMAIN requests',
           j.step = "revoking" => j.attestation \in DOMAIN attestations',
           j.step = "approving" => AuditFree /\ requests'[j.request].status = "pending",
           \A o \in Sessions \ {s} : session[o].step = "approving" =>
               requests'[session[o].request].status = "pending"
    PROVE  SessionsFit'
<1>1. session \in [Sessions -> Jobs] /\ \A o \in Sessions : JobFits(session[o])
  BY DEF SessionsFit
<1>2. session' \in [Sessions -> Jobs] /\ session'[s] = j
      /\ \A o \in Sessions \ {s} : session'[o] = session[o]
  BY <1>1
<1>3. ASSUME NEW o \in Sessions PROVE JobFits(session[o])'
  <2>1. CASE o = s
    BY <1>2, <2>1 DEF JobFits
  <2>2. CASE o # s
    <3>1. JobFits(session[o]) /\ session'[o] = session[o]
      BY <1>1, <1>2, <2>2
    <3> QED
      BY <3>1 DEF JobFits
  <2> QED
    BY <2>1, <2>2
<1>4. ApprovalsLock'
  <2> SUFFICES ASSUME NEW o \in Sessions, session'[o].step = "approving"
               PROVE  /\ requests'[session'[o].request].status = "pending"
                      /\ \A x \in Sessions \ {o} : session'[x].step # "approving"
    BY DEF ApprovalsLock
  <2>1. CASE o = s
    BY <1>2, <2>1 DEF AuditFree
  <2>2. CASE o # s
    <3>1. session[o].step = "approving" /\ session'[o] = session[o]
      BY <1>2, <2>2
    <3>2. \A x \in Sessions \ {o} : session[x].step # "approving"
      BY <3>1 DEF SessionsFit, ApprovalsLock
    <3>3. j.step # "approving"
      BY <3>1 DEF AuditFree
    <3> QED
      BY <1>2, <2>2, <3>1, <3>2, <3>3
  <2> QED
    BY <2>1, <2>2
<1> QED
  BY <1>2, <1>3, <1>4 DEF SessionsFit

\* A step of one session that leaves the tables alone.
LEMMA SessionKeeps ==
    ASSUME PreapprovalInv, NEW s \in Sessions, NEW j \in Jobs,
           session' = [session EXCEPT ![s] = j],
           UNCHANGED <<release, approvers, eligible, requests, attestations, now>>,
           j.step \in {"deciding", "approving"} => j.request \in DOMAIN requests,
           j.step = "revoking" => j.attestation \in DOMAIN attestations,
           j.step = "approving" => AuditFree /\ requests[j.request].status = "pending"
    PROVE  PreapprovalInv'
<1>1. TablesFit /\ SessionsFit
  BY InvParts
<1>2. TablesFit'
  BY <1>1 DEF TablesFit, NewestStands, Attests, AttestedOnce
<1>3. \A o \in Sessions \ {s} : session[o].step = "approving" =>
          requests'[session[o].request].status = "pending"
  BY <1>1 DEF SessionsFit, ApprovalsLock
<1>4. SessionsFit'
  BY <1>1, <1>3, OneSession
<1>5. PreapprovalInv' <=> TablesFit' /\ SessionsFit'
  BY InvParts, PTL
<1> QED
  BY <1>2, <1>4, <1>5

\* Sources and time move under the sessions.
LEMMA SourcesKeep ==
    ASSUME Parameters, PreapprovalInv,
           \/ \E r \in Releases : Advance(r)
           \/ \E list \in ApproverLists : RevisePolicy(list)
           \/ Reaudit
           \/ Tick
    PROVE  PreapprovalInv'
<1>1. UNCHANGED <<requests, attestations, session>>
  BY DEF Advance, RevisePolicy, Reaudit, Tick
<1>2. release' \in Releases /\ approvers' \in ApproverLists /\ eligible' \in BOOLEAN
  BY DEF PreapprovalInv, TypeOK, Advance, RevisePolicy, Reaudit, Tick
<1>3. now' \in 0..MaxTime
  BY DEF PreapprovalInv, TypeOK, Parameters, Advance, RevisePolicy, Reaudit, Tick
<1> QED
  BY <1>1, <1>2, <1>3
     DEF PreapprovalInv, TypeOK, NewestStands, Attests, AttestedOnce, JobFits, ApprovalsLock

\* The reads that open a call, the transition that takes the audit lock, and a
\* rollback write no row.
LEMMA ReadsKeep ==
    ASSUME Parameters, PreapprovalInv, NEW s \in Sessions,
           \/ \E key \in Keys, by \in Principals : BeginRequest(s, key, by)
           \/ \E r \in DOMAIN requests, by \in Principals, to \in ApprovalStatus \ {"pending"} :
                  BeginDecision(s, r, to, by)
           \/ Approve(s)
           \/ \E a \in DOMAIN attestations, by \in Humans : BeginRevoke(s, a, by)
           \/ Abort(s)
    PROVE  PreapprovalInv'
<1>1. TypeOK /\ session[s] \in Jobs /\ JobFits(session[s])
  BY DEF PreapprovalInv, TypeOK
<1>2. DOMAIN requests \subseteq 1..MaxRequests /\ DOMAIN attestations \subseteq 1..MaxRequests
  <2>1. /\ Len(requests) \in Nat /\ DOMAIN requests = 1..Len(requests)
        /\ Len(attestations) \in Nat /\ DOMAIN attestations = 1..Len(attestations)
    BY <1>1, Rows
  <2>2. Len(requests) <= MaxRequests /\ Len(attestations) <= Len(requests)
    BY <1>1 DEF TypeOK
  <2> QED
    BY <2>1, <2>2 DEF Parameters
<1>3. ASSUME NEW key \in Keys, NEW by \in Principals, BeginRequest(s, key, by)
      PROVE  PreapprovalInv'
  <2> DEFINE j == [step |-> "requesting", key |-> key, by |-> by, binding |-> CurrentBinding]
  <2>1. CurrentBinding \in Binding
    BY <1>1, <1>3 DEF BeginRequest, SourcesComplete, PolicyParses, CurrentBinding, Binding, TypeOK
  <2>2. j \in Jobs /\ j.step = "requesting"
    BY <2>1 DEF Jobs
  <2>3. session' = [session EXCEPT ![s] = j]
        /\ UNCHANGED <<release, approvers, eligible, requests, attestations, now>>
    BY <1>3 DEF BeginRequest
  <2> HIDE DEF j
  <2> QED
    BY <2>2, <2>3, SessionKeeps
<1>4. ASSUME NEW r \in DOMAIN requests, NEW by \in Principals,
             NEW to \in ApprovalStatus \ {"pending"}, BeginDecision(s, r, to, by)
      PROVE  PreapprovalInv'
  <2> DEFINE j == [step |-> "deciding", request |-> r, by |-> by, to |-> to]
  <2>1. j \in Jobs /\ j.step = "deciding" /\ j.request = r
    BY <1>2 DEF Jobs
  <2>2. session' = [session EXCEPT ![s] = j]
        /\ UNCHANGED <<release, approvers, eligible, requests, attestations, now>>
    BY <1>4 DEF BeginDecision
  <2> HIDE DEF j
  <2> QED
    BY <2>1, <2>2, SessionKeeps
<1>5. CASE Approve(s)
  <2> DEFINE j == [step |-> "approving", request |-> session[s].request, by |-> session[s].by]
  <2>1. session[s].step = "deciding" /\ AuditFree
        /\ requests[session[s].request].status = "pending"
    BY <1>5 DEF Approve
  <2>2. session[s].request \in DOMAIN requests /\ session[s].by \in Principals
    BY <1>1, <2>1 DEF JobFits, Jobs, Idle
  <2>3. j \in Jobs /\ j.step = "approving" /\ j.request = session[s].request
    BY <1>2, <2>2 DEF Jobs
  <2>4. session' = [session EXCEPT ![s] = j]
        /\ UNCHANGED <<release, approvers, eligible, requests, attestations, now>>
    BY <1>5 DEF Approve
  <2> HIDE DEF j
  <2> QED
    BY <2>1, <2>2, <2>3, <2>4, SessionKeeps
<1>6. ASSUME NEW a \in DOMAIN attestations, NEW by \in Humans, BeginRevoke(s, a, by)
      PROVE  PreapprovalInv'
  <2> DEFINE j == [step |-> "revoking", attestation |-> a, by |-> by]
  <2>1. j \in Jobs /\ j.step = "revoking" /\ j.attestation = a
    BY <1>2 DEF Jobs, Principals
  <2>2. session' = [session EXCEPT ![s] = j]
        /\ UNCHANGED <<release, approvers, eligible, requests, attestations, now>>
    BY <1>6 DEF BeginRevoke
  <2> HIDE DEF j
  <2> QED
    BY <2>1, <2>2, SessionKeeps
<1>7. CASE Abort(s)
  <2>1. Idle \in Jobs /\ Idle.step = "idle"
    BY DEF Jobs, Idle
  <2>2. session' = [session EXCEPT ![s] = Idle]
        /\ UNCHANGED <<release, approvers, eligible, requests, attestations, now>>
    BY <1>7 DEF Abort
  <2> QED
    BY <2>1, <2>2, SessionKeeps
<1> QED
  BY <1>3, <1>4, <1>5, <1>6, <1>7

\* Attestations stay about their requests when no approved request changes.
LEMMA RequestsKeepAttested ==
    ASSUME TablesFit, attestations' = attestations,
           DOMAIN requests \subseteq DOMAIN requests',
           \A r \in DOMAIN requests : requests[r].status = "approved" => requests'[r] = requests[r]
    PROVE  /\ \A a \in DOMAIN attestations' : Attests(attestations[a])'
           /\ NewestStands' /\ AttestedOnce'
BY DEF TablesFit, Attests, NewestStands, AttestedOnce

\* A request is committed pending, after every other.
LEMMA CommitRequestKeeps ==
    ASSUME Parameters, PreapprovalInv, NEW s \in Sessions, CommitRequest(s)
    PROVE  PreapprovalInv'
<1> DEFINE j == session[s]
           row == [key |-> j.key, requester |-> j.by, binding |-> j.binding, status |-> "pending"]
<1>1. TablesFit /\ SessionsFit /\ TypeOK /\ requests \in Seq(PreapprovalRequest)
      /\ Len(requests) \in Nat /\ DOMAIN requests = 1..Len(requests)
  BY InvParts, Rows DEF PreapprovalInv, TypeOK
<1>2. j \in [step : {"requesting"}, key : Keys, by : Principals, binding : Binding]
  BY <1>1 DEF CommitRequest, TypeOK, Jobs, Idle
<1>3. row \in PreapprovalRequest
  BY <1>2 DEF PreapprovalRequest, ApprovalStatus
<1>4. requests' = Append(requests, row) /\ session' = [session EXCEPT ![s] = Idle]
      /\ UNCHANGED <<release, approvers, eligible, attestations, now>>
      /\ Len(requests) < MaxRequests /\ AuditFree
  BY DEF CommitRequest
<1> HIDE DEF row
<1>5. /\ requests' \in Seq(PreapprovalRequest) /\ Len(requests') = Len(requests) + 1
      /\ \A r \in 1..Len(requests) : requests'[r] = requests[r]
  BY <1>1, <1>3, <1>4
<1>6. DOMAIN requests \subseteq DOMAIN requests'
  BY <1>1, <1>5, LenProperties
<1>7. TablesFit'
  <2>1. /\ \A a \in DOMAIN attestations' : Attests(attestations[a])'
        /\ NewestStands' /\ AttestedOnce'
    BY <1>1, <1>4, <1>5, <1>6, RequestsKeepAttested
  <2>2. Len(attestations') <= Len(requests') /\ Len(requests') <= MaxRequests
    BY <1>1, <1>4, <1>5, LenProperties DEF TypeOK, Parameters
  <2> QED
    BY <1>1, <1>4, <1>5, <2>1, <2>2 DEF TablesFit
<1>8. Idle \in Jobs /\ Idle.step = "idle"
  BY DEF Jobs, Idle
<1>9. SessionsFit'
  BY <1>1, <1>4, <1>6, <1>8, OneSession DEF AuditFree
<1>10. PreapprovalInv' <=> TablesFit' /\ SessionsFit'
  BY InvParts, PTL
<1> QED
  BY <1>7, <1>9, <1>10

\* The status of one request moves.
LEMMA StatusMoves ==
    ASSUME TypeOK, NEW r \in DOMAIN requests, NEW to \in ApprovalStatus,
           requests' = [requests EXCEPT ![r].status = to]
    PROVE  /\ requests' \in Seq(PreapprovalRequest) /\ Len(requests') = Len(requests)
           /\ DOMAIN requests' = DOMAIN requests
           /\ \A q \in DOMAIN requests : q # r => requests'[q] = requests[q]
           /\ requests'[r].status = to /\ requests'[r].requester = requests[r].requester
           /\ requests'[r].binding = requests[r].binding
<1> DEFINE x == [requests[r] EXCEPT !.status = to]
<1>1. requests \in Seq(PreapprovalRequest) /\ DOMAIN requests = 1..Len(requests)
      /\ requests[r] \in PreapprovalRequest
  BY Rows DEF TypeOK
<1>2. x \in PreapprovalRequest /\ x.status = to /\ x.requester = requests[r].requester
      /\ x.binding = requests[r].binding
  BY <1>1 DEF PreapprovalRequest
<1>3. requests' = [requests EXCEPT ![r] = x]
  OBVIOUS
<1> HIDE DEF x
<1>4. /\ requests' \in Seq(PreapprovalRequest) /\ Len(requests') = Len(requests)
      /\ \A q \in 1..Len(requests) : requests'[q] = IF q = r THEN x ELSE requests[q]
  BY <1>1, <1>2, <1>3, ExceptSeq
<1>5. DOMAIN requests' = 1..Len(requests')
  BY <1>4, LenProperties
<1> QED
  BY <1>1, <1>2, <1>4, <1>5

\* A rejection or a cancellation moves a pending request, while no approval is
\* under way.
LEMMA CommitDecisionKeeps ==
    ASSUME PreapprovalInv, NEW s \in Sessions, CommitDecision(s)
    PROVE  PreapprovalInv'
<1> DEFINE r == session[s].request
           to == session[s].to
<1>1. TablesFit /\ SessionsFit /\ TypeOK /\ JobFits(session[s]) /\ session[s] \in Jobs
  BY InvParts DEF PreapprovalInv, TypeOK
<1>2. session[s].step = "deciding" /\ to \in {"rejected", "cancelled"} /\ AuditFree
      /\ requests[r].status = "pending"
      /\ requests' = [requests EXCEPT ![r].status = to]
      /\ session' = [session EXCEPT ![s] = Idle]
      /\ UNCHANGED <<release, approvers, eligible, attestations, now>>
  BY DEF CommitDecision
<1>3. r \in DOMAIN requests /\ to \in ApprovalStatus
  BY <1>1, <1>2 DEF JobFits, ApprovalStatus
<1> HIDE DEF r, to
<1>4. /\ requests' \in Seq(PreapprovalRequest) /\ Len(requests') = Len(requests)
      /\ DOMAIN requests' = DOMAIN requests
      /\ \A q \in DOMAIN requests : q # r => requests'[q] = requests[q]
  BY <1>1, <1>2, <1>3, StatusMoves
<1>5. \A q \in DOMAIN requests : requests[q].status = "approved" => requests'[q] = requests[q]
  BY <1>2, <1>4
<1>6. TablesFit'
  <2>1. /\ \A a \in DOMAIN attestations' : Attests(attestations[a])'
        /\ NewestStands' /\ AttestedOnce'
    BY <1>1, <1>2, <1>4, <1>5, RequestsKeepAttested
  <2> QED
    BY <1>1, <1>2, <1>4, <2>1 DEF TablesFit
<1>7. Idle \in Jobs /\ Idle.step = "idle"
  BY DEF Jobs, Idle
<1>8. SessionsFit'
  BY <1>1, <1>2, <1>4, <1>7, OneSession DEF AuditFree
<1>9. PreapprovalInv' <=> TablesFit' /\ SessionsFit'
  BY InvParts, PTL
<1> QED
  BY <1>6, <1>8, <1>9

\* A revocation takes the head off one attestation.
LEMMA CommitRevokeKeeps ==
    ASSUME PreapprovalInv, NEW s \in Sessions, CommitRevoke(s)
    PROVE  PreapprovalInv'
<1> DEFINE a == session[s].attestation
           x == [attestations[a] EXCEPT !.head = "revoked"]
<1>1. TablesFit /\ SessionsFit /\ TypeOK /\ JobFits(session[s])
      /\ attestations \in Seq(Attestation) /\ DOMAIN attestations = 1..Len(attestations)
  BY InvParts, Rows DEF PreapprovalInv, TypeOK
<1>2. session[s].step = "revoking" /\ attestations' = [attestations EXCEPT ![a] = x]
      /\ session' = [session EXCEPT ![s] = Idle]
      /\ UNCHANGED <<release, approvers, eligible, requests, now>>
  BY DEF CommitRevoke
<1>3. a \in DOMAIN attestations
  BY <1>1, <1>2 DEF JobFits
<1>4. x \in Attestation /\ x.head = "revoked" /\ x.request = attestations[a].request
      /\ x.approver = attestations[a].approver
  <2>1. attestations[a] \in Attestation
    BY <1>1, <1>3, Rows
  <2> QED
    BY <2>1 DEF Attestation, LifecycleEvent
<1> HIDE DEF a, x
<1>5. /\ attestations' \in Seq(Attestation) /\ Len(attestations') = Len(attestations)
      /\ \A b \in 1..Len(attestations) : attestations'[b] = IF b = a THEN x ELSE attestations[b]
  BY <1>1, <1>2, <1>3, <1>4, ExceptSeq
<1>6. DOMAIN attestations' = DOMAIN attestations
  BY <1>1, <1>5, LenProperties
<1>7. \A b \in DOMAIN attestations :
          /\ attestations'[b].request = attestations[b].request
          /\ attestations'[b].approver = attestations[b].approver
          /\ attestations'[b].head = "approved_anchor" => attestations[b].head = "approved_anchor"
  BY <1>1, <1>4, <1>5
<1>8. TablesFit'
  <2>1. NewestStands'
    BY <1>1, <1>5, <1>6, <1>7 DEF TablesFit, NewestStands
  <2>2. AttestedOnce'
    BY <1>1, <1>6, <1>7 DEF TablesFit, AttestedOnce
  <2>3. \A b \in DOMAIN attestations' : Attests(attestations[b])'
    BY <1>1, <1>2, <1>6, <1>7 DEF TablesFit, Attests
  <2> QED
    BY <1>1, <1>2, <1>5, <2>1, <2>2, <2>3 DEF TablesFit
<1>9. Idle \in Jobs /\ Idle.step = "idle"
  BY DEF Jobs, Idle
<1>10. SessionsFit'
  <2>1. \A o \in Sessions \ {s} : session[o].step = "approving" =>
            requests'[session[o].request].status = "pending"
    BY <1>1, <1>2 DEF SessionsFit, ApprovalsLock
  <2> QED
    BY <1>1, <1>2, <1>6, <1>9, <2>1, OneSession
<1>11. PreapprovalInv' <=> TablesFit' /\ SessionsFit'
  BY InvParts, PTL
<1> QED
  BY <1>8, <1>10, <1>11

\* An approval supersedes what stood, and its attestation alone stands.
LEMMA CommitApprovalKeeps ==
    ASSUME PreapprovalInv, NEW s \in Sessions, CommitApproval(s)
    PROVE  PreapprovalInv'
<1> DEFINE r == session[s].request
           by == session[s].by
           n == Len(attestations)
           p == SupersedePrior(attestations)
           x == [request |-> r, approver |-> by, approved_at |-> now, head |-> "approved_anchor"]
           as == Append(p, x)
           rs == [requests EXCEPT ![r].status = "approved"]
<1>1. /\ TablesFit /\ SessionsFit /\ TypeOK /\ NewestStands /\ JobFits(session[s])
      /\ session[s] \in Jobs /\ now \in 0..MaxTime
      /\ n \in Nat /\ DOMAIN attestations = 1..n
      /\ DOMAIN requests = 1..Len(requests) /\ Len(requests) \in Nat
      /\ \A a \in DOMAIN attestations : attestations[a] \in Attestation
  BY InvParts, Rows DEF PreapprovalInv, TypeOK
<1>2. /\ session[s].step = "approving"
      /\ AttestationAdmitted(r, by) /\ RequestGraphHolds(r, rs, as)
      /\ requests' = rs /\ attestations' = as
      /\ session' = [session EXCEPT ![s] = Idle]
      /\ UNCHANGED <<release, approvers, eligible, now>>
  BY DEF CommitApproval
<1>3. /\ session[s] \in [step : {"approving"}, request : 1..MaxRequests, by : Principals]
      /\ r \in DOMAIN requests /\ requests[r].status = "pending"
      /\ \A o \in Sessions \ {s} : session[o].step # "approving"
  BY <1>1, <1>2 DEF Jobs, Idle, JobFits, SessionsFit, ApprovalsLock
<1>4. /\ rs \in Seq(PreapprovalRequest) /\ Len(rs) = Len(requests)
      /\ DOMAIN rs = DOMAIN requests
      /\ \A q \in DOMAIN requests : q # r => rs[q] = requests[q]
      /\ rs[r].status = "approved" /\ rs[r].requester = requests[r].requester
      /\ rs[r].binding = requests[r].binding
  <2>1. "approved" \in ApprovalStatus
    BY DEF ApprovalStatus
  <2> QED
    BY <1>1, <1>2, <1>3, <2>1, StatusMoves
<1>5. x \in Attestation /\ x.request = r /\ x.approver = by /\ x.head = "approved_anchor"
  BY <1>1, <1>3 DEF Attestation, LifecycleEvent
<1>6. /\ p \in Seq(Attestation) /\ Len(p) = n
      /\ \A a \in 1..n :
           /\ p[a].head # "approved_anchor"
           /\ p[a].request = attestations[a].request
           /\ p[a].approver = attestations[a].approver
  BY <1>1, Superseded
<1> HIDE DEF p, x, rs
<1>7. /\ as \in Seq(Attestation) /\ Len(as) = n + 1 /\ as[n + 1] = x
      /\ \A a \in 1..n : as[a] = p[a]
  BY <1>1, <1>5, <1>6
<1> HIDE DEF as
<1>8. DOMAIN as = 1..(n + 1)
  BY <1>7, LenProperties
<1> HIDE DEF n
<1>9. 1..(n + 1) = (1..n) \cup {n + 1} /\ n + 1 \notin 1..n
  BY <1>1
<1>10. by \in (Humans \cap rs[r].binding.approvers) \ {rs[r].requester}
  <2>1. by \in Humans \ {requests[r].requester}
    BY <1>2 DEF AttestationAdmitted
  <2>2. n + 1 \in {a \in DOMAIN as : as[a].request = r} /\ as[n + 1].approver = by
    BY <1>5, <1>7, <1>8, <1>9
  <2>3. by \in rs[r].binding.approvers
    BY <1>2, <2>2 DEF RequestGraphHolds
  <2> QED
    BY <1>4, <2>1, <2>3
<1>11. \A a \in 1..n : attestations[a].request # r
  BY <1>1, <1>2 DEF AttestationAdmitted, AttestationsOf
<1>12. NewestStands'
  BY <1>2, <1>6, <1>7, <1>8, <1>9 DEF NewestStands
<1>13. AttestedOnce'
  <2>1. \A a \in 1..n : as[a].request = attestations[a].request
    BY <1>6, <1>7
  <2>2. ASSUME NEW a \in 1..n, NEW b \in 1..n, as[a].request = as[b].request PROVE a = b
    BY <1>1, <2>1, <2>2 DEF TablesFit, AttestedOnce
  <2>3. \A a \in 1..n : as[a].request # as[n + 1].request
    BY <1>5, <1>7, <1>11, <2>1
  <2>4. ASSUME NEW a \in DOMAIN as, NEW b \in DOMAIN as, as[a].request = as[b].request
        PROVE  a = b
    <3>1. (a \in 1..n \/ a = n + 1) /\ (b \in 1..n \/ b = n + 1)
      BY <1>8, <1>9
    <3> QED
      BY <2>2, <2>3, <2>4, <3>1
  <2> QED
    BY <1>2, <2>4 DEF AttestedOnce
<1>14. \A a \in DOMAIN attestations' : Attests(attestations[a])'
  <2>1. ASSUME NEW a \in 1..n
        PROVE  Attests(attestations[a])'
    <3>1. Attests(attestations[a])
      BY <1>1 DEF TablesFit
    <3>2. attestations'[a].request = attestations[a].request
          /\ attestations'[a].approver = attestations[a].approver
      BY <1>2, <1>6, <1>7
    <3>3. attestations[a].request # r
      BY <1>11
    <3>4. requests'[attestations[a].request] = requests[attestations[a].request]
          /\ DOMAIN requests' = DOMAIN requests
      BY <1>2, <1>4, <3>1, <3>3 DEF Attests
    <3> QED
      BY <3>1, <3>2, <3>4 DEF Attests
  <2>2. ASSUME NEW a, a = n + 1
        PROVE  Attests(attestations[a])'
    <3>1. attestations'[a].request = r /\ attestations'[a].approver = by
      BY <1>2, <1>5, <1>7, <2>2
    <3>2. r \in DOMAIN requests' /\ requests'[r].status = "approved"
          /\ by \in (Humans \cap requests'[r].binding.approvers) \ {requests'[r].requester}
      BY <1>2, <1>3, <1>4, <1>10
    <3> HIDE DEF r, by
    <3> QED
      BY <3>1, <3>2 DEF Attests
  <2> QED
    BY <1>2, <1>8, <1>9, <2>1, <2>2
<1>15. Len(as) <= Len(rs)
  <2> DEFINE f == [a \in 1..(n + 1) |-> as[a].request]
  <2>1. \A a \in 1..(n + 1) : as[a].request \in 1..Len(requests)
    <3>1. \A a \in 1..n : as[a].request \in DOMAIN requests
      BY <1>1, <1>6, <1>7 DEF TablesFit, Attests
    <3> QED
      BY <1>1, <1>3, <1>5, <1>7, <1>9, <3>1
  <2>2. f \in [1..(n + 1) -> 1..Len(requests)]
    BY <2>1
  <2>3. \A a, b \in 1..(n + 1) : f[a] = f[b] => a = b
    BY <1>2, <1>8, <1>13 DEF AttestedOnce
  <2>4. n + 1 \in Nat /\ Len(requests) \in Nat
    BY <1>1
  <2> HIDE DEF f
  <2>5. n + 1 <= Len(requests)
    BY <2>2, <2>3, <2>4, AttestationsFit
  <2> QED
    BY <1>4, <1>7, <2>5
<1>16. TablesFit'
  BY <1>1, <1>2, <1>4, <1>7, <1>12, <1>13, <1>14, <1>15 DEF TablesFit
<1>17. SessionsFit'
  <2>1. Idle \in Jobs /\ Idle.step = "idle"
    BY DEF Jobs, Idle
  <2>2. DOMAIN requests \subseteq DOMAIN requests' /\ DOMAIN attestations \subseteq DOMAIN attestations'
    BY <1>1, <1>2, <1>4, <1>8, <1>9
  <2> QED
    BY <1>1, <1>2, <1>3, <2>1, <2>2, OneSession
<1>18. PreapprovalInv' <=> TablesFit' /\ SessionsFit'
  BY InvParts, PTL
<1> QED
  BY <1>16, <1>17, <1>18

-----------------------------------------------------------------------------
(* The theorems.                                                           *)

\* The rows of pre-approvals have their types and bounds, only the newest
\* attestation may stand, every attestation is about an approved request and by
\* a listed human other than its requester, a request is attested once, and the
\* approval that holds the audit lock still finds its request pending.
THEOREM PreapprovalInvariant ==
    ASSUME Parameters
    PROVE  Spec => []PreapprovalInv
<1>1. Init => PreapprovalInv
  <2> SUFFICES ASSUME Init PROVE PreapprovalInv
    OBVIOUS
  <2>1. /\ requests = <<>> /\ attestations = <<>> /\ Len(requests) = 0 /\ Len(attestations) = 0
        /\ requests \in Seq(PreapprovalRequest) /\ attestations \in Seq(Attestation)
        /\ DOMAIN attestations = {}
    BY DEF Init
  <2>2. session \in [Sessions -> Jobs] /\ \A s \in Sessions : session[s].step = "idle"
    BY DEF Init, Jobs, Idle
  <2>3. TypeOK
    BY <2>1, <2>2 DEF Init, TypeOK, Parameters
  <2> QED
    BY <2>1, <2>2, <2>3 DEF PreapprovalInv, NewestStands, AttestedOnce, JobFits, ApprovalsLock
<1>2. PreapprovalInv /\ [Next]_vars => PreapprovalInv'
  <2> SUFFICES ASSUME PreapprovalInv, [Next]_vars PROVE PreapprovalInv'
    OBVIOUS
  <2>1. CASE UNCHANGED vars
    BY <2>1 DEF PreapprovalInv, TypeOK, NewestStands, Attests, AttestedOnce, JobFits,
                ApprovalsLock, vars
  <2>2. CASE Next
    <3>1. CASE \E s \in Sessions : CommitRequest(s)
      BY <3>1, CommitRequestKeeps
    <3>2. CASE \E s \in Sessions : CommitDecision(s)
      BY <3>2, CommitDecisionKeeps
    <3>3. CASE \E s \in Sessions : CommitApproval(s)
      BY <3>3, CommitApprovalKeeps
    <3>4. CASE \E s \in Sessions : CommitRevoke(s)
      BY <3>4, CommitRevokeKeeps
    <3> QED
      BY <2>2, <3>1, <3>2, <3>3, <3>4, ReadsKeep, SourcesKeep, Zenon DEF Next
  <2> QED
    BY <2>1, <2>2
<1> QED
  BY <1>1, <1>2, PTL DEF Spec

\* However approvals of older and newer requests and revocations interleave, at
\* most one attestation stands, and gate 12 is open only on the newest request,
\* approved for the current binding by a declared approver other than its
\* requester, within the validity.
THEOREM GateTwelveIsSound ==
    ASSUME Parameters
    PROVE  Spec => []PreapprovalStands
<1>1. PreapprovalInv => PreapprovalStands
  <2> SUFFICES ASSUME PreapprovalInv PROVE PreapprovalStands
    OBVIOUS
  <2> DEFINE n == Len(attestations)
  <2>1. /\ TypeOK /\ n \in Nat /\ DOMAIN attestations = 1..n
        /\ \A a \in DOMAIN attestations : attestations[a] \in Attestation
        /\ now \in Nat /\ Validity \in Nat
    BY Rows DEF PreapprovalInv, TypeOK, Parameters
  <2>2. Live \subseteq {n}
    BY DEF PreapprovalInv, NewestStands, Live
  <2>3. OneLiveAttestation
    <3>1. IsFiniteSet({n}) /\ Cardinality({n}) = 1
      BY FS_Singleton
    <3> HIDE DEF n
    <3>2. Cardinality(Live) <= Cardinality({n})
      BY <2>2, <3>1, FS_Subset
    <3> QED
      BY <3>1, <3>2 DEF OneLiveAttestation
  <2>4. ASSUME Gate12
        PROVE  LET r == requests[Len(requests)] IN
                 /\ r.status = "approved" /\ r.binding = CurrentBinding
                 /\ \E a \in Live :
                      /\ Live = {a} /\ attestations[a].request = Len(requests)
                      /\ attestations[a].approver \in (Humans \cap approvers) \ {r.requester}
                      /\ now < attestations[a].approved_at + Validity
    <3> DEFINE q == Len(requests)
               a == AttestationOf(q)
    <3>1. /\ requests[q].status = "approved" /\ requests[q].binding = CurrentBinding
          /\ AttestationsOf(q) # {} /\ attestations[a].head = "approved_anchor" /\ ~Expired(a)
      BY <2>4 DEF Gate12, GateEligible, LatestRequest, BindingIsCurrent
    <3>2. a \in AttestationsOf(q)
      BY <3>1 DEF AttestationOf
    <3>3. a \in DOMAIN attestations /\ attestations[a].request = q
      BY <3>2 DEF AttestationsOf
    <3> HIDE DEF a
    <3>4. a \in Live /\ Live = {a}
      BY <2>2, <3>1, <3>3 DEF Live
    <3>5. attestations[a].approver \in (Humans \cap requests[q].binding.approvers)
                                           \ {requests[q].requester}
      BY <3>3 DEF PreapprovalInv, Attests
    <3>6. requests[q].binding.approvers = approvers
      BY <3>1 DEF CurrentBinding
    <3>7. now < attestations[a].approved_at + Validity
      <4>1. attestations[a].approved_at \in Nat
        BY <2>1, <3>3 DEF Attestation, Parameters
      <4> QED
        BY <2>1, <3>1, <4>1 DEF Expired
    <3> QED
      BY <3>1, <3>3, <3>4, <3>5, <3>6, <3>7
  <2>5. GateRestsOnNewest
    BY <2>4 DEF GateRestsOnNewest
  <2> QED
    BY <2>3, <2>5 DEF PreapprovalStands
<1> QED
  BY <1>1, PreapprovalInvariant, PTL

\* A decided request is never decided again and an attestation that fell never
\* stands again, although every call checks what it read before it could lock.
THEOREM DecisionsAreFinal ==
    ASSUME Parameters
    PROVE  Spec => [][DecisionStep]_vars
<1>1. PreapprovalInv /\ [Next]_vars => [DecisionStep]_vars
  <2> SUFFICES ASSUME PreapprovalInv, Next PROVE DecisionStep
    BY DEF vars
  <2>1. TypeOK /\ NewestStands
        /\ DOMAIN requests = 1..Len(requests) /\ DOMAIN attestations = 1..Len(attestations)
        /\ requests \in Seq(PreapprovalRequest) /\ attestations \in Seq(Attestation)
        /\ Len(attestations) \in Nat /\ Len(requests) \in Nat
    BY Rows DEF PreapprovalInv, TypeOK
  <2>2. CASE requests' = requests /\ attestations' = attestations
    BY <2>2 DEF DecisionStep
  <2>3. ASSUME NEW s \in Sessions, CommitRequest(s)
        PROVE  DecisionStep
    <3>1. PICK row : requests' = Append(requests, row)
      BY <2>3 DEF CommitRequest
    <3>2. \A r \in 1..Len(requests) : requests'[r] = requests[r]
      BY <2>1, <3>1
    <3> QED
      BY <2>1, <2>3, <3>2 DEF CommitRequest, DecisionStep
  <2>4. ASSUME NEW s \in Sessions, CommitDecision(s)
        PROVE  DecisionStep
    <3>1. requests[session[s].request].status = "pending" /\ attestations' = attestations
          /\ requests' = [requests EXCEPT ![session[s].request].status = session[s].to]
      BY <2>4 DEF CommitDecision
    <3>2. \A r \in DOMAIN requests : r # session[s].request => requests'[r] = requests[r]
      BY <3>1
    <3> QED
      BY <3>1, <3>2 DEF DecisionStep
  <2>5. ASSUME NEW s \in Sessions, CommitApproval(s)
        PROVE  DecisionStep
    <3> DEFINE p == SupersedePrior(attestations)
    <3>1. session[s].step = "approving"
          /\ requests' = [requests EXCEPT ![session[s].request].status = "approved"]
          /\ \E x : attestations' = Append(p, x)
      BY <2>5 DEF CommitApproval
    <3>2. requests[session[s].request].status = "pending"
      BY <3>1 DEF PreapprovalInv, ApprovalsLock
    <3>3. \A r \in DOMAIN requests : requests[r].status # "pending" => requests'[r] = requests[r]
      BY <3>1, <3>2
    <3>4. /\ p \in Seq(Attestation) /\ Len(p) = Len(attestations)
          /\ \A a \in 1..Len(attestations) :
               attestations[a].head # "approved_anchor" => p[a].head = attestations[a].head
      BY <2>1, Superseded
    <3> HIDE DEF p
    <3>5. \A a \in 1..Len(attestations) : attestations'[a] = p[a]
      BY <2>1, <3>1, <3>4
    <3> QED
      BY <2>1, <3>3, <3>4, <3>5 DEF DecisionStep
  <2>6. ASSUME NEW s \in Sessions, CommitRevoke(s)
        PROVE  DecisionStep
    <3>1. attestations[session[s].attestation].head = "approved_anchor" /\ requests' = requests
          /\ attestations' = [attestations EXCEPT ![session[s].attestation].head = "revoked"]
      BY <2>6 DEF CommitRevoke, EventAdmitted
    <3>2. \A a \in DOMAIN attestations :
              a # session[s].attestation => attestations'[a] = attestations[a]
      BY <3>1
    <3> QED
      BY <3>1, <3>2 DEF DecisionStep
  <2>7. \/ \E s \in Sessions : \/ CommitRequest(s) \/ CommitDecision(s)
                               \/ CommitApproval(s) \/ CommitRevoke(s)
        \/ requests' = requests /\ attestations' = attestations
    BY DEF Next, Advance, RevisePolicy, Reaudit, Tick, BeginRequest, BeginDecision, Approve,
           BeginRevoke, Abort
  <2> QED
    BY <2>2, <2>3, <2>4, <2>5, <2>6, <2>7
<1> QED
  BY <1>1, PreapprovalInvariant, PTL DEF Spec

============================================================================
