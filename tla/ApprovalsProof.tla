--------------------------- MODULE ApprovalsProof ---------------------------
(***************************************************************************)
(* Proofs about Approvals, for any subjects, people, tiers, sessions,      *)
(* window and bounds: a request is decided once, and people decide it.     *)
(***************************************************************************)
EXTENDS Approvals, FiniteSetTheorems, SequenceTheorems, TLAPS

\* Rows asked for fit the bound once they are committed.
Capacity == Len(approvals) + Cardinality(Requesting) <= MaxRows

\* A row that silence or somebody may still open: a mandatory action is
\* explicit, and only pending rows have not been decided.
RowSound(a) ==
    /\ a.subject \in Mandatory => a.explicit
    /\ a.status = "proceeded_by_policy" => ~a.explicit
    /\ a.status = "approved" =>
         /\ a.resolver # NoOne
         /\ ~(a.resolver.authenticated /\ a.requester = a.resolver)

\* A decision somebody has checked but not committed: the lapse decides for
\* nobody and never opens an explicit request, a person never its own.
JobSound(j) ==
    /\ j.op = "request" => j.row.status = "pending" /\ RowSound(j.row)
    /\ j.op \in {"decide", "decided"} =>
         /\ j.approval \in DOMAIN approvals
         /\ j.target # "pending"
         /\ j.target = "proceeded_by_policy" => ~approvals[j.approval].explicit
         /\ j.target = "approved" =>
              /\ j.by # NoOne
              /\ ~(j.by.authenticated /\ approvals[j.approval].requester = j.by)

\* A session that has updated a row holds its lock, and finds it pending.
LocksHold ==
    \A s \in Sessions : session[s].op = "decided" =>
        /\ approvals[session[s].approval].status = "pending"
        /\ \A o \in Sessions \ {s} :
             session[o].op = "decided" => session[o].approval # session[s].approval

ApprovalInv ==
    /\ TypeOK
    /\ Capacity
    /\ \A i \in DOMAIN approvals : RowSound(approvals[i])
    /\ \A s \in Sessions : JobSound(session[s])
    /\ LocksHold
    /\ DecidedOnce
-----------------------------------------------------------------------------
(* Steps.                                                                  *)

\* Committed rows are numbered within the bound.
LEMMA RowNumbers ==
    ASSUME Parameters, TypeOK
    PROVE  /\ Len(approvals) \in Nat /\ DOMAIN approvals = 1..Len(approvals)
           /\ Len(events) = Len(approvals) /\ DOMAIN events = 1..Len(approvals)
           /\ DOMAIN approvals \subseteq 1..MaxRows
           /\ \A i \in DOMAIN approvals : approvals[i] \in Approval /\ events[i] \in Seq(ApprovalEvent)
<1>1. approvals \in Seq(Approval) /\ events \in Seq(Seq(ApprovalEvent))
      /\ Len(approvals) <= MaxRows /\ MaxRows \in Nat /\ Len(events) = Len(approvals)
  BY DEF TypeOK, Parameters
<1>2. Len(approvals) \in Nat /\ DOMAIN approvals = 1..Len(approvals) /\ DOMAIN events = 1..Len(events)
  BY <1>1, LenProperties
<1> QED  BY <1>1, <1>2

\* The requests under way are finitely many, and one more or one less after a
\* session began or left one.
LEMMA RequestingCount ==
    ASSUME Parameters, TypeOK, NEW s \in Sessions, NEW j, session' = [session EXCEPT ![s] = j]
    PROVE  /\ Cardinality(Requesting) \in Nat /\ Cardinality(Requesting') \in Nat
           /\ j.op # "request" => Cardinality(Requesting') <= Cardinality(Requesting)
           /\ j.op # "request" /\ session[s].op = "request" =>
                Cardinality(Requesting') = Cardinality(Requesting) - 1
           /\ Cardinality(Requesting') <= Cardinality(Requesting) + 1
<1>1. IsFiniteSet(Sessions) /\ session \in [Sessions -> Jobs]
  BY DEF Parameters, TypeOK
<1>2. IsFiniteSet(Requesting) /\ IsFiniteSet(Requesting')
  <2>1. Requesting \subseteq Sessions /\ Requesting' \subseteq Sessions
    BY DEF Requesting
  <2> QED  BY <1>1, <2>1, FS_Subset
<1>3. Cardinality(Requesting) \in Nat /\ Cardinality(Requesting') \in Nat
  BY <1>2, FS_CardinalityType
<1>4. Requesting' = IF j.op = "request" THEN Requesting \cup {s} ELSE Requesting \ {s}
  BY <1>1 DEF Requesting
<1>5. Cardinality(Requesting \ {s}) = IF s \in Requesting THEN Cardinality(Requesting) - 1
                                      ELSE Cardinality(Requesting)
  BY <1>2, FS_RemoveElement
<1>6. Cardinality(Requesting \cup {s}) = IF s \in Requesting THEN Cardinality(Requesting)
                                         ELSE Cardinality(Requesting) + 1
  BY <1>2, FS_AddElement
<1>7. session[s].op = "request" <=> s \in Requesting
  BY DEF Requesting
<1> DEFINE c == Cardinality(Requesting)
           d == Cardinality(Requesting')
<1>8. j.op # "request" => d = IF s \in Requesting THEN c - 1 ELSE c
  BY <1>4, <1>5
<1>9. j.op = "request" => d = IF s \in Requesting THEN c ELSE c + 1
  BY <1>4, <1>6
<1>10. c \in Nat /\ d \in Nat
  BY <1>3
<1> HIDE DEF c, d
<1>11. /\ j.op # "request" => d <= c
       /\ j.op # "request" /\ s \in Requesting => d = c - 1
       /\ d <= c + 1
  BY <1>8, <1>9, <1>10
<1> QED  BY <1>7, <1>10, <1>11 DEF c, d

\* A session begins, advances or leaves a job and no row changes.
LEMMA SessionStep ==
    ASSUME Parameters, ApprovalInv, NEW s \in Sessions, NEW j \in Jobs,
           session' = [session EXCEPT ![s] = j],
           UNCHANGED <<approvals, events, notifications, clock>>,
           JobSound(j),
           j.op = "request" => Len(approvals) + Cardinality(Requesting) < MaxRows,
           j.op = "decided" =>
             /\ approvals[j.approval].status = "pending"
             /\ \A o \in Sessions \ {s} : session[o].op = "decided" => session[o].approval # j.approval
    PROVE  ApprovalInv'
<1>1. TypeOK /\ session \in [Sessions -> Jobs]
  BY DEF ApprovalInv, TypeOK
<1>2. TypeOK'
  BY <1>1 DEF TypeOK
<1>3. Capacity'
  <2> DEFINE c == Cardinality(Requesting)
             d == Cardinality(Requesting')
             n == Len(approvals)
  <2>1. c \in Nat /\ d \in Nat /\ (j.op # "request" => d <= c) /\ d <= c + 1
    BY <1>1, RequestingCount
  <2>2. n \in Nat /\ MaxRows \in Nat
    BY <1>1, RowNumbers DEF Parameters
  <2>3. n + c <= MaxRows /\ (j.op = "request" => n + c < MaxRows)
    BY DEF ApprovalInv, Capacity
  <2>4. Capacity' <=> n + d <= MaxRows
    BY DEF Capacity
  <2> HIDE DEF c, d, n
  <2>5. n + d <= MaxRows
    BY <2>1, <2>2, <2>3
  <2> QED  BY <2>4, <2>5
<1>4. \A o \in Sessions : session'[o] = IF o = s THEN j ELSE session[o]
  BY <1>1
<1>5. \A o \in Sessions : JobSound(session[o])'
  BY <1>4 DEF ApprovalInv, JobSound
<1>6. LocksHold'
  BY <1>4 DEF ApprovalInv, LocksHold
<1>7. (\A i \in DOMAIN approvals : RowSound(approvals[i]))' /\ DecidedOnce'
  BY DEF ApprovalInv, DecidedOnce
<1> QED  BY <1>2, <1>3, <1>5, <1>6, <1>7 DEF ApprovalInv

\* request: the row to come is pending, and explicit if the action is mandatory.
LEMMA RequestStep ==
    ASSUME Parameters, ApprovalInv, NEW s \in Sessions, NEW subject \in Subjects,
           NEW tier \in Tiers, NEW flag, NEW by \in Requesters, Request(s, subject, tier, flag, by)
    PROVE  ApprovalInv'
<1> DEFINE explicit == subject \in Mandatory \/ flag = "true"
           row == [subject |-> subject, tier |-> tier, explicit |-> explicit,
                   status |-> "pending", requester |-> by, resolver |-> NoOne,
                   requested_at |-> clock]
           j == [op |-> "request", routed |-> Route(tier), row |-> row]
<1>1. /\ session' = [session EXCEPT ![s] = j]
      /\ UNCHANGED <<approvals, events, notifications, clock>>
      /\ Len(approvals) + Cardinality(Requesting) < MaxRows
  BY DEF Request
<1>2. explicit \in BOOLEAN /\ (subject \in Mandatory => explicit)
  OBVIOUS
<1> HIDE DEF explicit
<1>3. row \in Approval
  <2>1. clock \in 0..MaxClock /\ tier \in RiskTier /\ by \in Identity
    BY DEF ApprovalInv, TypeOK, Parameters
  <2> QED  BY <1>2, <2>1 DEF Approval, Status
<1>4. /\ row.status = "pending" /\ row.subject = subject /\ row.explicit = explicit
  OBVIOUS
<1> HIDE DEF row
<1>5. j \in Jobs /\ j.op = "request" /\ j.row = row
  BY <1>3 DEF Jobs, Route
<1> HIDE DEF j
<1>6. JobSound(j)
  BY <1>2, <1>4, <1>5 DEF JobSound, RowSound
<1> QED  BY <1>1, <1>5, <1>6, SessionStep

\* A job that is to decide an approval.
LEMMA DecideJob ==
    ASSUME Parameters, ApprovalInv, NEW s \in Sessions, NEW i \in DOMAIN approvals,
           NEW target \in Status \ {"pending"}, NEW by \in Identity \cup {NoOne},
           target = "proceeded_by_policy" => ~approvals[i].explicit,
           target = "approved" =>
             by # NoOne /\ ~(by.authenticated /\ approvals[i].requester = by),
           session' = [session EXCEPT ![s] =
               [op |-> "decide", approval |-> i, target |-> target, by |-> by]],
           UNCHANGED <<approvals, events, notifications, clock>>
    PROVE  ApprovalInv'
<1> DEFINE j == [op |-> "decide", approval |-> i, target |-> target, by |-> by]
<1>1. i \in 1..MaxRows
  BY RowNumbers DEF ApprovalInv
<1>2. j \in Jobs /\ j.op = "decide" /\ j.approval = i /\ j.target = target /\ j.by = by
  BY <1>1 DEF Jobs
<1>3. session' = [session EXCEPT ![s] = j]
  OBVIOUS
<1> HIDE DEF j
<1>4. JobSound(j)
  BY <1>2 DEF JobSound
<1> QED  BY <1>2, <1>3, <1>4, SessionStep

\* _resolve_by_human checks who decides.
LEMMA BeginDecisionStep ==
    ASSUME Parameters, ApprovalInv, NEW s \in Sessions, NEW i \in DOMAIN approvals,
           NEW target \in HumanDecisions, NEW by \in Deciders, BeginDecision(s, i, target, by)
    PROVE  ApprovalInv'
<1>1. target \in Status \ {"pending"} /\ target # "proceeded_by_policy"
  BY DEF HumanDecisions, Status
<1>2. by \in Identity \cup {NoOne} /\ by # NoOne
  BY DEF Parameters
<1>3. target = "approved" => ~(by.authenticated /\ approvals[i].requester = by)
  BY DEF BeginDecision, SelfApproval
<1>4. /\ session' = [session EXCEPT ![s] =
             [op |-> "decide", approval |-> i, target |-> target, by |-> by]]
      /\ UNCHANGED <<approvals, events, notifications, clock>>
  BY DEF BeginDecision
<1> QED  BY <1>1, <1>2, <1>3, <1>4, DecideJob

\* expire_if_overdue checks what silence makes of the row.
LEMMA BeginLapseStep ==
    ASSUME Parameters, ApprovalInv, NEW s \in Sessions, NEW i \in DOMAIN approvals, BeginLapse(s, i)
    PROVE  ApprovalInv'
<1> DEFINE a == approvals[i]
           target == AutoTransition(a.tier, a.explicit, a.requested_at, clock)
<1>1. target \in {"pending", "proceeded_by_policy", "expired"}
      /\ (target # "pending" => ~a.explicit)
  BY DEF AutoTransition
<1>2. /\ target # "pending"
      /\ session' = [session EXCEPT ![s] =
             [op |-> "decide", approval |-> i, target |-> target, by |-> NoOne]]
      /\ UNCHANGED <<approvals, events, notifications, clock>>
  BY DEF BeginLapse
<1> HIDE DEF target
<1>3. target \in Status \ {"pending"} /\ target # "approved" /\ ~approvals[i].explicit
  BY <1>1, <1>2 DEF Status
<1> QED  BY <1>2, <1>3, DecideJob

\* _transition takes the row's lock while the row is pending.
LEMMA TransitionStep ==
    ASSUME Parameters, ApprovalInv, NEW s \in Sessions, Transition(s)
    PROVE  ApprovalInv'
<1> DEFINE j == [session[s] EXCEPT !.op = "decided"]
<1>1. /\ session[s].op = "decide" /\ ~RowLocked(s, session[s].approval)
      /\ approvals[session[s].approval].status = "pending"
      /\ session' = [session EXCEPT ![s] = j]
      /\ UNCHANGED <<approvals, events, notifications, clock>>
  BY DEF Transition
<1>2. session[s] \in Jobs /\ JobSound(session[s])
  BY DEF ApprovalInv, TypeOK
<1>3. /\ j \in Jobs /\ j.op = "decided" /\ j.approval = session[s].approval
      /\ j.target = session[s].target /\ j.by = session[s].by
  BY <1>1, <1>2 DEF Jobs, Idle
<1> HIDE DEF j
<1>4. JobSound(j)
  BY <1>1, <1>2, <1>3 DEF JobSound
<1>5. \A o \in Sessions \ {s} : session[o].op = "decided" => session[o].approval # j.approval
  BY <1>1, <1>3 DEF RowLocked
<1> QED  BY <1>1, <1>3, <1>4, <1>5, SessionStep

\* A rollback leaves the rows alone.
LEMMA AbortStep ==
    ASSUME Parameters, ApprovalInv, NEW s \in Sessions, Abort(s)
    PROVE  ApprovalInv'
<1>1. Idle \in Jobs /\ Idle.op = "idle" /\ JobSound(Idle)
  BY DEF Jobs, Idle, JobSound
<1>2. session' = [session EXCEPT ![s] = Idle]
      /\ UNCHANGED <<approvals, events, notifications, clock>>
  BY DEF Abort
<1> QED  BY <1>1, <1>2, SessionStep

\* The clock moves.
LEMMA TickStep ==
    ASSUME Parameters, ApprovalInv, Tick
    PROVE  ApprovalInv'
<1>1. TypeOK'
  BY DEF ApprovalInv, TypeOK, Tick, Parameters
<1>2. Requesting' = Requesting
  BY DEF Tick, Requesting
<1>3. Capacity'
  BY <1>2 DEF Tick, ApprovalInv, Capacity
<1> QED  BY <1>1, <1>3 DEF Tick, ApprovalInv, JobSound, LocksHold, DecidedOnce

\* The commit of a request: a pending row with its first event.
LEMMA CommitRequestStep ==
    ASSUME Parameters, ApprovalInv, NEW s \in Sessions, CommitRequest(s)
    PROVE  ApprovalInv'
<1> DEFINE n == Len(approvals)
           row == session[s].row
<1>1. /\ session[s].op = "request" /\ approvals' = Append(approvals, row)
      /\ events' = Append(events, <<"requested">>)
      /\ notifications' = notifications \cup {[approval |-> Len(approvals'), mode |-> session[s].routed]}
      /\ session' = [session EXCEPT ![s] = Idle] /\ clock' = clock
  BY DEF CommitRequest
<1>2. TypeOK /\ session \in [Sessions -> Jobs] /\ session[s] \in Jobs
  BY DEF ApprovalInv, TypeOK
<1>3. row \in Approval /\ session[s].routed \in {"digest", "realtime"}
      /\ row.status = "pending" /\ RowSound(row)
  <2>1. JobSound(session[s])
    BY DEF ApprovalInv
  <2> QED  BY <1>1, <1>2, <2>1 DEF Jobs, Idle, JobSound
<1> HIDE DEF row
<1>4. /\ n \in Nat /\ DOMAIN approvals = 1..n /\ Len(events) = n /\ DOMAIN events = 1..n
      /\ approvals \in Seq(Approval) /\ events \in Seq(Seq(ApprovalEvent))
  BY <1>2, RowNumbers DEF TypeOK
<1>5. /\ approvals' \in Seq(Approval) /\ Len(approvals') = n + 1 /\ DOMAIN approvals' = 1..(n + 1)
      /\ approvals'[n + 1] = row /\ \A i \in 1..n : approvals'[i] = approvals[i]
  BY <1>1, <1>3, <1>4
<1>6. <<"requested">> \in Seq(ApprovalEvent)
  BY DEF ApprovalEvent
<1>7. /\ events' \in Seq(Seq(ApprovalEvent)) /\ Len(events') = n + 1
      /\ events'[n + 1] = <<"requested">> /\ \A i \in 1..n : events'[i] = events[i]
  BY <1>1, <1>4, <1>6
<1>8. n + 1 <= MaxRows /\ Capacity'
  <2> DEFINE c == Cardinality(Requesting)
             d == Cardinality(Requesting')
  <2>1. Idle.op # "request"
    BY DEF Idle
  <2>2. c \in Nat /\ d \in Nat /\ d = c - 1
    BY <1>1, <1>2, <2>1, RequestingCount
  <2>3. n + c <= MaxRows
    BY DEF ApprovalInv, Capacity
  <2>4. Capacity' <=> (n + 1) + d <= MaxRows
    BY <1>5 DEF Capacity
  <2>5. MaxRows \in Nat
    BY DEF Parameters
  <2> HIDE DEF c, d, n
  <2>6. (n + 1) + d <= MaxRows /\ n + 1 <= MaxRows
    BY <1>4, <2>2, <2>3, <2>5
  <2> QED  BY <2>4, <2>6
<1> HIDE DEF n
<1>9. \A o \in Sessions : session'[o] = IF o = s THEN Idle ELSE session[o]
  BY <1>1, <1>2
<1>10. TypeOK'
  <2>1. Len(approvals') \in 1..MaxRows
    BY <1>4, <1>5, <1>8 DEF Parameters
  <2>2. Idle \in Jobs
    BY DEF Jobs
  <2>3. session' \in [Sessions -> Jobs]
    BY <1>1, <1>2, <2>2
  <2>4. notifications' \subseteq [approval : 1..MaxRows, mode : {"digest", "realtime"}]
    BY <1>1, <1>2, <1>3, <2>1 DEF TypeOK
  <2> QED  BY <1>1, <1>2, <1>5, <1>7, <1>8, <2>3, <2>4 DEF TypeOK
<1>11. \A i \in DOMAIN approvals' : RowSound(approvals'[i])
  <2>1. \A i \in 1..n : RowSound(approvals[i])
    BY <1>4 DEF ApprovalInv
  <2>2. \A i \in 1..(n + 1) : i = n + 1 \/ i \in 1..n
    BY <1>4
  <2> QED  BY <1>3, <1>5, <2>1, <2>2
<1>12. ASSUME NEW o \in Sessions, session'[o].op \in {"decide", "decided"}
       PROVE  /\ session'[o] = session[o] /\ session[o].approval \in 1..n
              /\ session[o].approval \in DOMAIN approvals'
              /\ approvals'[session[o].approval] = approvals[session[o].approval]
  <2>1. session'[o] = session[o]
    BY <1>9, <1>12 DEF Idle
  <2>2. session[o].approval \in 1..n
    BY <1>4, <1>12, <2>1 DEF ApprovalInv, JobSound
  <2> QED  BY <1>4, <1>5, <2>1, <2>2
<1>13. \A o \in Sessions : JobSound(session[o])'
  <2> TAKE o \in Sessions
  <2>1. CASE o = s
    BY <1>9, <2>1 DEF Idle, JobSound
  <2>2. CASE o # s
    <3>1. session'[o] = session[o] /\ JobSound(session[o])
      BY <1>9, <2>2 DEF ApprovalInv
    <3> QED  BY <1>12, <3>1 DEF JobSound
  <2> QED  BY <2>1, <2>2
<1>14. LocksHold'
  BY <1>12 DEF ApprovalInv, LocksHold
<1>15. DecidedOnce'
  <2>1. \A i \in 1..(n + 1) : i = n + 1 \/ i \in 1..n
    BY <1>4
  <2> QED  BY <1>3, <1>4, <1>5, <1>7, <2>1 DEF ApprovalInv, DecidedOnce
<1> QED  BY <1>8, <1>10, <1>11, <1>13, <1>14, <1>15 DEF ApprovalInv

\* The second event of an approval.
LEMMA SecondEvent ==
    ASSUME NEW a \in ApprovalEvent, NEW b \in ApprovalEvent
    PROVE  Append(<<a>>, b) = <<a, b>>
<1> DEFINE one == Append(<<a>>, b)
           two == <<a, b>>
<1>1. /\ <<a>> \in Seq(ApprovalEvent) /\ two \in Seq(ApprovalEvent)
      /\ Len(two) = 2 /\ two[1] = a /\ two[2] = b
  OBVIOUS
<1>2. Len(one) = 2 /\ one \in Seq(ApprovalEvent) /\ one[1] = a /\ one[2] = b
  BY <1>1
<1> HIDE DEF one, two
<1>3. \A i \in 1..Len(one) : one[i] = two[i]
  BY <1>1, <1>2
<1>4. one = two
  BY <1>1, <1>2, <1>3, SeqEqual
<1> QED  BY <1>4 DEF one, two

\* The commit of a decision: the row was pending, so this is its second event.
LEMMA CommitDecisionStep ==
    ASSUME Parameters, ApprovalInv, NEW s \in Sessions, CommitDecision(s)
    PROVE  ApprovalInv'
<1> DEFINE n == Len(approvals)
           j == session[s]
           k == j.approval
           row == [approvals[k] EXCEPT !.status = j.target, !.resolver = j.by]
           trail == Append(events[k], j.target)
<1>1. TypeOK /\ session \in [Sessions -> Jobs] /\ j \in Jobs
  BY DEF ApprovalInv, TypeOK
<1>2. /\ n \in Nat /\ DOMAIN approvals = 1..n /\ Len(events) = n /\ DOMAIN events = 1..n
      /\ approvals \in Seq(Approval) /\ events \in Seq(Seq(ApprovalEvent))
      /\ \A i \in 1..n : approvals[i] \in Approval /\ events[i] \in Seq(ApprovalEvent)
  BY <1>1, RowNumbers DEF TypeOK
<1>3. /\ j.op = "decided" /\ JobSound(j) /\ k \in 1..n
      /\ session' = [session EXCEPT ![s] = Idle]
      /\ notifications' = notifications /\ clock' = clock
  BY <1>2 DEF CommitDecision, ApprovalInv, JobSound
<1>4. approvals' = [approvals EXCEPT ![k] = row] /\ events' = [events EXCEPT ![k] = trail]
  <2>1. approvals' = [approvals EXCEPT ![k].status = j.target, ![k].resolver = j.by]
        /\ events' = [events EXCEPT ![k] = Append(@, j.target)]
    BY DEF CommitDecision
  <2>2. [approvals EXCEPT ![k].status = j.target, ![k].resolver = j.by]
          = [approvals EXCEPT ![k] = row]
    BY <1>2, <1>3
  <2> QED  BY <2>1, <2>2
<1>5. j.target \in Status \ {"pending"} /\ j.by \in Identity \cup {NoOne}
  BY <1>1, <1>3 DEF Jobs, Idle, JobSound
<1>6. approvals[k] \in Approval /\ approvals[k].status = "pending" /\ events[k] = <<"requested">>
  BY <1>2, <1>3 DEF ApprovalInv, LocksHold, DecidedOnce
<1>7. /\ row \in Approval /\ row.status = j.target /\ row.resolver = j.by
      /\ row.subject = approvals[k].subject /\ row.explicit = approvals[k].explicit
      /\ row.requester = approvals[k].requester
  BY <1>5, <1>6 DEF Approval
<1>8. trail = <<"requested", j.target>> /\ trail \in Seq(ApprovalEvent)
  <2>1. "requested" \in ApprovalEvent /\ j.target \in ApprovalEvent
    BY <1>5 DEF ApprovalEvent
  <2> HIDE DEF j
  <2>2. Append(<<"requested">>, j.target) = <<"requested", j.target>>
    BY <2>1, SecondEvent
  <2>3. <<"requested", j.target>> \in Seq(ApprovalEvent)
    BY <2>1
  <2> QED  BY <1>6, <2>2, <2>3
<1>9. RowSound(row)
  <2>1. RowSound(approvals[k])
    BY <1>2, <1>3 DEF ApprovalInv
  <2> QED  BY <1>3, <1>7, <2>1 DEF RowSound, JobSound
<1> HIDE DEF row, trail, j
<1>10. /\ approvals' \in Seq(Approval) /\ Len(approvals') = n /\ DOMAIN approvals' = 1..n
       /\ \A i \in 1..n : approvals'[i] = IF i = k THEN row ELSE approvals[i]
  BY <1>2, <1>3, <1>4, <1>7
<1>11. /\ events' \in Seq(Seq(ApprovalEvent)) /\ Len(events') = n
       /\ \A i \in 1..n : events'[i] = IF i = k THEN trail ELSE events[i]
  BY <1>2, <1>3, <1>4, <1>8
<1>12. \A o \in Sessions : session'[o] = IF o = s THEN Idle ELSE session[o]
  BY <1>1, <1>3
<1>13. TypeOK'
  <2>1. session' \in [Sessions -> Jobs]
    BY <1>1, <1>3 DEF Jobs
  <2> QED  BY <1>1, <1>3, <1>10, <1>11, <2>1 DEF TypeOK, n
<1>14. Capacity'
  <2> DEFINE c == Cardinality(Requesting)
             d == Cardinality(Requesting')
  <2>1. Idle.op # "request"
    BY DEF Idle
  <2>2. c \in Nat /\ d \in Nat /\ d <= c
    BY <1>1, <1>3, <2>1, RequestingCount
  <2>3. n + c <= MaxRows /\ MaxRows \in Nat
    BY DEF ApprovalInv, Capacity, Parameters
  <2>4. Capacity' <=> n + d <= MaxRows
    BY <1>10 DEF Capacity
  <2> HIDE DEF c, d, n
  <2> QED  BY <1>2, <2>2, <2>3, <2>4
<1> HIDE DEF n
<1>15. \A i \in DOMAIN approvals' : RowSound(approvals'[i])
  BY <1>2, <1>9, <1>10 DEF ApprovalInv
<1>16. \A i \in 1..n : /\ approvals'[i].explicit = approvals[i].explicit
                       /\ approvals'[i].requester = approvals[i].requester
  BY <1>7, <1>10
<1>17. \A o \in Sessions : JobSound(session[o])'
  <2> TAKE o \in Sessions
  <2>1. CASE o = s
    BY <1>12, <2>1 DEF Idle, JobSound
  <2>2. CASE o # s
    <3>1. session'[o] = session[o] /\ JobSound(session[o])
      BY <1>12, <2>2 DEF ApprovalInv
    <3> QED  BY <1>2, <1>10, <1>16, <3>1 DEF JobSound
  <2> QED  BY <2>1, <2>2
<1>18. LocksHold'
  <2> SUFFICES ASSUME NEW o \in Sessions, session'[o].op = "decided"
               PROVE  /\ approvals'[session'[o].approval].status = "pending"
                      /\ \A q \in Sessions \ {o} : session'[q].op = "decided" =>
                           session'[q].approval # session'[o].approval
    BY DEF LocksHold
  <2>1. o # s /\ session'[o] = session[o]
    BY <1>12 DEF Idle
  <2>2. session[o].approval \in 1..n /\ session[o].approval # k
        /\ approvals[session[o].approval].status = "pending"
    <3>1. session[s].op = "decided" /\ k = session[s].approval
      BY <1>3 DEF j
    <3>2. JobSound(session[o]) /\ session[o].op = "decided"
      BY <2>1 DEF ApprovalInv
    <3> QED  BY <1>2, <2>1, <3>1, <3>2 DEF ApprovalInv, LocksHold, JobSound
  <2>3. \A q \in Sessions \ {o} : session'[q].op = "decided" => session'[q].approval # session[o].approval
    <3>1. \A q \in Sessions : session'[q].op = "decided" => session'[q] = session[q]
      BY <1>12 DEF Idle
    <3> QED  BY <2>1, <3>1 DEF ApprovalInv, LocksHold
  <2> QED  BY <1>10, <2>1, <2>2, <2>3
<1>19. DecidedOnce'
  BY <1>2, <1>5, <1>7, <1>8, <1>10, <1>11 DEF ApprovalInv, DecidedOnce
<1> QED  BY <1>13, <1>14, <1>15, <1>17, <1>18, <1>19 DEF ApprovalInv

-----------------------------------------------------------------------------
(* The theorems.                                                           *)

\* The invariant holds in every reachable state.
THEOREM ApprovalInvariant == ASSUME Parameters PROVE Spec => []ApprovalInv
<1>1. Init => ApprovalInv
  <2> SUFFICES ASSUME Init PROVE ApprovalInv
    OBVIOUS
  <2>1. approvals = <<>> /\ events = <<>> /\ DOMAIN approvals = {} /\ Len(approvals) = 0
    BY DEF Init
  <2>2. \A s \in Sessions : session[s] = Idle
    BY DEF Init
  <2>3. Requesting = {}
    BY <2>2 DEF Requesting, Idle
  <2>4. Capacity
    <3>1. Cardinality(Requesting) = 0
      BY <2>3, FS_EmptySet
    <3> QED  BY <2>1, <3>1 DEF Capacity, Parameters
  <2>5. TypeOK
    BY <2>1 DEF Init, TypeOK, Jobs, Parameters
  <2> QED  BY <2>1, <2>2, <2>4, <2>5 DEF ApprovalInv, JobSound, LocksHold, DecidedOnce, Idle
<1>2. ApprovalInv /\ [Next]_vars => ApprovalInv'
  <2> SUFFICES ASSUME ApprovalInv, [Next]_vars PROVE ApprovalInv'
    OBVIOUS
  <2>1. CASE UNCHANGED vars
    BY <2>1 DEF vars, ApprovalInv, TypeOK, Capacity, Requesting, JobSound, LocksHold, DecidedOnce
  <2>2. CASE Next
    BY <2>2, TickStep, RequestStep, CommitRequestStep, BeginDecisionStep, BeginLapseStep,
       TransitionStep, CommitDecisionStep, AbortStep DEF Next
  <2> QED  BY <2>1, <2>2
<1> QED  BY <1>1, <1>2, PTL DEF Spec

\* Every request is decided at most once, its events tell its status, and the
\* gate of a mandatory action opens only on the approval of somebody other than
\* the verified requester (approvals.py), for any people, sessions and window.
THEOREM PeopleOpenGates == ASSUME Parameters PROVE Spec => []OnlyPeopleOpenGates
<1>1. ApprovalInv => OnlyPeopleOpenGates
  <2> SUFFICES ASSUME ApprovalInv, NEW subject \in Mandatory, NEW i \in OpenedBy(subject)
               PROVE  LET by == approvals[i].resolver
                      IN  by # NoOne /\ ~(by.authenticated /\ approvals[i].requester = by)
    BY DEF OnlyPeopleOpenGates, SilenceNeverOpens, ApprovalInv
  <2>1. i \in DOMAIN approvals /\ approvals[i].subject = subject
        /\ ~StatusBlocks(approvals[i].status, approvals[i].explicit)
    BY DEF OpenedBy, LatestFor
  <2>2. RowSound(approvals[i])
    BY <2>1 DEF ApprovalInv
  <2> QED  BY <2>1, <2>2 DEF RowSound, StatusBlocks
<1> QED  BY <1>1, ApprovalInvariant, PTL

=============================================================================
