-------------------------- MODULE ControlLoopProof --------------------------
(***************************************************************************)
(* Proofs about ControlLoop, for any number of runs, keys, workers and     *)
(* attempts, any changes around the loop, and with failures, collisions    *)
(* and crashes at any point: the decisions are one chain, the current one  *)
(* is sound, and the status of a run tells what its cycles did, in order.  *)
(***************************************************************************)
EXTENDS ControlLoop, FiniteSetTheorems, SequenceTheorems, TLAPS

-----------------------------------------------------------------------------
(* Types.                                                                  *)

\* The events a walk appends are typed, and a walk of incomplete stages is
\* not empty.
LEMMA WalkTyped ==
    ASSUME NEW S, NEW d \in 0..Stages
    PROVE  /\ Walk(S, d) \in Seq(LoopEvent)
           /\ d # Stages => Walk(S, d) # <<>>
<1> USE DEF Stages
<1>1. CASE d = Stages
  BY <1>1 DEF Walk
<1>2. CASE d # Stages /\ (Stopped(S) \/ S.costStop)
  <2>1. d + 1 \in 0..Stages
    BY <1>2
  <2> DEFINE e(o) == [stage |-> d + 1, outcome |-> o]
  <2>2. \A o \in Guards : e(o) \in LoopEvent
    BY <2>1 DEF LoopEvent
  <2>3. Walk(S, d) = <<e("paused_emergency_stop")>> \/ Walk(S, d) = <<e("paused_cost_stop")>>
    BY <1>2 DEF Walk
  <2> HIDE DEF e
  <2>4. PICK x \in LoopEvent : Walk(S, d) = <<x>>
    BY <2>2, <2>3, Zenon DEF Guards
  <2> QED  BY <1>2, <2>4
<1>3. CASE d # Stages /\ ~Stopped(S) /\ ~S.costStop
  <2> DEFINE ev(i) == [stage |-> d + i,
                       outcome |-> IF d + i < Stages THEN "completed"
                                   ELSE IF DecisionEligible(S) THEN "decision_recorded"
                                   ELSE "blocked_evidence_or_authority"]
  <2>1. Walk(S, d) = [i \in 1..(Stages - d) |-> ev(i)]
    BY <1>3 DEF Walk
  <2>2. Stages - d \in Nat /\ Stages - d # 0
    BY <1>3
  <2>3. \A i \in 1..(Stages - d) : ev(i) \in LoopEvent
    BY DEF LoopEvent, Guards, Ends
  <2> HIDE DEF ev
  <2> QED  BY <2>1, <2>2, <2>3
<1> QED  BY <1>1, <1>2, <1>3

\* The cycle a key names is one of the snapshot's, or the next one.
LEMMA CycleForFacts ==
    ASSUME NEW S \in Database, NEW key
    PROVE  /\ CycleFor(S, key) \in 1..(Len(S.cycles) + 1)
           /\ CycleFor(S, key) \in DOMAIN S.cycles => S.cycles[CycleFor(S, key)].key = key
           /\ CycleFor(S, key) \notin DOMAIN S.cycles =>
                \A c \in DOMAIN S.cycles : S.cycles[c].key # key
<1>1. S.cycles \in Seq(Cycle)
  BY DEF Database
<1>2. CASE \E c \in DOMAIN S.cycles : S.cycles[c].key = key
  BY <1>1, <1>2 DEF CycleFor
<1>3. CASE ~ \E c \in DOMAIN S.cycles : S.cycles[c].key = key
  BY <1>1, <1>3 DEF CycleFor
<1> QED  BY <1>2, <1>3

\* The cycle a key names, or a new one, is a typed row.
LEMMA CycleAtTyped ==
    ASSUME NEW S \in Database, NEW c, NEW key \in Key, NEW r \in LoopRuns
    PROVE  CycleAt(S, c, key, r) \in Cycle
<1>1. S.cycles \in Seq(Cycle)
  BY DEF Database
<1>2. CASE c \in DOMAIN S.cycles
  BY <1>1, <1>2 DEF CycleAt
<1>3. CASE c \notin DOMAIN S.cycles
  <2>1. <<>> \in Seq(LoopEvent) /\ 0 \in 0..Stages
    BY DEF Stages
  <2> QED  BY <1>3, <2>1 DEF CycleAt, Cycle
<1> QED  BY <1>2, <1>3

\* What an execution is about to write is typed.
LEMMA ExecutionTyped ==
    ASSUME NEW t \in Call
    PROVE  /\ Target(t) \in Cycle
           /\ DoneBefore(t) \in 0..Stages
           /\ NewEvents(t) \in Seq(LoopEvent)
           /\ TargetCycle(t) \in Nat
<1>1. t.snap \in Database /\ t.key \in Key /\ t.run \in LoopRuns
  BY DEF Call
<1>2. Target(t) \in Cycle
  BY <1>1, CycleAtTyped DEF Target
<1>3. DoneBefore(t) \in 0..Stages
  BY <1>2 DEF DoneBefore, Cycle, Stages
<1>4. NewEvents(t) \in Seq(LoopEvent)
  BY <1>3, WalkTyped DEF NewEvents
<1>5. t.key[1] = "resume" => t.key[2] \in Nat
  BY <1>1 DEF Key
<1>6. CycleFor(t.snap, t.key) \in Nat
  BY <1>1, CycleForFacts DEF Database
<1> QED  BY <1>2, <1>3, <1>4, <1>5, <1>6 DEF TargetCycle

\* A typed row put among the committed cycles leaves them typed.
LEMMA PutCycleTyped ==
    ASSUME db \in Database, NEW t, NEW c, NEW cycle \in Cycle
    PROVE  PutCycle(t, c, cycle) \in Seq(Cycle)
<1>1. db.cycles \in Seq(Cycle)
  BY DEF Database
<1>2. CASE c \in DOMAIN t.snap.cycles
  <2>1. CASE c \in 1..Len(db.cycles)
    BY <1>1, <1>2, <2>1 DEF PutCycle
  <2>2. CASE c \notin 1..Len(db.cycles)
    <3>1. [db.cycles EXCEPT ![c] = cycle] = db.cycles
      BY <1>1, <2>2
    <3> QED  BY <1>1, <1>2, <3>1 DEF PutCycle
  <2> QED  BY <2>1, <2>2
<1>3. CASE c \notin DOMAIN t.snap.cycles
  BY <1>1, <1>3 DEF PutCycle
<1> QED  BY <1>2, <1>3

\* What the commit of a loop transaction writes, field by field.
LEMMA CommitFields ==
    ASSUME db \in Database, NEW w \in Workers, NEW cycles, NEW r \in LoopRuns,
           NEW status, NEW decisions, CommitLoop(w, cycles, r, status, decisions)
    PROVE  /\ db'.cycles = cycles
           /\ db'.runs = [db.runs EXCEPT ![r] = status]
           /\ db'.decisions = decisions
           /\ db'.latch = db.latch /\ db'.costStop = db.costStop /\ db'.gates = db.gates
           /\ db'.policy = db.policy /\ db'.requests = db.requests
           /\ db' = [latch |-> db.latch, costStop |-> db.costStop, gates |-> db.gates,
                     policy |-> db.policy, requests |-> db.requests,
                     runs |-> [db.runs EXCEPT ![r] = status],
                     cycles |-> cycles, decisions |-> decisions]
  BY DEF CommitLoop, Database

\* A commit of typed rows leaves the state typed.
LEMMA CommitTyped ==
    ASSUME TypeOK, NEW w \in Workers, NEW cycles \in Seq(Cycle), NEW r \in LoopRuns,
           NEW status \in LoopStatus, NEW decisions \in Seq(Decision),
           CommitLoop(w, cycles, r, status, decisions)
    PROVE  TypeOK'
<1>1. db \in Database /\ txn \in [Workers -> Call \cup {NoCall}]
  BY DEF TypeOK
<1>2. db' \in Database
  <2>1. [db.runs EXCEPT ![r] = status] \in [LoopRuns -> LoopStatus]
    BY <1>1 DEF Database
  <2>2. /\ db.latch \in Nat /\ db.costStop \in BOOLEAN /\ db.gates \in BOOLEAN
        /\ db.policy \in [stamp : Nat, permits : BOOLEAN] /\ db.requests \in Seq(Preapproval)
    BY <1>1 DEF Database
  <2>3. db' = [latch |-> db.latch, costStop |-> db.costStop, gates |-> db.gates,
               policy |-> db.policy, requests |-> db.requests,
               runs |-> [db.runs EXCEPT ![r] = status],
               cycles |-> cycles, decisions |-> decisions]
    BY <1>1 DEF CommitLoop, Database
  <2> QED  BY <2>1, <2>2, <2>3 DEF Database
<1>3. txn' \in [Workers -> Call \cup {NoCall}]
  <2>1. \A v \in Workers : txn[v].phase \in {"open", "persisting"} =>
          [txn[v] EXCEPT !.stale = @ \cup {"loop"}] \in Call
    BY <1>1 DEF Call, NoCall
  <2> QED  BY <1>1, <2>1 DEF CommitLoop
<1> QED  BY <1>2, <1>3 DEF TypeOK

-----------------------------------------------------------------------------
(* The steps around the loop.                                              *)

\* Requests are only added, and one that was approved never looks undecided or
\* rejected again, whatever became of its attestation.
Decided(request) == request.status \notin {"pending", "rejected"}
RequestsAdvance(old, new) ==
    /\ Len(old) <= Len(new)
    /\ \A i \in DOMAIN old : Decided(old[i]) => Decided(new[i])

\* Only an older request is superseded.
NewestStands(requests) ==
    requests # <<>> => requests[Len(requests)].status # "superseded"

\* A request whose status changes is still a request.
LEMMA StatusChange ==
    ASSUME NEW q \in Preapproval, NEW s \in RequestStatus
    PROVE  [q EXCEPT !.status = s] \in Preapproval /\ [q EXCEPT !.status = s].status = s
  BY DEF Preapproval

\* A step of the environment that changes the requests alone.
LEMMA RequestsStep ==
    ASSUME TypeOK, NEW requests \in Seq(Preapproval),
           db' = [db EXCEPT !.requests = requests], txn' = txn
    PROVE  /\ TypeOK'
           /\ db'.requests = requests /\ db'.policy = db.policy /\ db'.latch = db.latch
           /\ db'.cycles = db.cycles /\ db'.decisions = db.decisions /\ db'.runs = db.runs
  BY DEF TypeOK, Database

\* A new request is pending.
LEMMA RequestStep ==
    ASSUME TypeOK, RequestPreapproval
    PROVE  /\ TypeOK'
           /\ db'.policy = db.policy /\ db'.latch = db.latch
           /\ db'.cycles = db.cycles /\ db'.decisions = db.decisions /\ db'.runs = db.runs
           /\ RequestsAdvance(db.requests, db'.requests)
           /\ NewestStands(db'.requests)
<1> DEFINE q == [status |-> "pending", stamp |-> db.policy.stamp]
           rs == Append(db.requests, q)
<1>1. q \in Preapproval /\ db.requests \in Seq(Preapproval)
  BY DEF TypeOK, Database, Preapproval, RequestStatus
<1>2. q.status = "pending"
  OBVIOUS
<1>3. db' = [db EXCEPT !.requests = rs] /\ txn' = txn
  BY DEF RequestPreapproval
<1> HIDE DEF q
<1>4. /\ rs \in Seq(Preapproval) /\ Len(rs) = Len(db.requests) + 1 /\ Len(db.requests) \in Nat
      /\ rs[Len(rs)] = q /\ DOMAIN db.requests = 1..Len(db.requests)
      /\ \A i \in 1..Len(db.requests) : rs[i] = db.requests[i]
  BY <1>1
<1> HIDE DEF rs
<1>5. RequestsAdvance(db.requests, rs) /\ NewestStands(rs)
  BY <1>2, <1>4 DEF RequestsAdvance, NewestStands
<1> QED  BY <1>3, <1>4, <1>5, RequestsStep

\* A decision changes the newest request, and perhaps supersedes the one
\* before it.
LEMMA ResolveStep ==
    ASSUME TypeOK, NEW s \in {"approved", "rejected"}, ResolvePreapproval(s)
    PROVE  /\ TypeOK'
           /\ db'.policy = db.policy /\ db'.latch = db.latch
           /\ db'.cycles = db.cycles /\ db'.decisions = db.decisions /\ db'.runs = db.runs
           /\ RequestsAdvance(db.requests, db'.requests)
           /\ NewestStands(db'.requests)
<1> DEFINE n == Len(db.requests)
           rs == [i \in 1..n |->
                    IF i = n THEN [db.requests[i] EXCEPT !.status = s]
                    ELSE IF s = "approved" /\ i = n - 1 /\ db.requests[i].status = "approved"
                           THEN [db.requests[i] EXCEPT !.status = "superseded"]
                    ELSE db.requests[i]]
<1>1. /\ db.requests \in Seq(Preapproval) /\ n \in Nat /\ n # 0
      /\ DOMAIN db.requests = 1..n /\ db.requests[n].status = "pending"
  BY DEF TypeOK, Database, ResolvePreapproval, LatestRequest
<1>2. db' = [db EXCEPT !.requests = rs] /\ txn' = txn
  BY <1>1 DEF ResolvePreapproval, TypeOK, Database
<1>3. /\ rs[n].status = s
      /\ \A i \in 1..n : /\ rs[i] \in Preapproval
                         /\ Decided(db.requests[i]) => Decided(rs[i])
  <2>1. \A i \in 1..n : db.requests[i] \in Preapproval
    BY <1>1
  <2>2. s \in RequestStatus /\ "superseded" \in RequestStatus
    BY DEF RequestStatus
  <2>3. rs[n] = [db.requests[n] EXCEPT !.status = s]
    BY <1>1
  <2>4. rs[n] \in Preapproval /\ rs[n].status = s /\ n \in 1..n
    BY <1>1, <2>1, <2>2, <2>3, StatusChange
  <2>5. ASSUME NEW i \in 1..n, i # n
        PROVE  rs[i] \in Preapproval /\ (Decided(db.requests[i]) => Decided(rs[i]))
    <3>1. \/ rs[i] = [db.requests[i] EXCEPT !.status = "superseded"]
          \/ rs[i] = db.requests[i]
      BY <2>5
    <3> HIDE DEF rs
    <3>2. [db.requests[i] EXCEPT !.status = "superseded"] \in Preapproval
          /\ [db.requests[i] EXCEPT !.status = "superseded"].status = "superseded"
      BY <2>1, <2>2, StatusChange
    <3> QED  BY <2>1, <3>1, <3>2 DEF Decided
  <2> HIDE DEF rs
  <2> QED  BY <1>1, <2>4, <2>5 DEF Decided
<1>4. DOMAIN rs = 1..n /\ rs \in [1..n -> Preapproval]
  BY <1>3
<1> HIDE DEF rs, n
<1>5. rs \in Seq(Preapproval) /\ Len(rs) = n
  BY <1>1, <1>4
<1>6. RequestsAdvance(db.requests, rs) /\ NewestStands(rs)
  BY <1>1, <1>3, <1>5 DEF RequestsAdvance, NewestStands, n
<1> QED  BY <1>2, <1>5, <1>6, RequestsStep

\* An attestation is revoked or expires.
LEMMA EndStep ==
    ASSUME TypeOK, NEW i \in DOMAIN db.requests, NEW s \in {"revoked", "expired"},
           EndPreapproval(i, s)
    PROVE  /\ TypeOK'
           /\ db'.policy = db.policy /\ db'.latch = db.latch
           /\ db'.cycles = db.cycles /\ db'.decisions = db.decisions /\ db'.runs = db.runs
           /\ RequestsAdvance(db.requests, db'.requests)
           /\ NewestStands(db.requests) => NewestStands(db'.requests)
<1> DEFINE n == Len(db.requests)
           q == [db.requests[i] EXCEPT !.status = s]
           rs == [db.requests EXCEPT ![i] = q]
<1>1. /\ db.requests \in Seq(Preapproval) /\ n \in Nat /\ DOMAIN db.requests = 1..n
      /\ i \in 1..n
  BY DEF TypeOK, Database
<1>2. db' = [db EXCEPT !.requests = rs] /\ txn' = txn
  BY DEF EndPreapproval
<1>3. q \in Preapproval /\ q.status = s
  <2>1. db.requests[i] \in Preapproval /\ s \in RequestStatus
    BY <1>1 DEF RequestStatus
  <2> QED  BY <2>1, StatusChange
<1> HIDE DEF q
<1>4. /\ rs \in Seq(Preapproval) /\ Len(rs) = n
      /\ \A j \in 1..n : rs[j] = IF j = i THEN q ELSE db.requests[j]
  BY <1>1, <1>3
<1> HIDE DEF rs, n
<1>5. RequestsAdvance(db.requests, rs)
  BY <1>1, <1>3, <1>4 DEF RequestsAdvance, Decided, n
<1>6. NewestStands(db.requests) => NewestStands(rs)
  BY <1>1, <1>3, <1>4 DEF NewestStands, n
<1> QED  BY <1>2, <1>4, <1>5, <1>6, RequestsStep

\* Everything that commits before the policy change is missed by the
\* transactions that are open.
Outdated(what) ==
    [w \in Workers |-> IF txn[w].phase \in {"open", "persisting"}
                         THEN [txn[w] EXCEPT !.stale = @ \cup {what}]
                         ELSE txn[w]]

\* A transaction that misses something is still a typed call.
LEMMA OutdatedTyped ==
    ASSUME TypeOK, NEW what \in {"loop", "policy"}
    PROVE  Outdated(what) \in [Workers -> Call \cup {NoCall}]
<1>1. txn \in [Workers -> Call \cup {NoCall}]
  BY DEF TypeOK
<1>2. \A w \in Workers : txn[w].phase \in {"open", "persisting"} =>
        [txn[w] EXCEPT !.stale = @ \cup {what}] \in Call
  BY <1>1 DEF Call, NoCall
<1> QED  BY <1>1, <1>2 DEF Outdated

\* What any step around the loop may change: no cycle and no decision, a run
\* only if it was running, the policy only with a new stamp and behind the
\* back of every open transaction, and the requests only forward.
LEMMA EnvironmentStep ==
    ASSUME TypeOK, Environment
    PROVE  /\ TypeOK'
           /\ db'.cycles = db.cycles /\ db'.decisions = db.decisions
           /\ (\A r \in LoopRuns : db.runs[r] # "running") => db'.runs = db.runs
           /\ RequestsAdvance(db.requests, db'.requests)
           /\ NewestStands(db.requests) => NewestStands(db'.requests)
           /\ \/ db'.policy = db.policy /\ txn' = txn
              \/ db'.policy.stamp = db.policy.stamp + 1 /\ txn' = Outdated("policy")
<1>1. db \in Database /\ txn \in [Workers -> Call \cup {NoCall}]
  BY DEF TypeOK
<1>2. RequestsAdvance(db.requests, db.requests)
  <2>1. Len(db.requests) \in Nat
    BY <1>1 DEF Database
  <2> QED  BY <2>1 DEF RequestsAdvance
<1>3. CASE LatchEvent
  <2> DEFINE runs == [r \in LoopRuns |->
                        IF ~Stopped(db) /\ db.runs[r] = "running" THEN "paused" ELSE db.runs[r]]
  <2>1. db' = [db EXCEPT !.latch = @ + 1, !.runs = runs] /\ txn' = txn
    BY <1>3 DEF LatchEvent
  <2>2. db.latch + 1 \in Nat /\ runs \in [LoopRuns -> LoopStatus]
    BY <1>1 DEF Database, LoopStatus
  <2>3. (\A r \in LoopRuns : db.runs[r] # "running") => runs = db.runs
    BY <1>1 DEF Database
  <2> HIDE DEF runs
  <2>4. /\ db'.cycles = db.cycles /\ db'.decisions = db.decisions /\ db'.runs = runs
        /\ db'.requests = db.requests /\ db'.policy = db.policy
    BY <1>1, <2>1 DEF Database
  <2>5. db' \in Database
    BY <1>1, <2>1, <2>2 DEF Database
  <2> QED  BY <1>1, <1>2, <2>1, <2>3, <2>4, <2>5 DEF TypeOK
<1>4. CASE CostChange \/ GatesChange
  <2>1. db' \in Database /\ txn' = txn
    BY <1>1, <1>4 DEF CostChange, GatesChange, Database
  <2>2. /\ db'.cycles = db.cycles /\ db'.decisions = db.decisions /\ db'.runs = db.runs
        /\ db'.requests = db.requests /\ db'.policy = db.policy
    BY <1>1, <1>4 DEF CostChange, GatesChange, Database
  <2> QED  BY <1>1, <1>2, <2>1, <2>2 DEF TypeOK
<1>5. CASE PolicyChange
  <2>1. PICK p \in BOOLEAN :
          db' = [db EXCEPT !.policy = [stamp |-> @.stamp + 1, permits |-> p]]
    BY <1>5 DEF PolicyChange
  <2>2. [stamp |-> db.policy.stamp + 1, permits |-> p] \in [stamp : Nat, permits : BOOLEAN]
    BY <1>1 DEF Database
  <2>3. db' \in Database
    BY <1>1, <2>1, <2>2 DEF Database
  <2>4. /\ db'.cycles = db.cycles /\ db'.decisions = db.decisions /\ db'.runs = db.runs
        /\ db'.requests = db.requests /\ db'.policy.stamp = db.policy.stamp + 1
    BY <1>1, <2>1 DEF Database
  <2>5. txn' = Outdated("policy")
    BY <1>5 DEF PolicyChange, Outdated
  <2> QED  BY <1>2, <2>3, <2>4, <2>5, OutdatedTyped DEF TypeOK
<1>6. CASE RequestPreapproval
  BY <1>6, RequestStep DEF RequestPreapproval
<1>7. CASE \E s \in {"approved", "rejected"} : ResolvePreapproval(s)
  BY <1>7, ResolveStep DEF ResolvePreapproval
<1>8. CASE \E i \in DOMAIN db.requests, s \in {"revoked", "expired"} : EndPreapproval(i, s)
  BY <1>8, EndStep DEF EndPreapproval
<1> QED  BY <1>3, <1>4, <1>5, <1>6, <1>7, <1>8 DEF Environment

-----------------------------------------------------------------------------
(* The steps of a call.                                                    *)

\* A new attempt sees the committed rows as they are.
LEMMA AttemptTyped ==
    ASSUME TypeOK, NEW phase \in {"open", "persisting"}, NEW r \in LoopRuns, NEW key \in Key,
           NEW n \in 1..MaxAttempts
    PROVE  Attempt(phase, r, key, n) \in Call
  BY DEF Attempt, Call, TypeOK

\* A call that is under way is typed.
LEMMA OpenCall ==
    ASSUME TypeOK, NEW w \in Workers, txn[w].phase # "idle"
    PROVE  txn[w] \in Call /\ txn[w] # NoCall
  BY DEF TypeOK, NoCall

\* The steps of a call that write no row: it begins, ends, fails, or begins
\* again with a new snapshot.
QuietStep(w) ==
    \/ \E r \in LoopRuns, k \in StartKeys : Start(w, r, k)
    \/ \E c \in DOMAIN db.cycles : Resume(w, c)
    \/ Return(w) \/ FailInfrastructure(w) \/ Retry(w) \/ BeginPersist(w)
    \/ PersistRaises(w) \/ Crash(w)

\* A quiet step leaves the call idle, failed, or with a fresh snapshot.
LEMMA QuietEffect ==
    ASSUME TypeOK, NEW w \in Workers, QuietStep(w)
    PROVE  /\ TypeOK' /\ db' = db
           /\ \E t \in Call \cup {NoCall} :
                /\ txn' = [txn EXCEPT ![w] = t]
                /\ \/ t = NoCall
                   \/ /\ txn[w] \in Call /\ t \in Call /\ t.phase = "failed"
                      /\ t.run = txn[w].run /\ t.key = txn[w].key
                   \/ /\ t \in Call /\ t.phase \in {"open", "persisting"} /\ t.snap = db
                      /\ \/ txn[w] \in Call /\ t.run = txn[w].run /\ t.key = txn[w].key
                         \/ t.key[1] = "start"
                         \/ \E c \in DOMAIN db.cycles :
                              t.key = <<"resume", c>> /\ t.run = db.cycles[c].run
<1> DEFINE Fine(t) ==
             \/ t = NoCall
             \/ /\ txn[w] \in Call /\ t \in Call /\ t.phase = "failed"
                /\ t.run = txn[w].run /\ t.key = txn[w].key
             \/ /\ t \in Call /\ t.phase \in {"open", "persisting"} /\ t.snap = db
                /\ \/ txn[w] \in Call /\ t.run = txn[w].run /\ t.key = txn[w].key
                   \/ t.key[1] = "start"
                   \/ \E c \in DOMAIN db.cycles :
                        t.key = <<"resume", c>> /\ t.run = db.cycles[c].run
<1>1. db \in Database /\ txn \in [Workers -> Call \cup {NoCall}]
  BY DEF TypeOK
<1>2. SUFFICES db' = db /\ \E t \in Call \cup {NoCall} : txn' = [txn EXCEPT ![w] = t] /\ Fine(t)
  BY <1>1 DEF TypeOK
<1>3. 1 \in 1..MaxAttempts
  BY AttemptsAssumption
<1>4. ASSUME NEW phase \in {"open", "persisting"}, NEW r \in LoopRuns, NEW key \in Key,
             NEW n \in 1..MaxAttempts
      PROVE  LET a == Attempt(phase, r, key, n)
             IN  a \in Call /\ a.phase = phase /\ a.snap = db /\ a.run = r /\ a.key = key
  BY AttemptTyped DEF Attempt
<1>5. CASE \E r \in LoopRuns, k \in StartKeys : Start(w, r, k)
  <2>1. PICK r \in LoopRuns, k \in StartKeys : Start(w, r, k)
    BY <1>5
  <2> DEFINE key == <<"start", k>>
             a == Attempt("open", r, key, 1)
  <2>2. key \in Key /\ key[1] = "start"
    BY DEF Key
  <2>3. txn' = [txn EXCEPT ![w] = a] /\ db' = db
    BY <2>1 DEF Start
  <2> HIDE DEF key
  <2>4. a \in Call /\ a.phase = "open" /\ a.snap = db /\ a.key = key
    BY <1>3, <1>4, <2>2
  <2> QED  BY <2>2, <2>3, <2>4
<1>6. CASE \E c \in DOMAIN db.cycles : Resume(w, c)
  <2>1. PICK c \in DOMAIN db.cycles : Resume(w, c)
    BY <1>6
  <2> DEFINE key == <<"resume", c>>
             a == Attempt("open", db.cycles[c].run, key, 1)
  <2>2. c \in Nat /\ db.cycles[c] \in Cycle
    BY <1>1 DEF Database
  <2>3. key \in Key /\ db.cycles[c].run \in LoopRuns
    BY <2>2 DEF Key, Cycle
  <2>4. txn' = [txn EXCEPT ![w] = a] /\ db' = db
    BY <2>1 DEF Resume
  <2>5. a \in Call /\ a.phase = "open" /\ a.snap = db /\ a.key = key /\ a.run = db.cycles[c].run
    BY <1>3, <1>4, <2>3
  <2> HIDE DEF a
  <2> QED  BY <2>4, <2>5
<1>7. CASE Return(w) \/ PersistRaises(w) \/ Crash(w)
  BY <1>7 DEF Return, PersistRaises, Crash
<1>8. CASE FailInfrastructure(w)
  <2> DEFINE t == [txn[w] EXCEPT !.phase = "failed"]
  <2>1. txn[w] \in Call /\ txn' = [txn EXCEPT ![w] = t] /\ db' = db
    BY <1>8, OpenCall DEF FailInfrastructure
  <2>2. t \in Call /\ t.phase = "failed" /\ t.run = txn[w].run /\ t.key = txn[w].key
    BY <2>1 DEF Call
  <2> HIDE DEF t
  <2> QED  BY <2>1, <2>2
<1>9. CASE Retry(w)
  <2>1. txn[w] \in Call /\ txn[w].phase \in {"open", "persisting"} /\ db' = db
    BY <1>9, OpenCall DEF Retry
  <2>2. txn[w].run \in LoopRuns /\ txn[w].key \in Key /\ txn[w].attempt \in 1..MaxAttempts
    BY <2>1 DEF Call
  <2> DEFINE a == Attempt(txn[w].phase, txn[w].run, txn[w].key, txn[w].attempt + 1)
  <2>3. CASE txn[w].attempt < MaxAttempts
    <3>1. txn[w].attempt + 1 \in 1..MaxAttempts
      BY <2>2, <2>3, AttemptsAssumption
    <3>2. /\ a \in Call /\ a.phase = txn[w].phase /\ a.snap = db
          /\ a.run = txn[w].run /\ a.key = txn[w].key
      BY <1>4, <2>1, <2>2, <3>1
    <3>3. txn' = [txn EXCEPT ![w] = a]
      BY <1>9, <2>3 DEF Retry
    <3> HIDE DEF a
    <3> QED  BY <2>1, <3>2, <3>3
  <2>4. CASE ~(txn[w].attempt < MaxAttempts)
    BY <1>9, <2>1, <2>4 DEF Retry
  <2> QED  BY <2>3, <2>4
<1>10. CASE BeginPersist(w)
  <2>1. txn[w] \in Call /\ db' = db
    BY <1>10, OpenCall DEF BeginPersist
  <2>2. txn[w].run \in LoopRuns /\ txn[w].key \in Key
    BY <2>1 DEF Call
  <2> DEFINE a == Attempt("persisting", txn[w].run, txn[w].key, 1)
  <2>3. /\ a \in Call /\ a.phase = "persisting" /\ a.snap = db
        /\ a.run = txn[w].run /\ a.key = txn[w].key
    BY <1>3, <1>4, <2>2
  <2>4. txn' = [txn EXCEPT ![w] = a]
    BY <1>10 DEF BeginPersist
  <2> HIDE DEF a
  <2> QED  BY <2>1, <2>3, <2>4
<1> QED  BY <1>5, <1>6, <1>7, <1>8, <1>9, <1>10 DEF QuietStep

\* The decision an execution records.
NewDecision(t) ==
    [cycle |-> IF TargetCycle(t) \in DOMAIN t.snap.cycles THEN TargetCycle(t)
               ELSE Len(db.cycles) + 1,
     latch |-> t.snap.latch, request |-> Len(t.snap.requests),
     stamp |-> t.snap.policy.stamp, prev |-> Len(t.snap.decisions)]

\* The cycle as an execution leaves it.
Written(t) ==
    [Target(t) EXCEPT !.log = @ \o NewEvents(t),
                      !.done = IF LastEvent(NewEvents(t)).outcome \in Guards THEN @ ELSE Stages]

\* An execution commits typed rows.
LEMMA ExecuteTyped ==
    ASSUME TypeOK, NEW w \in Workers, Execute(w)
    PROVE  /\ TypeOK' /\ txn[w] \in Call
           /\ CommitLoop(w, PutCycle(txn[w], TargetCycle(txn[w]), Written(txn[w])), txn[w].run,
                         StatusAfter(NewEvents(txn[w])),
                         IF Decides(txn[w]) THEN Append(db.decisions, NewDecision(txn[w]))
                                            ELSE db.decisions)
           /\ NewDecision(txn[w]) \in Decision
<1> DEFINE t == txn[w]
           decisions == IF Decides(t) THEN Append(db.decisions, NewDecision(t)) ELSE db.decisions
<1>1. t \in Call /\ db \in Database
  BY OpenCall DEF Execute, TypeOK
<1>2. t.snap \in Database /\ t.run \in LoopRuns
  BY <1>1 DEF Call
<1>3. CommitLoop(w, PutCycle(t, TargetCycle(t), Written(t)), t.run,
                 StatusAfter(NewEvents(t)), decisions)
  BY DEF Execute, Written, NewDecision
<1>4. Written(t) \in Cycle
  <2>1. Target(t) \in Cycle /\ NewEvents(t) \in Seq(LoopEvent)
    BY <1>1, ExecutionTyped
  <2>2. Target(t).log \o NewEvents(t) \in Seq(LoopEvent)
    BY <2>1 DEF Cycle
  <2>3. (IF LastEvent(NewEvents(t)).outcome \in Guards THEN Target(t).done ELSE Stages) \in 0..Stages
    BY <2>1 DEF Cycle, Stages
  <2> QED  BY <2>1, <2>2, <2>3 DEF Cycle, Written
<1>5. StatusAfter(NewEvents(t)) \in LoopStatus
  BY DEF StatusAfter, LoopStatus
<1>6. NewDecision(t) \in Decision
  <2>1. TargetCycle(t) \in Nat
    BY <1>1, ExecutionTyped
  <2>2. /\ db.cycles \in Seq(Cycle) /\ t.snap.latch \in Nat /\ t.snap.policy.stamp \in Nat
        /\ t.snap.requests \in Seq(Preapproval) /\ t.snap.decisions \in Seq(Decision)
    BY <1>1, <1>2 DEF Database
  <2>3. Len(db.cycles) + 1 \in Nat /\ Len(t.snap.requests) \in Nat /\ Len(t.snap.decisions) \in Nat
    BY <2>2
  <2> QED  BY <2>1, <2>2, <2>3 DEF NewDecision, Decision
<1>7. decisions \in Seq(Decision)
  <2>1. db.decisions \in Seq(Decision)
    BY <1>1 DEF Database
  <2> QED  BY <1>6, <2>1
<1>8. PutCycle(t, TargetCycle(t), Written(t)) \in Seq(Cycle)
  BY <1>1, <1>4, PutCycleTyped
<1> HIDE DEF decisions
<1>9. TypeOK'
  BY <1>2, <1>3, <1>5, <1>7, <1>8, CommitTyped
<1> QED  BY <1>1, <1>3, <1>6, <1>9 DEF decisions

\* The cycle a failure belongs to, as the recording transaction sees it.
FailedCycle(t) == CycleAt(t.snap, CycleFor(t.snap, t.key), t.key, t.run)
WithFailure(t) == [FailedCycle(t) EXCEPT !.log = Append(@, Failure)]

\* The record of a failure commits typed rows.
LEMMA PersistTyped ==
    ASSUME TypeOK, NEW w \in Workers, Persist(w)
    PROVE  /\ TypeOK' /\ txn[w] \in Call
           /\ \/ /\ txn[w].snap.runs[txn[w].run] = "failed" /\ KeyOwned(txn[w])
                 /\ CommitLoop(w, PutCycle(txn[w], CycleFor(txn[w].snap, txn[w].key),
                                           FailedCycle(txn[w])),
                               txn[w].run, "failed", db.decisions)
              \/ /\ txn[w].snap.runs[txn[w].run] # "failed" /\ Recordable(txn[w])
                 /\ CommitLoop(w, PutCycle(txn[w], CycleFor(txn[w].snap, txn[w].key),
                                           WithFailure(txn[w])),
                               txn[w].run, "failed", db.decisions)
<1> DEFINE t == txn[w]
           c == CycleFor(t.snap, t.key)
<1>1. t \in Call /\ db \in Database
  BY OpenCall DEF Persist, TypeOK
<1>2. t.snap \in Database /\ t.run \in LoopRuns /\ t.key \in Key
  BY <1>1 DEF Call
<1>3. \/ /\ t.snap.runs[t.run] = "failed" /\ KeyOwned(t)
         /\ CommitLoop(w, PutCycle(t, c, FailedCycle(t)), t.run, "failed", db.decisions)
      \/ /\ t.snap.runs[t.run] # "failed" /\ Recordable(t)
         /\ CommitLoop(w, PutCycle(t, c, WithFailure(t)), t.run, "failed", db.decisions)
  BY DEF Persist, FailedCycle, WithFailure
<1>4. FailedCycle(t) \in Cycle
  BY <1>2, CycleAtTyped DEF FailedCycle
<1>5. WithFailure(t) \in Cycle
  <2>1. Failure \in LoopEvent
    BY DEF Failure, LoopEvent, Stages, Ends
  <2>2. Append(FailedCycle(t).log, Failure) \in Seq(LoopEvent)
    BY <1>4, <2>1 DEF Cycle
  <2> QED  BY <1>4, <2>2 DEF WithFailure, Cycle
<1>6. /\ PutCycle(t, c, FailedCycle(t)) \in Seq(Cycle)
      /\ PutCycle(t, c, WithFailure(t)) \in Seq(Cycle)
  BY <1>1, <1>4, <1>5, PutCycleTyped
<1>7. db.decisions \in Seq(Decision) /\ "failed" \in LoopStatus
  BY <1>1 DEF Database, LoopStatus
<1>8. TypeOK'
  BY <1>2, <1>3, <1>6, <1>7, CommitTyped
<1> QED  BY <1>1, <1>3, <1>8

\* Every step is one of the environment, a quiet one, or a commit.
LEMMA LoopSteps ==
    ASSUME [Next]_vars
    PROVE  \/ Environment
           \/ \E w \in Workers : QuietStep(w) \/ Execute(w) \/ Persist(w)
           \/ UNCHANGED vars
  BY Zenon DEF Next, Proceed, QuietStep

\* Every reachable state of the loop is typed, whatever the runs, keys,
\* workers and bounds are.
THEOREM LoopTypeCorrect == Spec => []TypeOK
<1>1. Init => TypeOK
  <2> SUFFICES ASSUME Init PROVE TypeOK
    OBVIOUS
  <2>1. PICK gates \in BOOLEAN :
          db = [latch |-> 0, costStop |-> FALSE, gates |-> gates,
                policy |-> [stamp |-> 0, permits |-> TRUE], requests |-> <<>>,
                runs |-> [r \in LoopRuns |-> "created"], cycles |-> <<>>, decisions |-> <<>>]
    BY DEF Init
  <2>2. /\ <<>> \in Seq(Preapproval) /\ <<>> \in Seq(Cycle) /\ <<>> \in Seq(Decision)
        /\ [r \in LoopRuns |-> "created"] \in [LoopRuns -> LoopStatus]
        /\ [stamp |-> 0, permits |-> TRUE] \in [stamp : Nat, permits : BOOLEAN]
    BY DEF LoopStatus
  <2>3. db \in Database
    BY <2>1, <2>2 DEF Database
  <2> QED  BY <2>3 DEF Init, TypeOK
<1>2. TypeOK /\ [Next]_vars => TypeOK'
  <2> SUFFICES ASSUME TypeOK, [Next]_vars PROVE TypeOK'
    OBVIOUS
  <2>1. CASE UNCHANGED vars
    BY <2>1 DEF vars, TypeOK
  <2> QED  BY <2>1, LoopSteps, EnvironmentStep, QuietEffect, ExecuteTyped, PersistTyped
<1> QED  BY <1>1, <1>2, PTL DEF Spec

-----------------------------------------------------------------------------
(* What a call can write.                                                  *)

\* An owned transaction commits as a whole, so it either pauses before its
\* first stage, or walks all stages to a verdict.
CostPause == [stage |-> 1, outcome |-> "paused_cost_stop"]
Verdicts == {"decision_recorded", "blocked_evidence_or_authority"}
Whole(o) ==
    [i \in 1..Stages |-> [stage |-> i, outcome |-> IF i < Stages THEN "completed" ELSE o]]
Resumed(o) == <<CostPause>> \o Whole(o)

LogShape(log) ==
    \/ log = <<>>
    \/ log = <<Failure>>
    \/ log = <<CostPause>>
    \/ \E o \in Verdicts : log = Whole(o) \/ log = Resumed(o)

\* The log ends in that outcome.
Ended(log, o) == log # <<>> /\ LastEvent(log).outcome = o

\* The pause before the first stage and the failure, alone in a log.
LEMMA SingleFacts ==
    /\ ~Ended(<<>>, "decision_recorded") /\ ~Ended(<<>>, "failed_infrastructure")
    /\ LastEvent(<<CostPause>>) = CostPause /\ <<CostPause>> # <<>>
    /\ LastEvent(<<Failure>>) = Failure /\ <<Failure>> # <<>>
    /\ CostPause.stage = 1 /\ CostPause.outcome = "paused_cost_stop"
    /\ Failure.stage = 0 /\ Failure.outcome = "failed_infrastructure"
    /\ CostPause \in LoopEvent /\ Failure \in LoopEvent
  BY DEF Ended, LastEvent, CostPause, Failure, LoopEvent, Guards, Ends, Stages

\* A function on an initial segment is a sequence.
LEMMA FunctionIsSeq ==
    ASSUME NEW n \in Nat, NEW T, NEW f \in [1..n -> T]
    PROVE  f \in Seq(T) /\ Len(f) = n
  OBVIOUS

\* A whole walk is eight events: seven completed stages and the verdict.
LEMMA WholeFacts ==
    ASSUME NEW o \in Verdicts
    PROVE  /\ Whole(o) \in Seq(LoopEvent) /\ Len(Whole(o)) = 8 /\ Whole(o) # <<>>
           /\ \A i \in 1..8 : /\ Whole(o)[i].stage = i
                              /\ Whole(o)[i].outcome = IF i < 8 THEN "completed" ELSE o
           /\ LastEvent(Whole(o)).outcome = o
<1> USE DEF Stages
<1>1. \A i \in 1..8 : Whole(o)[i] = [stage |-> i, outcome |-> IF i < 8 THEN "completed" ELSE o]
  BY DEF Whole
<1>2. \A i \in 1..8 : Whole(o)[i] \in LoopEvent
  BY <1>1 DEF LoopEvent, Verdicts, Ends
<1>3. Whole(o) \in [1..8 -> LoopEvent]
  BY <1>2 DEF Whole
<1>4. Whole(o) \in Seq(LoopEvent) /\ Len(Whole(o)) = 8
  BY <1>3, FunctionIsSeq
<1>5. Whole(o) # <<>>
  BY <1>4
<1>6. LastEvent(Whole(o)).outcome = o
  BY <1>1, <1>4 DEF LastEvent
<1> QED  BY <1>1, <1>4, <1>5, <1>6

\* A resumed walk has the pause before it.
LEMMA ResumedFacts ==
    ASSUME NEW o \in Verdicts
    PROVE  /\ Resumed(o) \in Seq(LoopEvent) /\ Len(Resumed(o)) = 9 /\ Resumed(o) # <<>>
           /\ Resumed(o)[1] = CostPause
           /\ \A i \in 2..9 : /\ Resumed(o)[i].stage = i - 1
                              /\ Resumed(o)[i].outcome = IF i < 9 THEN "completed" ELSE o
           /\ LastEvent(Resumed(o)).outcome = o
<1> DEFINE p == <<CostPause>>
           u == Whole(o)
<1>1. p \in Seq(LoopEvent) /\ Len(p) = 1 /\ p[1] = CostPause
  BY SingleFacts
<1>2. /\ u \in Seq(LoopEvent) /\ Len(u) = 8
      /\ \A i \in 1..8 : u[i].stage = i /\ u[i].outcome = IF i < 8 THEN "completed" ELSE o
  BY WholeFacts
<1> DEFINE r == p \o u
<1>3. Resumed(o) = r
  BY DEF Resumed
<1> HIDE DEF p, u
<1>4. /\ r \in Seq(LoopEvent) /\ Len(r) = Len(p) + Len(u)
      /\ \A i \in 1..(Len(p) + Len(u)) : r[i] = IF i <= Len(p) THEN p[i] ELSE u[i - Len(p)]
  BY <1>1, <1>2, ConcatProperties
<1> HIDE DEF r
<1>5. /\ Len(r) = 9 /\ r[1] = CostPause
      /\ \A i \in 2..9 : r[i] = u[i - 1] /\ i - 1 \in 1..8
  BY <1>1, <1>2, <1>4
<1>6. \A i \in 2..9 : /\ r[i].stage = i - 1
                      /\ r[i].outcome = IF i < 9 THEN "completed" ELSE o
  BY <1>2, <1>5
<1>7. LastEvent(r).outcome = o
  BY <1>5, <1>6 DEF LastEvent
<1>8. r # <<>>
  BY <1>5
<1> QED  BY <1>3, <1>4, <1>5, <1>6, <1>7, <1>8

\* What a walk from the first stage appends when the latch is not active.
LEMMA WalkFromStart ==
    ASSUME NEW S, ~Stopped(S)
    PROVE  /\ S.costStop => Walk(S, 0) = <<CostPause>>
           /\ ~S.costStop => Walk(S, 0) = Whole(IF DecisionEligible(S) THEN "decision_recorded"
                                                ELSE "blocked_evidence_or_authority")
<1> USE DEF Stages
<1>1. S.costStop => Walk(S, 0) = <<CostPause>>
  BY DEF Walk, CostPause
<1>2. ASSUME ~S.costStop
      PROVE  Walk(S, 0) = Whole(IF DecisionEligible(S) THEN "decision_recorded"
                                ELSE "blocked_evidence_or_authority")
  <2> DEFINE v == IF DecisionEligible(S) THEN "decision_recorded"
                  ELSE "blocked_evidence_or_authority"
  <2>1. Walk(S, 0) = [i \in 1..8 |-> [stage |-> 0 + i,
                        outcome |-> IF 0 + i < 8 THEN "completed" ELSE v]]
    BY <1>2 DEF Walk
  <2>2. Whole(v) = [i \in 1..8 |-> [stage |-> i, outcome |-> IF i < 8 THEN "completed" ELSE v]]
    BY DEF Whole
  <2> HIDE DEF v
  <2>3. \A i \in 1..8 : 0 + i = i
    OBVIOUS
  <2>4. Walk(S, 0) = Whole(v)
    BY <2>1, <2>2, <2>3
  <2> QED  BY <2>4 DEF v
<1> QED  BY <1>1, <1>2

\* append_event refuses everything after an end, and a failure after a pause.
LEMMA FirstAppended ==
    ASSUME NEW log \in Seq(LoopEvent), NEW new \in Seq(LoopEvent), new # <<>>,
           CanAppend(log, new)
    PROVE  ValidNext(log, new[1])
<1>1. 1 \in DOMAIN new
  BY EmptySeq, LenProperties
<1>2. SubSeq(new, 1, 1 - 1) = <<>>
  BY SubSeqEmpty
<1>3. log \o <<>> = log
  BY ConcatEmptySeq
<1>4. ValidNext(log \o SubSeq(new, 1, 1 - 1), new[1])
  BY <1>1, Zenon DEF CanAppend
<1> QED  BY <1>2, <1>3, <1>4, Zenon

-----------------------------------------------------------------------------
(* The inductive invariant.                                                *)

\* What an open transaction has read is what is committed, but for what its
\* stale set says it misses; requests it has read have only advanced.
SnapshotHolds(t) ==
    /\ "loop" \notin t.stale => /\ t.snap.cycles = db.cycles /\ t.snap.runs = db.runs
                                /\ t.snap.decisions = db.decisions
    /\ "policy" \notin t.stale => t.snap.policy = db.policy
    /\ RequestsAdvance(t.snap.requests, db.requests)
Snapshots == \A w \in Workers : txn[w].phase \in {"open", "persisting"} => SnapshotHolds(txn[w])

\* A call that resumes a cycle drives that cycle's run.
Resumes(t, cycles) ==
    t # NoCall /\ t.key[1] = "resume" =>
        t.key[2] \in DOMAIN cycles /\ cycles[t.key[2]].run = t.run
CallsNamed == \A w \in Workers : Resumes(txn[w], db.cycles)

\* A cycle begun by a resume that did not fail needed an approved request.
CycleFits(cycle, requests) ==
    /\ LogShape(cycle.log)
    /\ cycle.key[1] = "resume" /\ cycle.log # <<>> /\ LastEvent(cycle.log) # Failure =>
         \E i \in DOMAIN requests : Decided(requests[i])
CyclesFit == \A c \in DOMAIN db.cycles : CycleFits(db.cycles[c], db.requests)

\* Exactly one cycle of the run ends in that outcome.
OneEnds(cycles, r, o) ==
    \E c \in DOMAIN cycles :
        /\ cycles[c].run = r
        /\ \A d \in DOMAIN cycles : cycles[d].run = r => (Ended(cycles[d].log, o) <=> d = c)

\* The status of a run and the cycles it has.
StatusFits(cycles, r, status) ==
    \/ status = "created" /\ \A c \in DOMAIN cycles : cycles[c].run # r
    \/ /\ status = "paused"
       /\ \E c \in DOMAIN cycles :
            /\ cycles[c].log = <<CostPause>> /\ cycles[c].done = 0
            /\ \A d \in DOMAIN cycles : cycles[d].run = r <=> d = c
    \/ /\ status = "blocked"
       /\ \E c \in DOMAIN cycles : cycles[c].run = r
       /\ \A c \in DOMAIN cycles :
            cycles[c].run = r => Ended(cycles[c].log, "blocked_evidence_or_authority")
    \/ status = "completed" /\ OneEnds(cycles, r, "decision_recorded")
    \/ status = "failed" /\ OneEnds(cycles, r, "failed_infrastructure")
RunsFit == \A r \in LoopRuns : StatusFits(db.cycles, r, db.runs[r])

\* A decision was taken with the latch armed, belongs to a run it completed and
\* to an approved request, and the policy permits it as long as it is the same.
DecisionFits(d, cycles, runs, requests, policy) ==
    /\ d.latch % 2 # 1
    /\ d.cycle \in DOMAIN cycles /\ runs[cycles[d.cycle].run] = "completed"
    /\ d.request \in DOMAIN requests /\ Decided(requests[d.request])
    /\ d.stamp <= policy.stamp /\ (d.stamp = policy.stamp => policy.permits)
DecisionsFit ==
    \A i \in DOMAIN db.decisions :
        DecisionFits(db.decisions[i], db.cycles, db.runs, db.requests, db.policy)

LoopInv ==
    /\ TypeOK
    /\ Snapshots
    /\ CallsNamed
    /\ CyclesFit
    /\ RunsFit
    /\ DecisionsFit
    /\ DecisionChainLinear
    /\ NewestStands(db.requests)

\* Requests that have advanced twice have advanced.
LEMMA AdvanceTwice ==
    ASSUME NEW a \in Seq(Preapproval), NEW b \in Seq(Preapproval), NEW c \in Seq(Preapproval),
           RequestsAdvance(a, b), RequestsAdvance(b, c)
    PROVE  RequestsAdvance(a, c)
<1>1. /\ Len(a) \in Nat /\ Len(b) \in Nat /\ Len(c) \in Nat
      /\ DOMAIN a = 1..Len(a) /\ DOMAIN b = 1..Len(b) /\ DOMAIN c = 1..Len(c)
  BY LenProperties
<1>2. Len(a) <= Len(b) /\ Len(b) <= Len(c)
  BY DEF RequestsAdvance
<1>3. \A i \in DOMAIN a : i \in DOMAIN b
  BY <1>1, <1>2
<1>4. \A i \in DOMAIN a : Decided(a[i]) => Decided(c[i])
  BY <1>3 DEF RequestsAdvance
<1> QED  BY <1>1, <1>2, <1>4 DEF RequestsAdvance

\* A request that was approved is still there and still not rejected.
LEMMA DecidedStays ==
    ASSUME NEW a \in Seq(Preapproval), NEW b \in Seq(Preapproval), RequestsAdvance(a, b),
           NEW i \in DOMAIN a, Decided(a[i])
    PROVE  i \in DOMAIN b /\ Decided(b[i])
<1>1. /\ Len(a) \in Nat /\ Len(b) \in Nat
      /\ DOMAIN a = 1..Len(a) /\ DOMAIN b = 1..Len(b)
  BY LenProperties
<1> QED  BY <1>1 DEF RequestsAdvance

\* Transactions that miss one thing more still hold what they do not miss.
LEMMA OutdatedFields ==
    ASSUME TypeOK, NEW what, NEW v \in Workers
    PROVE  LET t == Outdated(what)[v]
           IN  /\ t.phase = txn[v].phase /\ (t = NoCall <=> txn[v] = NoCall)
               /\ txn[v] \in Call => /\ t.key = txn[v].key /\ t.run = txn[v].run
                                     /\ t.snap = txn[v].snap
               /\ txn[v].phase \in {"open", "persisting"} => t.stale = txn[v].stale \cup {what}
<1>1. txn[v] \in Call \cup {NoCall}
  BY DEF TypeOK
<1>2. CASE txn[v] \in Call /\ txn[v].phase \in {"open", "persisting"}
  <2>1. Outdated(what)[v] = [txn[v] EXCEPT !.stale = @ \cup {what}]
    BY <1>2 DEF Outdated
  <2>2. txn[v] # NoCall /\ [txn[v] EXCEPT !.stale = @ \cup {what}] # NoCall
    BY <1>2 DEF Call, NoCall
  <2> QED  BY <1>2, <2>1, <2>2 DEF Call
<1>3. CASE ~(txn[v] \in Call /\ txn[v].phase \in {"open", "persisting"})
  <2>1. Outdated(what)[v] = txn[v] /\ txn[v].phase \notin {"open", "persisting"}
    BY <1>1, <1>3 DEF Outdated, NoCall
  <2> QED  BY <2>1
<1> QED  BY <1>2, <1>3

\* The environment keeps the invariant.
LEMMA EnvironmentKeeps ==
    ASSUME LoopInv, Environment
    PROVE  LoopInv'
<1>1. TypeOK /\ db \in Database
  BY DEF LoopInv, TypeOK
<1>2. /\ TypeOK'
      /\ db'.cycles = db.cycles /\ db'.decisions = db.decisions
      /\ (\A r \in LoopRuns : db.runs[r] # "running") => db'.runs = db.runs
      /\ RequestsAdvance(db.requests, db'.requests)
      /\ NewestStands(db.requests) => NewestStands(db'.requests)
      /\ \/ db'.policy = db.policy /\ txn' = txn
         \/ db'.policy.stamp = db.policy.stamp + 1 /\ txn' = Outdated("policy")
  BY <1>1, EnvironmentStep
<1>3. db'.runs = db.runs
  <2>1. ASSUME NEW r \in LoopRuns PROVE db.runs[r] # "running"
    BY DEF LoopInv, RunsFit, StatusFits
  <2> QED  BY <1>2, <2>1
<1>4. db.requests \in Seq(Preapproval) /\ db'.requests \in Seq(Preapproval)
  BY <1>1, <1>2 DEF TypeOK, Database
<1>5. Snapshots'
  <2> SUFFICES ASSUME NEW v \in Workers, txn'[v].phase \in {"open", "persisting"}
               PROVE  SnapshotHolds(txn[v])'
    BY DEF Snapshots
  <2>1. /\ txn[v].phase \in {"open", "persisting"} /\ txn'[v].snap = txn[v].snap
        /\ txn[v].stale \subseteq txn'[v].stale
        /\ db'.policy = db.policy \/ "policy" \in txn'[v].stale
    <3>1. CASE txn' = txn /\ db'.policy = db.policy
      BY <3>1
    <3>2. CASE txn' = Outdated("policy")
      <4>1. txn[v].phase \in {"open", "persisting"}
        BY <1>1, <3>2, OutdatedFields
      <4>2. txn[v] \in Call
        BY <1>1, <4>1, OpenCall
      <4> QED  BY <1>1, <3>2, <4>1, <4>2, OutdatedFields
    <3> QED  BY <1>2, <3>1, <3>2
  <2>2. SnapshotHolds(txn[v]) /\ txn[v] \in Call
    BY <1>1, <2>1, OpenCall DEF LoopInv, Snapshots
  <2>3. txn[v].snap.requests \in Seq(Preapproval)
    BY <2>2 DEF Call, Database
  <2>4. RequestsAdvance(txn[v].snap.requests, db'.requests)
    BY <1>2, <1>4, <2>2, <2>3, AdvanceTwice DEF SnapshotHolds
  <2> QED  BY <1>2, <1>3, <2>1, <2>2, <2>4 DEF SnapshotHolds
<1>6. CallsNamed'
  <2> SUFFICES ASSUME NEW v \in Workers PROVE Resumes(txn'[v], db.cycles)
    BY <1>2 DEF CallsNamed
  <2>1. Resumes(txn[v], db.cycles) /\ txn[v] \in Call \cup {NoCall}
    BY <1>1 DEF LoopInv, CallsNamed, TypeOK
  <2>2. CASE txn' = Outdated("policy")
    BY <1>1, <2>1, <2>2, OutdatedFields DEF Resumes
  <2> QED  BY <1>2, <2>1, <2>2
<1>7. CyclesFit'
  <2> SUFFICES ASSUME NEW c \in DOMAIN db.cycles PROVE CycleFits(db.cycles[c], db'.requests)
    BY <1>2 DEF CyclesFit
  <2>1. CycleFits(db.cycles[c], db.requests)
    BY DEF LoopInv, CyclesFit
  <2>2. (\E i \in DOMAIN db.requests : Decided(db.requests[i])) =>
          \E i \in DOMAIN db'.requests : Decided(db'.requests[i])
    BY <1>2, <1>4, DecidedStays
  <2> QED  BY <2>1, <2>2 DEF CycleFits
<1>8. RunsFit' /\ DecisionChainLinear'
  BY <1>2, <1>3 DEF LoopInv, RunsFit, DecisionChainLinear
<1>9. DecisionsFit'
  <2> SUFFICES ASSUME NEW i \in DOMAIN db.decisions
               PROVE  DecisionFits(db.decisions[i], db.cycles, db.runs, db'.requests, db'.policy)
    BY <1>2, <1>3 DEF DecisionsFit
  <2> DEFINE d == db.decisions[i]
  <2>1. DecisionFits(d, db.cycles, db.runs, db.requests, db.policy)
    BY DEF LoopInv, DecisionsFit
  <2>2. d.stamp \in Nat /\ db.policy.stamp \in Nat
    <3>1. d \in Decision
      BY <1>1 DEF Database
    <3> QED  BY <1>1, <3>1 DEF Database, Decision
  <2> HIDE DEF d
  <2>3. d.request \in DOMAIN db'.requests /\ Decided(db'.requests[d.request])
    BY <1>2, <1>4, <2>1, DecidedStays DEF DecisionFits
  <2>4. d.stamp <= db'.policy.stamp /\ (d.stamp = db'.policy.stamp => db'.policy.permits)
    BY <1>2, <2>1, <2>2 DEF DecisionFits
  <2> QED  BY <2>1, <2>3, <2>4 DEF DecisionFits, d
<1> QED  BY <1>2, <1>5, <1>6, <1>7, <1>8, <1>9 DEF LoopInv

\* A step of a call that writes nothing keeps the invariant.
LEMMA QuietKeeps ==
    ASSUME LoopInv, NEW w \in Workers, QuietStep(w)
    PROVE  LoopInv'
<1>1. TypeOK /\ db \in Database /\ txn \in [Workers -> Call \cup {NoCall}]
  BY DEF LoopInv, TypeOK
<1>2. TypeOK' /\ db' = db
  BY <1>1, QuietEffect
<1>3. PICK t \in Call \cup {NoCall} :
        /\ txn' = [txn EXCEPT ![w] = t]
        /\ \/ t = NoCall
           \/ /\ txn[w] \in Call /\ t \in Call /\ t.phase = "failed"
              /\ t.run = txn[w].run /\ t.key = txn[w].key
           \/ /\ t \in Call /\ t.phase \in {"open", "persisting"} /\ t.snap = db
              /\ \/ txn[w] \in Call /\ t.run = txn[w].run /\ t.key = txn[w].key
                 \/ t.key[1] = "start"
                 \/ \E c \in DOMAIN db.cycles :
                      t.key = <<"resume", c>> /\ t.run = db.cycles[c].run
  BY <1>1, QuietEffect
<1>4. txn'[w] = t /\ \A v \in Workers : v # w => txn'[v] = txn[v]
  BY <1>1, <1>3
<1>5. Snapshots'
  <2>1. ASSUME t.phase \in {"open", "persisting"} PROVE SnapshotHolds(t)
    <3>1. t.snap = db
      BY <1>3, <2>1 DEF NoCall
    <3>2. RequestsAdvance(db.requests, db.requests)
      <4>1. Len(db.requests) \in Nat
        BY <1>1 DEF Database
      <4> QED  BY <4>1 DEF RequestsAdvance
    <3> QED  BY <3>1, <3>2 DEF SnapshotHolds
  <2> QED  BY <1>2, <1>4, <2>1 DEF LoopInv, Snapshots, SnapshotHolds
<1>6. CallsNamed'
  <2>1. Resumes(t, db.cycles)
    <3>1. CASE t = NoCall
      BY <3>1 DEF Resumes
    <3>2. CASE txn[w] \in Call /\ t.run = txn[w].run /\ t.key = txn[w].key
      <4>1. txn[w] # NoCall
        BY <3>2 DEF Call, NoCall
      <4> QED  BY <3>2, <4>1 DEF Resumes, LoopInv, CallsNamed
    <3>3. CASE t.key[1] = "start"
      BY <3>3 DEF Resumes
    <3>4. CASE \E c \in DOMAIN db.cycles : t.key = <<"resume", c>> /\ t.run = db.cycles[c].run
      BY <3>4 DEF Resumes
    <3> QED  BY <1>3, <3>1, <3>2, <3>3, <3>4, Zenon
  <2> QED  BY <1>2, <1>4, <2>1 DEF LoopInv, CallsNamed
<1>7. CyclesFit' /\ RunsFit' /\ DecisionsFit' /\ DecisionChainLinear' /\ NewestStands(db'.requests)
  BY <1>2 DEF LoopInv, CyclesFit, RunsFit, DecisionsFit, DecisionChainLinear
<1> QED  BY <1>2, <1>5, <1>6, <1>7 DEF LoopInv

\* A commit keeps the invariant if the cycles it leaves fit the statuses and
\* the decision it adds, if any, is the next one, of the run it completes.
LEMMA CommitKeeps ==
    ASSUME LoopInv, TypeOK', NEW w \in Workers, NEW cycles, NEW r \in LoopRuns, NEW status,
           NEW decisions, CommitLoop(w, cycles, r, status, decisions),
           db.runs[r] # "completed",
           \A c \in DOMAIN db.cycles : c \in DOMAIN cycles /\ cycles[c].run = db.cycles[c].run,
           \A c \in DOMAIN cycles : CycleFits(cycles[c], db.requests),
           \A s \in LoopRuns \ {r} : StatusFits(cycles, s, db.runs[s]),
           StatusFits(cycles, r, status),
           \/ decisions = db.decisions
           \/ \E d \in Decision :
                /\ decisions = Append(db.decisions, d) /\ d.prev = Len(db.decisions)
                /\ cycles[d.cycle].run = r
                /\ DecisionFits(d, cycles, [db.runs EXCEPT ![r] = status],
                                db.requests, db.policy)
    PROVE  LoopInv'
<1>1. TypeOK /\ db \in Database /\ txn \in [Workers -> Call \cup {NoCall}]
  BY DEF LoopInv, TypeOK
<1>2. /\ db'.cycles = cycles /\ db'.runs = [db.runs EXCEPT ![r] = status]
      /\ db'.decisions = decisions
      /\ db'.policy = db.policy /\ db'.requests = db.requests
  BY <1>1 DEF CommitLoop, Database
<1>3. /\ db.runs \in [LoopRuns -> LoopStatus] /\ db.cycles \in Seq(Cycle)
      /\ db.decisions \in Seq(Decision)
  BY <1>1 DEF Database
<1>4. \A v \in Workers : txn'[v] = IF v = w THEN NoCall ELSE Outdated("loop")[v]
  BY DEF CommitLoop, Outdated
<1>5. Snapshots'
  <2> SUFFICES ASSUME NEW v \in Workers, txn'[v].phase \in {"open", "persisting"}
               PROVE  SnapshotHolds(txn[v])'
    BY DEF Snapshots
  <2>1. txn'[v] = Outdated("loop")[v]
    BY <1>4 DEF NoCall
  <2>2. txn[v].phase \in {"open", "persisting"} /\ txn[v] \in Call
    BY <1>1, <2>1, OutdatedFields, OpenCall
  <2>3. txn'[v].snap = txn[v].snap /\ txn'[v].stale = txn[v].stale \cup {"loop"}
    BY <1>1, <2>1, <2>2, OutdatedFields
  <2>4. SnapshotHolds(txn[v])
    BY <2>2 DEF LoopInv, Snapshots
  <2> QED  BY <1>2, <2>3, <2>4 DEF SnapshotHolds
<1>6. CallsNamed'
  <2> SUFFICES ASSUME NEW v \in Workers PROVE Resumes(txn'[v], cycles)
    BY <1>2 DEF CallsNamed
  <2>1. Resumes(txn[v], db.cycles) /\ txn[v] \in Call \cup {NoCall}
    BY <1>1 DEF LoopInv, CallsNamed
  <2>2. CASE txn'[v] = NoCall
    BY <2>2 DEF Resumes
  <2>3. CASE txn'[v] = Outdated("loop")[v]
    BY <1>1, <2>1, <2>3, OutdatedFields DEF Resumes
  <2> QED  BY <1>4, <2>2, <2>3
<1>7. CyclesFit'
  BY <1>2 DEF CyclesFit
<1>8. RunsFit'
  <2> SUFFICES ASSUME NEW s \in LoopRuns PROVE StatusFits(cycles, s, db'.runs[s])
    BY <1>2 DEF RunsFit
  <2>1. db'.runs[s] = IF s = r THEN status ELSE db.runs[s]
    BY <1>2, <1>3
  <2> QED  BY <2>1
<1>9. ASSUME NEW i \in DOMAIN db.decisions
      PROVE  /\ DecisionFits(db.decisions[i], cycles, db'.runs, db.requests, db.policy)
             /\ cycles[db.decisions[i].cycle].run = db.cycles[db.decisions[i].cycle].run
             /\ cycles[db.decisions[i].cycle].run # r
  <2> DEFINE d == db.decisions[i]
  <2>1. DecisionFits(d, db.cycles, db.runs, db.requests, db.policy)
    BY DEF LoopInv, DecisionsFit
  <2> HIDE DEF d
  <2>2. d.cycle \in DOMAIN cycles /\ cycles[d.cycle].run = db.cycles[d.cycle].run
    BY <2>1 DEF DecisionFits
  <2>3. db.cycles[d.cycle].run \in LoopRuns
    <3>1. db.cycles[d.cycle] \in Cycle
      BY <1>3, <2>1 DEF DecisionFits
    <3> QED  BY <3>1 DEF Cycle
  <2>4. db.cycles[d.cycle].run # r
    BY <2>1 DEF DecisionFits
  <2>5. db'.runs[cycles[d.cycle].run] = "completed"
    BY <1>2, <1>3, <2>1, <2>2, <2>3, <2>4 DEF DecisionFits
  <2> QED  BY <2>1, <2>2, <2>4, <2>5 DEF DecisionFits, d
<1>10. \A i, j \in DOMAIN db.decisions :
         /\ db.decisions[i].prev = i - 1
         /\ db.cycles[db.decisions[i].cycle].run = db.cycles[db.decisions[j].cycle].run => i = j
  BY DEF LoopInv, DecisionChainLinear
<1>11. CASE decisions = db.decisions
  <2>1. DecisionsFit'
    BY <1>2, <1>9, <1>11 DEF DecisionsFit
  <2>2. DecisionChainLinear'
    BY <1>2, <1>9, <1>10, <1>11 DEF DecisionChainLinear
  <2> QED  BY <1>2, <1>5, <1>6, <1>7, <1>8, <2>1, <2>2 DEF LoopInv
<1>12. CASE decisions # db.decisions
  <2>1. PICK d \in Decision :
          /\ decisions = Append(db.decisions, d) /\ d.prev = Len(db.decisions)
          /\ cycles[d.cycle].run = r
          /\ DecisionFits(d, cycles, db'.runs, db.requests, db.policy)
    BY <1>2, <1>12
  <2> DEFINE n == Len(db.decisions)
  <2>2. /\ n \in Nat /\ DOMAIN db.decisions = 1..n /\ DOMAIN decisions = 1..(n + 1)
        /\ decisions[n + 1] = d /\ \A i \in 1..n : decisions[i] = db.decisions[i]
    BY <1>3, <2>1
  <2> HIDE DEF n
  <2>3. \A i \in DOMAIN decisions : i = n + 1 \/ i \in DOMAIN db.decisions
    BY <2>2
  <2>4. DecisionsFit'
    <3> SUFFICES ASSUME NEW i \in DOMAIN decisions
                 PROVE  DecisionFits(decisions[i], cycles, db'.runs, db.requests, db.policy)
      BY <1>2 DEF DecisionsFit
    <3> QED  BY <1>9, <2>1, <2>2, <2>3
  <2>5. DecisionChainLinear'
    <3> SUFFICES ASSUME NEW i \in DOMAIN decisions
                 PROVE  /\ decisions[i].prev = i - 1
                        /\ \A j \in DOMAIN decisions :
                             cycles[decisions[i].cycle].run = cycles[decisions[j].cycle].run => i = j
      BY <1>2 DEF DecisionChainLinear
    <3>1. CASE i = n + 1
      <4>1. decisions[i].prev = i - 1
        BY <2>1, <2>2, <3>1 DEF n
      <4> QED  BY <1>9, <2>1, <2>2, <2>3, <3>1, <4>1
    <3>2. CASE i \in DOMAIN db.decisions
      BY <1>9, <1>10, <2>1, <2>2, <2>3, <3>2
    <3> QED  BY <2>3, <3>1, <3>2
  <2> QED  BY <1>2, <1>5, <1>6, <1>7, <1>8, <2>4, <2>5 DEF LoopInv
<1> QED  BY <1>11, <1>12

-----------------------------------------------------------------------------
(* Cycles and statuses.                                                    *)

\* How the logs a call can write end.
LEMMA EndedFacts ==
    /\ \A o : ~Ended(<<>>, o)
    /\ \A o \in Ends : ~Ended(<<CostPause>>, o)
    /\ \A o : Ended(<<Failure>>, o) <=> o = "failed_infrastructure"
    /\ \A v \in Verdicts : \A o : /\ Ended(Whole(v), o) <=> o = v
                                  /\ Ended(Resumed(v), o) <=> o = v
<1>1. \A v \in Verdicts : /\ Whole(v) # <<>> /\ LastEvent(Whole(v)).outcome = v
                          /\ Resumed(v) # <<>> /\ LastEvent(Resumed(v)).outcome = v
  BY WholeFacts, ResumedFacts
<1> QED  BY <1>1, SingleFacts DEF Ended, Ends

\* Nothing can be appended to a log that has ended.
LEMMA EndIsFinal ==
    ASSUME NEW log \in Seq(LoopEvent), NEW o \in Ends, Ended(log, o),
           NEW new \in Seq(LoopEvent), new # <<>>
    PROVE  ~CanAppend(log, new)
<1>1. SUFFICES ASSUME CanAppend(log, new) PROVE FALSE
  OBVIOUS
<1>2. ValidNext(log, new[1])
  BY <1>1, FirstAppended
<1> QED  BY <1>2 DEF ValidNext, Ended, Ends, Guards

\* A failure cannot follow the pause.
LEMMA PauseRefusesFailure == ~CanAppend(<<CostPause>>, <<Failure>>)
<1>1. SUFFICES ASSUME CanAppend(<<CostPause>>, <<Failure>>) PROVE FALSE
  OBVIOUS
<1>2. <<CostPause>> \in Seq(LoopEvent) /\ <<Failure>> \in Seq(LoopEvent) /\ <<Failure>>[1] = Failure
  BY SingleFacts
<1>3. ValidNext(<<CostPause>>, Failure)
  BY <1>1, <1>2, SingleFacts, FirstAppended
<1> QED  BY <1>3, SingleFacts DEF ValidNext, Guards

\* The cycles after one more was inserted.
LEMMA AppendedCycle ==
    ASSUME NEW cycles \in Seq(Cycle), NEW x \in Cycle
    PROVE  LET cs == Append(cycles, x)
               n == Len(cycles) + 1
           IN  /\ DOMAIN cs = DOMAIN cycles \cup {n} /\ n \notin DOMAIN cycles
               /\ cs[n] = x /\ \A c \in DOMAIN cycles : cs[c] = cycles[c]
<1>1. Len(cycles) \in Nat /\ DOMAIN cycles = 1..Len(cycles)
  BY LenProperties
<1>2. DOMAIN Append(cycles, x) = 1..(Len(cycles) + 1)
  BY <1>1
<1>3. Append(cycles, x)[Len(cycles) + 1] = x
      /\ \A c \in 1..Len(cycles) : Append(cycles, x)[c] = cycles[c]
  BY <1>1
<1> QED  BY <1>1, <1>2, <1>3

\* A cycle of one run leaves the other runs' statuses right.
LEMMA OtherRunsFit ==
    ASSUME NEW cycles, NEW cs, NEW r, NEW s, s # r, NEW status, StatusFits(cycles, s, status),
           \A c \in DOMAIN cycles : c \in DOMAIN cs /\ (cycles[c].run # r => cs[c] = cycles[c]),
           \A c \in DOMAIN cycles : cs[c].run = cycles[c].run,
           \A c \in DOMAIN cs : c \in DOMAIN cycles \/ cs[c].run = r
    PROVE  StatusFits(cs, s, status)
<1>1. \A c \in DOMAIN cs : cs[c].run = s => c \in DOMAIN cycles /\ cycles[c].run = s /\ cs[c] = cycles[c]
  OBVIOUS
<1>2. \A c \in DOMAIN cycles : cycles[c].run = s => c \in DOMAIN cs /\ cs[c] = cycles[c]
  OBVIOUS
<1>3. ASSUME NEW o, OneEnds(cycles, s, o) PROVE OneEnds(cs, s, o)
  BY <1>1, <1>2, <1>3 DEF OneEnds
<1>4. CASE status = "created" /\ \A c \in DOMAIN cycles : cycles[c].run # s
  BY <1>1, <1>4 DEF StatusFits
<1>5. CASE status = "paused"
  <2>1. PICK c \in DOMAIN cycles :
          /\ cycles[c].log = <<CostPause>> /\ cycles[c].done = 0
          /\ \A d \in DOMAIN cycles : cycles[d].run = s <=> d = c
    BY <1>5 DEF StatusFits
  <2>2. c \in DOMAIN cs /\ cs[c] = cycles[c]
    BY <1>2, <2>1
  <2>3. \A d \in DOMAIN cs : cs[d].run = s <=> d = c
    BY <1>1, <2>1, <2>2
  <2> QED  BY <1>5, <2>1, <2>2, <2>3 DEF StatusFits
<1>6. CASE status = "blocked"
  <2>1. /\ \E c \in DOMAIN cycles : cycles[c].run = s
        /\ \A c \in DOMAIN cycles :
             cycles[c].run = s => Ended(cycles[c].log, "blocked_evidence_or_authority")
    BY <1>6 DEF StatusFits
  <2>2. /\ \E c \in DOMAIN cs : cs[c].run = s
        /\ \A c \in DOMAIN cs :
             cs[c].run = s => Ended(cs[c].log, "blocked_evidence_or_authority")
    BY <1>1, <1>2, <2>1
  <2> QED  BY <1>6, <2>2 DEF StatusFits
<1> QED  BY <1>3, <1>4, <1>5, <1>6 DEF StatusFits

\* A run whose cycles had not ended that way, and one of whose cycles now has.
LEMMA FirstEnd ==
    ASSUME NEW cycles, NEW cs, NEW r, NEW o, NEW n \in DOMAIN cs,
           cs[n].run = r, Ended(cs[n].log, o),
           \A c \in DOMAIN cs : c # n => c \in DOMAIN cycles /\ cs[c] = cycles[c],
           \A c \in DOMAIN cycles : c # n /\ cycles[c].run = r => ~Ended(cycles[c].log, o)
    PROVE  OneEnds(cs, r, o)
  BY DEF OneEnds

\* A new cycle and the status it gives its run.
LEMMA NewCycleFits ==
    ASSUME NEW cycles \in Seq(Cycle), NEW x \in Cycle, NEW status,
           StatusFits(cycles, x.run, status)
    PROVE  LET cs == Append(cycles, x) IN
           /\ status = "created" /\ x.log = <<CostPause>> /\ x.done = 0 =>
                StatusFits(cs, x.run, "paused")
           /\ status \in {"created", "blocked"} /\ x.log = Whole("blocked_evidence_or_authority") =>
                StatusFits(cs, x.run, "blocked")
           /\ status \in {"created", "blocked"} /\ x.log = Whole("decision_recorded") =>
                StatusFits(cs, x.run, "completed")
           /\ status \in {"created", "paused", "blocked"} /\ x.log = <<Failure>> =>
                StatusFits(cs, x.run, "failed")
           /\ status = "failed" /\ x.log = <<>> => StatusFits(cs, x.run, "failed")
<1> DEFINE cs == Append(cycles, x)
           n == Len(cycles) + 1
           r == x.run
<1>1. /\ DOMAIN cs = DOMAIN cycles \cup {n} /\ n \notin DOMAIN cycles
      /\ cs[n] = x /\ \A c \in DOMAIN cycles : cs[c] = cycles[c]
  BY AppendedCycle
<1> HIDE DEF cs, n
<1>2. n \in DOMAIN cs /\ \A c \in DOMAIN cs : c # n => c \in DOMAIN cycles /\ cs[c] = cycles[c]
  BY <1>1
<1>3. ASSUME status = "created", x.log = <<CostPause>>, x.done = 0
      PROVE  StatusFits(cs, r, "paused")
  <2>1. \A d \in DOMAIN cs : cs[d].run = r <=> d = n
    BY <1>1, <1>2, <1>3 DEF StatusFits
  <2> QED  BY <1>1, <1>2, <1>3, <2>1 DEF StatusFits
<1>4. ASSUME status \in {"created", "blocked"}
      PROVE  \A c \in DOMAIN cycles :
               cycles[c].run = r => Ended(cycles[c].log, "blocked_evidence_or_authority")
  BY <1>4 DEF StatusFits
<1>5. ASSUME NEW log, Ended(log, "blocked_evidence_or_authority")
      PROVE  ~Ended(log, "decision_recorded") /\ ~Ended(log, "failed_infrastructure")
  BY <1>5 DEF Ended
<1>6. ASSUME status \in {"created", "blocked"}, x.log = Whole("blocked_evidence_or_authority")
      PROVE  StatusFits(cs, r, "blocked")
  <2>1. Ended(x.log, "blocked_evidence_or_authority")
    BY <1>6, EndedFacts DEF Verdicts
  <2>2. \A c \in DOMAIN cs : cs[c].run = r => Ended(cs[c].log, "blocked_evidence_or_authority")
    BY <1>1, <1>2, <1>4, <1>6, <2>1
  <2> QED  BY <1>1, <1>2, <2>2 DEF StatusFits
<1>7. ASSUME status \in {"created", "blocked"}, x.log = Whole("decision_recorded")
      PROVE  StatusFits(cs, r, "completed")
  <2>1. Ended(x.log, "decision_recorded")
    BY <1>7, EndedFacts DEF Verdicts
  <2>2. OneEnds(cs, r, "decision_recorded")
    BY <1>1, <1>2, <1>4, <1>5, <1>7, <2>1, FirstEnd
  <2> QED  BY <2>2 DEF StatusFits
<1>8. ASSUME status \in {"created", "paused", "blocked"}, x.log = <<Failure>>
      PROVE  StatusFits(cs, r, "failed")
  <2>1. Ended(x.log, "failed_infrastructure")
    BY <1>8, EndedFacts
  <2>2. \A c \in DOMAIN cycles : cycles[c].run = r => ~Ended(cycles[c].log, "failed_infrastructure")
    <3>1. CASE status \in {"created", "blocked"}
      BY <1>4, <1>5, <3>1
    <3>2. CASE status = "paused"
      <4>1. \A c \in DOMAIN cycles : cycles[c].run = r => cycles[c].log = <<CostPause>>
        BY <3>2 DEF StatusFits
      <4> QED  BY <4>1, EndedFacts DEF Ends
    <3> QED  BY <1>8, <3>1, <3>2
  <2>3. OneEnds(cs, r, "failed_infrastructure")
    BY <1>1, <1>2, <2>1, <2>2, FirstEnd
  <2> QED  BY <2>3 DEF StatusFits
<1>9. ASSUME status = "failed", x.log = <<>>
      PROVE  StatusFits(cs, r, "failed")
  <2>1. PICK c \in DOMAIN cycles :
          /\ cycles[c].run = r
          /\ \A d \in DOMAIN cycles :
               cycles[d].run = r => (Ended(cycles[d].log, "failed_infrastructure") <=> d = c)
    BY <1>9 DEF StatusFits, OneEnds
  <2>2. ~Ended(x.log, "failed_infrastructure")
    BY <1>9, EndedFacts
  <2>3. \A d \in DOMAIN cs : cs[d].run = r => (Ended(cs[d].log, "failed_infrastructure") <=> d = c)
    BY <1>1, <1>2, <2>1, <2>2
  <2>4. c \in DOMAIN cs /\ cs[c].run = r
    BY <1>1, <2>1
  <2> QED  BY <2>3, <2>4 DEF StatusFits, OneEnds
<1> QED  BY <1>3, <1>6, <1>7, <1>8, <1>9 DEF cs, r

\* The only cycle of a paused run, and the status its resumption gives.
LEMMA ContinuedCycleFits ==
    ASSUME NEW cycles \in Seq(Cycle), NEW x \in Cycle, NEW c \in DOMAIN cycles,
           x.run = cycles[c].run, StatusFits(cycles, x.run, "paused"),
           NEW o \in Verdicts, x.log = Resumed(o)
    PROVE  StatusFits([cycles EXCEPT ![c] = x], x.run,
                      IF o = "decision_recorded" THEN "completed" ELSE "blocked")
<1> DEFINE cs == [cycles EXCEPT ![c] = x]
<1>1. /\ DOMAIN cs = DOMAIN cycles /\ cs[c] = x
      /\ \A d \in DOMAIN cycles : d # c => cs[d] = cycles[d]
  OBVIOUS
<1> HIDE DEF cs
<1>2. \A d \in DOMAIN cycles : cycles[d].run = x.run <=> d = c
  BY DEF StatusFits
<1>3. Ended(x.log, o)
  BY EndedFacts
<1>4. CASE o = "decision_recorded"
  <2>1. \A d \in DOMAIN cs : cs[d].run = x.run => (Ended(cs[d].log, o) <=> d = c)
    BY <1>1, <1>2, <1>3
  <2>2. OneEnds(cs, x.run, o)
    BY <1>1, <2>1 DEF OneEnds
  <2> QED  BY <1>4, <2>2 DEF StatusFits, cs
<1>5. CASE o = "blocked_evidence_or_authority"
  <2>1. \A d \in DOMAIN cs : cs[d].run = x.run => Ended(cs[d].log, o)
    BY <1>1, <1>2, <1>3
  <2>2. StatusFits(cs, x.run, "blocked")
    BY <1>1, <1>5, <2>1 DEF StatusFits
  <2> QED  BY <1>5, <2>2 DEF cs
<1> QED  BY <1>4, <1>5 DEF Verdicts

-----------------------------------------------------------------------------
(* Executions.                                                             *)

\* What an execution has read when it commits.
LEMMA ExecuteReads ==
    ASSUME LoopInv, NEW w \in Workers, Execute(w)
    PROVE  LET t == txn[w] IN
           /\ t \in Call /\ t.snap \in Database /\ t.run \in LoopRuns /\ t.key \in Key
           /\ t.snap.cycles = db.cycles /\ t.snap.runs = db.runs /\ t.snap.decisions = db.decisions
           /\ Decides(t) => t.snap.policy = db.policy
           /\ RequestsAdvance(t.snap.requests, db.requests)
           /\ Executes(t) /\ ~Stopped(t.snap) /\ CanAppend(Target(t).log, NewEvents(t))
           /\ Resumes(t, db.cycles)
<1> DEFINE t == txn[w]
<1>1. t.phase = "open" /\ Executes(t) /\ CanAppend(Target(t).log, NewEvents(t))
      /\ ~Conflict(t, Decides(t))
  BY DEF Execute
<1>2. t \in Call
  BY <1>1, OpenCall DEF LoopInv
<1>3. t.snap \in Database /\ t.run \in LoopRuns /\ t.key \in Key
  BY <1>2 DEF Call
<1>4. SnapshotHolds(t) /\ Resumes(t, db.cycles)
  BY <1>1 DEF LoopInv, Snapshots, CallsNamed
<1>5. "loop" \notin t.stale /\ (Decides(t) => "policy" \notin t.stale)
  BY <1>1 DEF Conflict
<1>6. ~Stopped(t.snap)
  BY <1>1 DEF Executes, Startable, Resumable
<1> HIDE DEF t
<1>7. /\ t.snap.cycles = db.cycles /\ t.snap.runs = db.runs /\ t.snap.decisions = db.decisions
      /\ Decides(t) => t.snap.policy = db.policy
      /\ RequestsAdvance(t.snap.requests, db.requests)
  BY <1>4, <1>5 DEF SnapshotHolds
<1> QED  BY <1>1, <1>2, <1>3, <1>4, <1>6, <1>7 DEF t

\* An execution inserts a cycle for a run that is created or, once a request
\* was approved, blocked; or it continues the only cycle of a paused run.
Inserts(t) ==
    /\ db.runs[t.run] \in {"created", "blocked"}
    /\ TargetCycle(t) \notin DOMAIN db.cycles
    /\ Target(t) = [key |-> t.key, run |-> t.run, log |-> <<>>, done |-> 0]
    /\ t.key[1] = "resume" => db.runs[t.run] = "blocked"
    /\ db.runs[t.run] = "blocked" => ~t.snap.costStop /\ ~ApprovalBlocked(t.snap)
Continues(t) ==
    /\ db.runs[t.run] = "paused" /\ ~t.snap.costStop
    /\ TargetCycle(t) \in DOMAIN db.cycles
    /\ Target(t) = db.cycles[TargetCycle(t)]
    /\ Target(t).run = t.run /\ Target(t).log = <<CostPause>> /\ Target(t).done = 0
Verdict(t) ==
    IF DecisionEligible(t.snap) THEN "decision_recorded" ELSE "blocked_evidence_or_authority"

\* The events, and with them the status and the decision, of an execution.
LEMMA EventsFromStart ==
    ASSUME NEW t, ~Stopped(t.snap), DoneBefore(t) = 0
    PROVE  /\ Verdict(t) \in Verdicts
           /\ t.snap.costStop => /\ NewEvents(t) = <<CostPause>> /\ ~Decides(t)
                                 /\ StatusAfter(NewEvents(t)) = "paused"
                                 /\ LastEvent(NewEvents(t)).outcome \in Guards
           /\ ~t.snap.costStop =>
                /\ NewEvents(t) = Whole(Verdict(t))
                /\ Decides(t) <=> Verdict(t) = "decision_recorded"
                /\ StatusAfter(NewEvents(t)) =
                     IF Verdict(t) = "decision_recorded" THEN "completed" ELSE "blocked"
                /\ LastEvent(NewEvents(t)).outcome \notin Guards
<1>1. Verdict(t) \in Verdicts
  BY DEF Verdict, Verdicts
<1>2. NewEvents(t) = Walk(t.snap, 0)
  BY DEF NewEvents
<1>3. ASSUME t.snap.costStop
      PROVE  /\ NewEvents(t) = <<CostPause>> /\ ~Decides(t)
             /\ StatusAfter(NewEvents(t)) = "paused"
             /\ LastEvent(NewEvents(t)).outcome \in Guards
  <2>1. NewEvents(t) = <<CostPause>>
    BY <1>2, <1>3, WalkFromStart
  <2>2. LastEvent(<<CostPause>>).outcome = "paused_cost_stop" /\ <<CostPause>> # <<>>
    BY SingleFacts
  <2> QED  BY <2>1, <2>2 DEF Decides, StatusAfter, Guards
<1>4. ASSUME ~t.snap.costStop
      PROVE  /\ NewEvents(t) = Whole(Verdict(t))
             /\ Decides(t) <=> Verdict(t) = "decision_recorded"
             /\ StatusAfter(NewEvents(t)) =
                  IF Verdict(t) = "decision_recorded" THEN "completed" ELSE "blocked"
             /\ LastEvent(NewEvents(t)).outcome \notin Guards
  <2>1. NewEvents(t) = Whole(Verdict(t))
    BY <1>2, <1>4, WalkFromStart DEF Verdict
  <2>2. LastEvent(Whole(Verdict(t))).outcome = Verdict(t) /\ Whole(Verdict(t)) # <<>>
    BY <1>1, WholeFacts
  <2> QED  BY <1>1, <2>1, <2>2 DEF Decides, StatusAfter, Guards, Verdicts
<1> QED  BY <1>1, <1>3, <1>4

\* There is no third kind of execution: a key that names a cycle of a run that
\* is created or blocked is refused.
LEMMA ExecuteKinds ==
    ASSUME LoopInv, NEW w \in Workers, Execute(w)
    PROVE  DoneBefore(txn[w]) = 0 /\ (Inserts(txn[w]) \/ Continues(txn[w]))
<1> DEFINE t == txn[w]
           S == t.snap
           r == t.run
<1>1. /\ t \in Call /\ S \in Database /\ r \in LoopRuns /\ t.key \in Key
      /\ S.cycles = db.cycles /\ S.runs = db.runs
      /\ Executes(t) /\ ~Stopped(S) /\ CanAppend(Target(t).log, NewEvents(t))
      /\ Resumes(t, db.cycles)
  BY ExecuteReads
<1>2. StatusFits(db.cycles, r, db.runs[r])
  BY <1>1 DEF LoopInv, RunsFit
<1> HIDE DEF t
<1>3. t.key[1] = "start" \/ t.key[1] = "resume"
  BY <1>1 DEF Key
<1>4. db.cycles \in Seq(Cycle)
  BY <1>1 DEF Database
<1>5. t # NoCall
  BY <1>1 DEF Call, NoCall
<1>6. KeyOwned(t)
  BY <1>1 DEF Executes
<1>7. CASE t.key[1] = "resume" /\ db.runs[r] = "paused"
  <2>1. TargetCycle(t) = t.key[2] /\ t.key[2] \in DOMAIN db.cycles /\ db.cycles[t.key[2]].run = r
    BY <1>1, <1>5, <1>7 DEF TargetCycle, Resumes
  <2>2. db.cycles[t.key[2]].log = <<CostPause>> /\ db.cycles[t.key[2]].done = 0
    BY <1>2, <1>7, <2>1 DEF StatusFits
  <2>3. Target(t) = db.cycles[t.key[2]]
    BY <1>1, <2>1 DEF Target, CycleAt
  <2>4. ~S.costStop
    BY <1>1, <1>7 DEF Executes, Resumable
  <2>5. DoneBefore(t) = 0
    BY <1>1, <1>7, <2>2, <2>3 DEF DoneBefore
  <2> QED  BY <1>7, <2>1, <2>2, <2>3, <2>4, <2>5 DEF Continues, t
<1>8. CASE ~(t.key[1] = "resume" /\ db.runs[r] = "paused")
  <2> DEFINE c == CycleFor(S, t.key)
  <2>1. TargetCycle(t) = c /\ DoneBefore(t) = 0
    BY <1>1, <1>8 DEF TargetCycle, DoneBefore
  <2>2. /\ db.runs[r] \in {"created", "blocked"}
        /\ t.key[1] = "resume" => db.runs[r] = "blocked"
        /\ db.runs[r] = "blocked" => ~S.costStop /\ ~ApprovalBlocked(S)
    BY <1>1, <1>3, <1>8 DEF Executes, Startable, Resumable
  <2>3. c \in DOMAIN db.cycles => db.cycles[c].key = t.key
    BY <1>1, CycleForFacts
  <2>4. c \notin DOMAIN db.cycles
    <3>1. SUFFICES ASSUME c \in DOMAIN db.cycles PROVE FALSE
      OBVIOUS
    <3>2. db.cycles[c].run = r
      BY <1>1, <1>6, <2>3, <3>1 DEF KeyOwned
    <3>3. db.runs[r] = "blocked" /\ Ended(db.cycles[c].log, "blocked_evidence_or_authority")
      BY <1>2, <2>2, <3>1, <3>2 DEF StatusFits
    <3>4. Target(t) = db.cycles[c] /\ db.cycles[c] \in Cycle
      BY <1>1, <1>4, <2>1, <3>1 DEF Target, CycleAt
    <3>5. NewEvents(t) = Whole(Verdict(t)) /\ Verdict(t) \in Verdicts
      BY <1>1, <2>1, <2>2, <3>3, EventsFromStart
    <3>6. NewEvents(t) \in Seq(LoopEvent) /\ NewEvents(t) # <<>>
      BY <3>5, WholeFacts
    <3>7. db.cycles[c].log \in Seq(LoopEvent) /\ "blocked_evidence_or_authority" \in Ends
      BY <3>4 DEF Cycle, Ends
    <3> QED  BY <1>1, <3>3, <3>4, <3>6, <3>7, EndIsFinal
  <2>5. Target(t) = [key |-> t.key, run |-> r, log |-> <<>>, done |-> 0]
    BY <1>1, <2>1, <2>4 DEF Target, CycleAt
  <2> QED  BY <2>1, <2>2, <2>4, <2>5 DEF Inserts, t
<1> QED  BY <1>7, <1>8

\* The decision an execution records is the next one and fits.
LEMMA DecisionRight ==
    ASSUME LoopInv, NEW w \in Workers, Execute(w), Decides(txn[w]), NEW cycles,
           NewDecision(txn[w]).cycle \in DOMAIN cycles,
           cycles[NewDecision(txn[w]).cycle].run = txn[w].run
    PROVE  /\ NewDecision(txn[w]).prev = Len(db.decisions)
           /\ DecisionFits(NewDecision(txn[w]), cycles,
                           [db.runs EXCEPT ![txn[w].run] = "completed"], db.requests, db.policy)
<1> DEFINE t == txn[w]
           S == t.snap
           d == NewDecision(t)
<1>1. /\ t \in Call /\ S \in Database /\ t.run \in LoopRuns
      /\ S.decisions = db.decisions /\ S.policy = db.policy
      /\ RequestsAdvance(S.requests, db.requests) /\ ~Stopped(S)
  BY ExecuteReads
<1>2. DecisionEligible(S)
  <2>1. DoneBefore(t) = 0
    BY ExecuteKinds
  <2>2. Verdict(t) = "decision_recorded"
    BY <1>1, <2>1, EventsFromStart
  <2> QED  BY <2>2 DEF Verdict
<1>3. /\ d.latch = S.latch /\ d.request = Len(S.requests) /\ d.stamp = S.policy.stamp
      /\ d.prev = Len(S.decisions)
  BY DEF NewDecision
<1> HIDE DEF t, d
<1>4. db \in Database
  BY DEF LoopInv, TypeOK
<1>5. S.requests \in Seq(Preapproval) /\ db.requests \in Seq(Preapproval)
  BY <1>1, <1>4 DEF Database
<1>6. d.request \in DOMAIN S.requests /\ Decided(S.requests[d.request])
  <2>1. S.requests # <<>> /\ S.requests[Len(S.requests)].status = "approved"
    BY <1>2 DEF DecisionEligible, GateEligible, LatestRequest
  <2>2. Len(S.requests) \in DOMAIN S.requests
    BY <1>5, <2>1, EmptySeq, LenProperties
  <2> QED  BY <1>3, <2>1, <2>2 DEF Decided
<1>7. d.request \in DOMAIN db.requests /\ Decided(db.requests[d.request])
  BY <1>1, <1>5, <1>6, DecidedStays
<1>8. d.latch % 2 # 1
  BY <1>1, <1>3 DEF Stopped
<1>9. d.stamp <= db.policy.stamp /\ db.policy.permits
  <2>1. db.policy.stamp \in Nat
    BY <1>4 DEF Database
  <2> QED  BY <1>1, <1>2, <1>3, <2>1 DEF DecisionEligible
<1>10. [db.runs EXCEPT ![t.run] = "completed"][t.run] = "completed"
  BY <1>1, <1>4 DEF Database
<1> QED  BY <1>1, <1>3, <1>7, <1>8, <1>9, <1>10 DEF DecisionFits, t, d

\* A cycle an execution inserts.
LEMMA InsertKeeps ==
    ASSUME LoopInv, NEW w \in Workers, Execute(w), Inserts(txn[w]), DoneBefore(txn[w]) = 0
    PROVE  LoopInv'
<1> DEFINE t == txn[w]
           S == t.snap
           r == t.run
           new == NewEvents(t)
           x == Written(t)
           cycles == Append(db.cycles, x)
           n == Len(db.cycles) + 1
           status == StatusAfter(new)
           decisions == IF Decides(t) THEN Append(db.decisions, NewDecision(t)) ELSE db.decisions
<1>1. /\ t \in Call /\ S \in Database /\ r \in LoopRuns /\ t.key \in Key
      /\ S.cycles = db.cycles /\ RequestsAdvance(S.requests, db.requests) /\ ~Stopped(S)
  BY ExecuteReads
<1>2. TypeOK /\ db \in Database /\ db.cycles \in Seq(Cycle)
  BY DEF LoopInv, TypeOK, Database
<1>3. /\ TypeOK' /\ NewDecision(t) \in Decision
      /\ CommitLoop(w, PutCycle(t, TargetCycle(t), x), r, status, decisions)
  BY <1>2, ExecuteTyped
<1>4. PutCycle(t, TargetCycle(t), x) = cycles
  BY <1>1 DEF PutCycle, Inserts
<1>5. /\ Verdict(t) \in Verdicts
      /\ S.costStop => new = <<CostPause>> /\ ~Decides(t) /\ status = "paused"
                       /\ LastEvent(new).outcome \in Guards
      /\ ~S.costStop =>
           /\ new = Whole(Verdict(t))
           /\ Decides(t) <=> Verdict(t) = "decision_recorded"
           /\ status = IF Verdict(t) = "decision_recorded" THEN "completed" ELSE "blocked"
           /\ LastEvent(new).outcome \notin Guards
  BY <1>1, EventsFromStart
<1>6. new \in Seq(LoopEvent)
  BY <1>1, ExecutionTyped
<1>7. /\ x.key = t.key /\ x.run = r /\ x.log = new /\ x \in Cycle
      /\ S.costStop => x.done = 0
  <2>1. <<>> \o new = new
    BY <1>6, ConcatEmptySeq
  <2>2. Target(t) = [key |-> t.key, run |-> r, log |-> <<>>, done |-> 0]
    BY DEF Inserts
  <2> DEFINE done == IF LastEvent(new).outcome \in Guards THEN 0 ELSE Stages
  <2>3. x = [key |-> t.key, run |-> r, log |-> new, done |-> done]
    <3>1. x = [Target(t) EXCEPT !.log = <<>> \o new, !.done = done]
      BY <2>2 DEF Written
    <3> HIDE DEF x, new, done, t
    <3>2. x = [[key |-> t.key, run |-> r, log |-> <<>>, done |-> 0]
                 EXCEPT !.log = new, !.done = done]
      BY <2>1, <2>2, <3>1, Zenon
    <3> QED  BY <3>2
  <2>4. done \in 0..Stages /\ (S.costStop => done = 0)
    BY <1>5 DEF Stages
  <2> HIDE DEF x, new, done, t
  <2> QED  BY <1>1, <1>6, <2>3, <2>4 DEF Cycle
<1>8. StatusFits(db.cycles, r, db.runs[r])
  BY <1>1 DEF LoopInv, RunsFit
<1>9. /\ db.runs[r] \in {"created", "blocked"} /\ (t.key[1] = "resume" => db.runs[r] = "blocked")
      /\ db.runs[r] = "blocked" => ~S.costStop /\ ~ApprovalBlocked(S)
  BY DEF Inserts
<1>10. TargetCycle(t) \notin DOMAIN S.cycles
  BY <1>1 DEF Inserts
<1>11. NewDecision(t).cycle = n
  BY <1>10 DEF NewDecision
<1> HIDE DEF t, x, new, status, n
<1>12. /\ DOMAIN cycles = DOMAIN db.cycles \cup {n} /\ n \notin DOMAIN db.cycles
       /\ cycles[n] = x /\ \A c \in DOMAIN db.cycles : cycles[c] = db.cycles[c]
  BY <1>2, <1>7, AppendedCycle DEF n
<1>13. StatusFits(cycles, r, status)
  <2>1. LET cs == Append(db.cycles, x) IN
        /\ db.runs[r] = "created" /\ x.log = <<CostPause>> /\ x.done = 0 =>
             StatusFits(cs, r, "paused")
        /\ db.runs[r] \in {"created", "blocked"} /\ x.log = Whole("blocked_evidence_or_authority") =>
             StatusFits(cs, r, "blocked")
        /\ db.runs[r] \in {"created", "blocked"} /\ x.log = Whole("decision_recorded") =>
             StatusFits(cs, r, "completed")
    BY <1>2, <1>7, <1>8, NewCycleFits
  <2> HIDE DEF cycles
  <2>2. CASE S.costStop
    BY <1>5, <1>7, <1>9, <2>1, <2>2 DEF cycles
  <2>3. CASE ~S.costStop /\ Verdict(t) = "decision_recorded"
    BY <1>5, <1>7, <1>9, <2>1, <2>3 DEF cycles
  <2>4. CASE ~S.costStop /\ Verdict(t) = "blocked_evidence_or_authority"
    BY <1>5, <1>7, <1>9, <2>1, <2>4 DEF cycles
  <2> QED  BY <1>5, <2>2, <2>3, <2>4 DEF Verdicts
<1> HIDE DEF cycles
<1>14. \A s \in LoopRuns \ {r} : StatusFits(cycles, s, db.runs[s])
  <2> TAKE s \in LoopRuns \ {r}
  <2>1. StatusFits(db.cycles, s, db.runs[s])
    BY DEF LoopInv, RunsFit
  <2> QED  BY <1>7, <1>12, <2>1, OtherRunsFit
<1>15. CycleFits(x, db.requests)
  <2>1. LogShape(x.log)
    BY <1>5, <1>7 DEF LogShape
  <2>2. ASSUME t.key[1] = "resume" PROVE \E i \in DOMAIN db.requests : Decided(db.requests[i])
    <3>1. ~ApprovalBlocked(S)
      BY <1>9, <2>2
    <3>2. S.requests \in Seq(Preapproval) /\ db.requests \in Seq(Preapproval)
      BY <1>1, <1>2 DEF Database
    <3>3. S.requests # <<>> /\ Decided(S.requests[Len(S.requests)])
      BY <3>1 DEF ApprovalBlocked, LatestRequest, Decided
    <3>4. Len(S.requests) \in DOMAIN S.requests
      BY <3>2, <3>3, EmptySeq, LenProperties
    <3> QED  BY <1>1, <3>2, <3>3, <3>4, DecidedStays
  <2> QED  BY <1>7, <2>1, <2>2 DEF CycleFits
<1>16. \A c \in DOMAIN cycles : CycleFits(cycles[c], db.requests)
  BY <1>12, <1>15 DEF LoopInv, CyclesFit
<1>17. \/ decisions = db.decisions
       \/ \E d \in Decision :
            /\ decisions = Append(db.decisions, d) /\ d.prev = Len(db.decisions)
            /\ cycles[d.cycle].run = r
            /\ DecisionFits(d, cycles, [db.runs EXCEPT ![r] = status], db.requests, db.policy)
  <2>1. CASE ~Decides(t)
    BY <2>1
  <2>2. CASE Decides(t)
    <3>1. status = "completed"
      BY <1>5, <2>2
    <3>2. NewDecision(t).cycle \in DOMAIN cycles /\ cycles[NewDecision(t).cycle].run = r
      BY <1>7, <1>11, <1>12
    <3>3. /\ NewDecision(t).prev = Len(db.decisions)
          /\ DecisionFits(NewDecision(t), cycles, [db.runs EXCEPT ![r] = "completed"],
                          db.requests, db.policy)
      BY <2>2, <3>2, DecisionRight DEF t
    <3> QED  BY <1>3, <2>2, <3>1, <3>2, <3>3
  <2> QED  BY <2>1, <2>2
<1> HIDE DEF decisions
<1>18. CommitLoop(w, cycles, r, status, decisions)
  BY <1>3, <1>4
<1>19. db.runs[r] # "completed"
  BY <1>9
<1>20. \A c \in DOMAIN db.cycles : c \in DOMAIN cycles /\ cycles[c].run = db.cycles[c].run
  BY <1>12
<1> QED  BY <1>1, <1>3, <1>13, <1>14, <1>16, <1>17, <1>18, <1>19, <1>20, CommitKeeps

\* The cycle of a paused run that an execution continues.
LEMMA ContinueKeeps ==
    ASSUME LoopInv, NEW w \in Workers, Execute(w), Continues(txn[w]), DoneBefore(txn[w]) = 0
    PROVE  LoopInv'
<1> DEFINE t == txn[w]
           S == t.snap
           r == t.run
           new == NewEvents(t)
           x == Written(t)
           c == TargetCycle(t)
           cycles == [db.cycles EXCEPT ![c] = x]
           status == StatusAfter(new)
           decisions == IF Decides(t) THEN Append(db.decisions, NewDecision(t)) ELSE db.decisions
<1>1. /\ t \in Call /\ S \in Database /\ r \in LoopRuns
      /\ S.cycles = db.cycles /\ ~Stopped(S)
  BY ExecuteReads
<1>2. TypeOK /\ db \in Database /\ db.cycles \in Seq(Cycle)
  BY DEF LoopInv, TypeOK, Database
<1>3. /\ TypeOK' /\ NewDecision(t) \in Decision
      /\ CommitLoop(w, PutCycle(t, c, x), r, status, decisions)
  BY <1>2, ExecuteTyped
<1>4. /\ db.runs[r] = "paused" /\ ~S.costStop /\ c \in DOMAIN db.cycles
      /\ Target(t) = db.cycles[c] /\ db.cycles[c].run = r /\ db.cycles[c].log = <<CostPause>>
  BY DEF Continues
<1>5. PutCycle(t, c, x) = cycles /\ NewDecision(t).cycle = c
  BY <1>1, <1>4 DEF PutCycle, NewDecision
<1>6. /\ Verdict(t) \in Verdicts /\ new = Whole(Verdict(t))
      /\ Decides(t) <=> Verdict(t) = "decision_recorded"
      /\ status = IF Verdict(t) = "decision_recorded" THEN "completed" ELSE "blocked"
  BY <1>1, <1>4, EventsFromStart
<1>7. db.cycles[c] \in Cycle
  BY <1>2, <1>4
<1>8. /\ x.key = db.cycles[c].key /\ x.run = r /\ x.log = Resumed(Verdict(t)) /\ x \in Cycle
  <2> DEFINE done == IF LastEvent(new).outcome \in Guards THEN db.cycles[c].done ELSE Stages
             log == <<CostPause>> \o new
  <2>1. x = [db.cycles[c] EXCEPT !.log = log, !.done = done]
    BY <1>4 DEF Written
  <2>2. log = Resumed(Verdict(t)) /\ log \in Seq(LoopEvent)
    BY <1>6, ResumedFacts DEF Resumed
  <2>3. done \in 0..Stages
    BY <1>7 DEF Stages, Cycle
  <2> HIDE DEF x, new, done, log, t, c
  <2> QED  BY <1>4, <1>7, <2>1, <2>2, <2>3 DEF Cycle
<1> HIDE DEF t, x, new, status, c
<1>9. /\ DOMAIN cycles = DOMAIN db.cycles /\ cycles[c] = x
      /\ \A d \in DOMAIN db.cycles : d # c => cycles[d] = db.cycles[d]
  BY <1>4
<1>10. StatusFits(db.cycles, r, "paused")
  BY <1>1, <1>4 DEF LoopInv, RunsFit
<1>11. StatusFits(cycles, r, status)
  BY <1>2, <1>4, <1>6, <1>8, <1>10, ContinuedCycleFits
<1> HIDE DEF cycles
<1>12. \A d \in DOMAIN db.cycles : d \in DOMAIN cycles /\ cycles[d].run = db.cycles[d].run
  BY <1>4, <1>8, <1>9
<1>13. \A s \in LoopRuns \ {r} : StatusFits(cycles, s, db.runs[s])
  <2> TAKE s \in LoopRuns \ {r}
  <2>1. StatusFits(db.cycles, s, db.runs[s])
    BY DEF LoopInv, RunsFit
  <2>2. \A d \in DOMAIN db.cycles : db.cycles[d].run # r => cycles[d] = db.cycles[d]
    BY <1>4, <1>9
  <2> QED  BY <1>9, <1>12, <2>1, <2>2, OtherRunsFit
<1>14. CycleFits(x, db.requests)
  <2>1. LogShape(x.log)
    BY <1>6, <1>8 DEF LogShape
  <2>2. CycleFits(db.cycles[c], db.requests)
    BY <1>4 DEF LoopInv, CyclesFit
  <2>3. <<CostPause>> # <<>> /\ LastEvent(<<CostPause>>) # Failure
    BY SingleFacts
  <2> QED  BY <1>4, <1>8, <2>1, <2>2, <2>3 DEF CycleFits
<1>15. \A d \in DOMAIN cycles : CycleFits(cycles[d], db.requests)
  BY <1>9, <1>14 DEF LoopInv, CyclesFit
<1>16. \/ decisions = db.decisions
       \/ \E d \in Decision :
            /\ decisions = Append(db.decisions, d) /\ d.prev = Len(db.decisions)
            /\ cycles[d.cycle].run = r
            /\ DecisionFits(d, cycles, [db.runs EXCEPT ![r] = status], db.requests, db.policy)
  <2>1. CASE ~Decides(t)
    BY <2>1
  <2>2. CASE Decides(t)
    <3>1. status = "completed"
      BY <1>6, <2>2
    <3>2. NewDecision(t).cycle \in DOMAIN cycles /\ cycles[NewDecision(t).cycle].run = r
      BY <1>4, <1>5, <1>8, <1>9
    <3>3. /\ NewDecision(t).prev = Len(db.decisions)
          /\ DecisionFits(NewDecision(t), cycles, [db.runs EXCEPT ![r] = "completed"],
                          db.requests, db.policy)
      BY <2>2, <3>2, DecisionRight DEF t
    <3> QED  BY <1>3, <2>2, <3>1, <3>2, <3>3
  <2> QED  BY <2>1, <2>2
<1> HIDE DEF decisions
<1>17. CommitLoop(w, cycles, r, status, decisions)
  BY <1>3, <1>5
<1>18. db.runs[r] # "completed"
  BY <1>4
<1> QED  BY <1>1, <1>3, <1>11, <1>12, <1>13, <1>15, <1>16, <1>17, <1>18, CommitKeeps

\* Every execution keeps the invariant.
LEMMA ExecuteKeeps ==
    ASSUME LoopInv, NEW w \in Workers, Execute(w)
    PROVE  LoopInv'
  BY ExecuteKinds, InsertKeeps, ContinueKeeps

-----------------------------------------------------------------------------
(* Failure records.                                                        *)

\* A commit of a failure record that leaves the cycles as they were.
LEMMA ReplayKeeps ==
    ASSUME LoopInv, TypeOK', NEW w \in Workers, NEW r \in LoopRuns, db.runs[r] = "failed",
           CommitLoop(w, db.cycles, r, "failed", db.decisions)
    PROVE  LoopInv'
<1>1. \A s \in LoopRuns : StatusFits(db.cycles, s, db.runs[s])
  BY DEF LoopInv, RunsFit
<1>2. \A c \in DOMAIN db.cycles : CycleFits(db.cycles[c], db.requests)
  BY DEF LoopInv, CyclesFit
<1>3. StatusFits(db.cycles, r, "failed") /\ db.runs[r] # "completed"
  BY <1>1
<1>4. \A c \in DOMAIN db.cycles : c \in DOMAIN db.cycles /\ db.cycles[c].run = db.cycles[c].run
  OBVIOUS
<1>5. \A s \in LoopRuns \ {r} : StatusFits(db.cycles, s, db.runs[s])
  BY <1>1
<1> QED  BY <1>2, <1>3, <1>4, <1>5, CommitKeeps

\* A commit of a failure record that inserts a cycle.
LEMMA FailureKeeps ==
    ASSUME LoopInv, TypeOK', NEW w \in Workers, NEW r \in LoopRuns, NEW x \in Cycle, x.run = r,
           \/ db.runs[r] \in {"created", "paused", "blocked"} /\ x.log = <<Failure>>
           \/ db.runs[r] = "failed" /\ x.log = <<>>,
           CommitLoop(w, Append(db.cycles, x), r, "failed", db.decisions)
    PROVE  LoopInv'
<1> DEFINE cycles == Append(db.cycles, x)
           n == Len(db.cycles) + 1
<1>1. db.cycles \in Seq(Cycle)
  BY DEF LoopInv, TypeOK, Database
<1>2. /\ DOMAIN cycles = DOMAIN db.cycles \cup {n} /\ n \notin DOMAIN db.cycles
      /\ cycles[n] = x /\ \A c \in DOMAIN db.cycles : cycles[c] = db.cycles[c]
  BY <1>1, AppendedCycle
<1>3. StatusFits(db.cycles, r, db.runs[r])
  BY DEF LoopInv, RunsFit
<1>4. StatusFits(cycles, r, "failed")
  BY <1>1, <1>3, NewCycleFits
<1>5. CommitLoop(w, cycles, r, "failed", db.decisions)
  OBVIOUS
<1> HIDE DEF cycles, n
<1>6. \A s \in LoopRuns \ {r} : StatusFits(cycles, s, db.runs[s])
  <2> TAKE s \in LoopRuns \ {r}
  <2>1. StatusFits(db.cycles, s, db.runs[s])
    BY DEF LoopInv, RunsFit
  <2> QED  BY <1>2, <2>1, OtherRunsFit
<1>7. CycleFits(x, db.requests)
  BY SingleFacts DEF CycleFits, LogShape
<1>8. \A c \in DOMAIN cycles : CycleFits(cycles[c], db.requests)
  BY <1>2, <1>7 DEF LoopInv, CyclesFit
<1>9. \A c \in DOMAIN db.cycles : c \in DOMAIN cycles /\ cycles[c].run = db.cycles[c].run
  BY <1>2
<1> QED  BY <1>4, <1>5, <1>6, <1>8, <1>9, CommitKeeps

\* The record of a failure keeps the invariant: it is the whole log of a cycle
\* of its own.
LEMMA PersistKeeps ==
    ASSUME LoopInv, NEW w \in Workers, Persist(w)
    PROVE  LoopInv'
<1> DEFINE t == txn[w]
           S == t.snap
           r == t.run
           c == CycleFor(S, t.key)
           old == FailedCycle(t)
<1>1. TypeOK /\ db \in Database /\ db.cycles \in Seq(Cycle)
  BY DEF LoopInv, TypeOK, Database
<1>2. /\ TypeOK' /\ t \in Call
      /\ \/ /\ S.runs[r] = "failed" /\ KeyOwned(t)
            /\ CommitLoop(w, PutCycle(t, c, old), r, "failed", db.decisions)
         \/ /\ S.runs[r] # "failed" /\ Recordable(t)
            /\ CommitLoop(w, PutCycle(t, c, WithFailure(t)), r, "failed", db.decisions)
  BY <1>1, PersistTyped
<1>3. S \in Database /\ r \in LoopRuns /\ t.key \in Key
  BY <1>2 DEF Call
<1>4. S.cycles = db.cycles /\ S.runs = db.runs
  <2>1. t.phase = "persisting" /\ "loop" \notin t.stale
    BY DEF Persist, Conflict
  <2> QED  BY <2>1 DEF LoopInv, Snapshots, SnapshotHolds
<1>5. StatusFits(db.cycles, r, db.runs[r])
  BY <1>3 DEF LoopInv, RunsFit
<1> HIDE DEF t
<1>6. /\ c \in DOMAIN db.cycles => db.cycles[c].key = t.key
      /\ c \in DOMAIN db.cycles => old = db.cycles[c]
      /\ c \notin DOMAIN db.cycles => old = [key |-> t.key, run |-> r, log |-> <<>>, done |-> 0]
      /\ old \in Cycle
  BY <1>3, <1>4, CycleForFacts, CycleAtTyped DEF FailedCycle, CycleAt
<1>7. /\ KeyOwned(t)
      /\ c \in DOMAIN db.cycles => db.cycles[c].run = r
  <2>1. KeyOwned(t)
    BY <1>2 DEF Recordable
  <2> QED  BY <1>4, <1>6, <2>1 DEF KeyOwned
<1> HIDE DEF c, old
<1>8. CASE S.runs[r] = "failed" /\ c \in DOMAIN db.cycles
  <2>1. PutCycle(t, c, old) = [db.cycles EXCEPT ![c] = db.cycles[c]]
    BY <1>4, <1>6, <1>8 DEF PutCycle
  <2>2. [db.cycles EXCEPT ![c] = db.cycles[c]] = db.cycles
    BY <1>1, <1>8
  <2> QED  BY <1>2, <1>3, <1>4, <1>8, <2>1, <2>2, ReplayKeeps
<1>9. CASE S.runs[r] = "failed" /\ c \notin DOMAIN db.cycles
  <2>1. PutCycle(t, c, old) = Append(db.cycles, old)
    BY <1>4, <1>9 DEF PutCycle
  <2>2. old.run = r /\ old.log = <<>>
    BY <1>6, <1>9
  <2> QED  BY <1>2, <1>3, <1>4, <1>6, <1>9, <2>1, <2>2, FailureKeeps
<1>10. CASE S.runs[r] # "failed"
  <2>1. /\ CanAppend(old.log, <<Failure>>) /\ db.runs[r] # "completed"
        /\ CommitLoop(w, PutCycle(t, c, WithFailure(t)), r, "failed", db.decisions)
    BY <1>2, <1>4, <1>10 DEF Recordable, old, FailedCycle
  <2>2. db.runs[r] \in {"created", "paused", "blocked"}
    BY <1>4, <1>5, <1>10, <2>1 DEF StatusFits
  <2>3. c \notin DOMAIN db.cycles
    <3>1. SUFFICES ASSUME c \in DOMAIN db.cycles PROVE FALSE
      OBVIOUS
    <3>2. old = db.cycles[c] /\ db.cycles[c].run = r /\ old.log \in Seq(LoopEvent)
      BY <1>6, <1>7, <3>1 DEF Cycle
    <3>3. CASE db.runs[r] = "created"
      BY <1>5, <3>1, <3>2, <3>3 DEF StatusFits
    <3>4. CASE db.runs[r] = "paused"
      <4>1. old.log = <<CostPause>>
        BY <1>5, <3>1, <3>2, <3>4 DEF StatusFits
      <4> QED  BY <2>1, <4>1, PauseRefusesFailure
    <3>5. CASE db.runs[r] = "blocked"
      <4>1. Ended(old.log, "blocked_evidence_or_authority")
        BY <1>5, <3>1, <3>2, <3>5 DEF StatusFits
      <4>2. <<Failure>> \in Seq(LoopEvent) /\ <<Failure>> # <<>>
        BY SingleFacts
      <4>3. "blocked_evidence_or_authority" \in Ends
        BY DEF Ends
      <4> QED  BY <2>1, <3>2, <4>1, <4>2, <4>3, EndIsFinal
    <3> QED  BY <2>2, <3>3, <3>4, <3>5
  <2>4. PutCycle(t, c, WithFailure(t)) = Append(db.cycles, WithFailure(t))
    BY <1>4, <2>3 DEF PutCycle
  <2> DEFINE x == [key |-> t.key, run |-> r, log |-> <<Failure>>, done |-> 0]
  <2>5. WithFailure(t) = x
    <3>1. WithFailure(t) = [old EXCEPT !.log = Append(@, Failure)]
      BY DEF WithFailure, old
    <3>2. Append(<<>>, Failure) = <<Failure>>
      OBVIOUS
    <3>3. WithFailure(t) = [[key |-> t.key, run |-> r, log |-> <<>>, done |-> 0]
                              EXCEPT !.log = <<Failure>>]
      BY <1>6, <2>3, <3>1, <3>2
    <3> QED  BY <3>3
  <2>6. x \in Cycle
    <3>1. <<Failure>> \in Seq(LoopEvent) /\ 0 \in 0..Stages
      BY SingleFacts DEF Stages
    <3> QED  BY <1>3, <3>1 DEF Cycle
  <2>7. x.run = r /\ x.log = <<Failure>>
    OBVIOUS
  <2>8. CommitLoop(w, Append(db.cycles, x), r, "failed", db.decisions)
    BY <2>1, <2>4, <2>5
  <2> HIDE DEF x
  <2> QED  BY <1>2, <1>3, <2>2, <2>6, <2>7, <2>8, FailureKeeps
<1> QED  BY <1>8, <1>9, <1>10

-----------------------------------------------------------------------------
(* The theorems.                                                           *)

\* The invariant holds in every reachable state.
THEOREM LoopInvariant == Spec => []LoopInv
<1>1. Init => LoopInv
  <2> SUFFICES ASSUME Init PROVE LoopInv
    OBVIOUS
  <2>1. PICK gates \in BOOLEAN :
          db = [latch |-> 0, costStop |-> FALSE, gates |-> gates,
                policy |-> [stamp |-> 0, permits |-> TRUE], requests |-> <<>>,
                runs |-> [r \in LoopRuns |-> "created"], cycles |-> <<>>, decisions |-> <<>>]
    BY DEF Init
  <2>2. /\ db.requests = <<>> /\ db.cycles = <<>> /\ db.decisions = <<>>
        /\ db.runs = [r \in LoopRuns |-> "created"]
        /\ db.latch = 0 /\ db.costStop = FALSE /\ db.gates = gates
        /\ db.policy = [stamp |-> 0, permits |-> TRUE]
    BY <2>1
  <2>3. \A w \in Workers : txn[w] = NoCall
    BY DEF Init
  <2>4. DOMAIN <<>> = {}
    OBVIOUS
  <2>5. TypeOK
    <3>1. /\ <<>> \in Seq(Preapproval) /\ <<>> \in Seq(Cycle) /\ <<>> \in Seq(Decision)
          /\ [r \in LoopRuns |-> "created"] \in [LoopRuns -> LoopStatus]
          /\ [stamp |-> 0, permits |-> TRUE] \in [stamp : Nat, permits : BOOLEAN]
      BY DEF LoopStatus
    <3> QED  BY <2>1, <3>1 DEF Init, TypeOK, Database
  <2>6. Snapshots /\ CallsNamed
    BY <2>3 DEF Snapshots, CallsNamed, Resumes, NoCall
  <2>7. CyclesFit /\ RunsFit /\ DecisionsFit /\ DecisionChainLinear /\ NewestStands(db.requests)
    BY <2>2, <2>4 DEF CyclesFit, RunsFit, StatusFits, DecisionsFit, DecisionChainLinear, NewestStands
  <2> QED  BY <2>5, <2>6, <2>7 DEF LoopInv
<1>2. LoopInv /\ [Next]_vars => LoopInv'
  <2> SUFFICES ASSUME LoopInv, [Next]_vars PROVE LoopInv'
    OBVIOUS
  <2>1. CASE UNCHANGED vars
    BY <2>1 DEF vars, LoopInv, TypeOK, Snapshots, SnapshotHolds, CallsNamed, CyclesFit, RunsFit,
                DecisionsFit, DecisionChainLinear
  <2> QED  BY <2>1, LoopSteps, EnvironmentKeeps, QuietKeeps, ExecuteKeeps, PersistKeeps
<1> QED  BY <1>1, <1>2, PTL DEF Spec

\* The decisions of a project are one chain, with at most one decision of a
\* run, however many workers decide at once.
THEOREM OneChainOfDecisions == Spec => []DecisionChainLinear
<1>1. LoopInv => DecisionChainLinear
  BY DEF LoopInv
<1> QED  BY <1>1, LoopInvariant, PTL

\* What current_decision returns was decided with the latch armed as it is
\* now, under the permitting policy and on the newest, once approved, request.
THEOREM CurrentDecisionIsSound == Spec => []CurrentDecisionHolds
<1>1. LoopInv => CurrentDecisionHolds
  <2> SUFFICES ASSUME LoopInv, NEW i \in DOMAIN db.decisions, CurrentDecision(i)
               PROVE  /\ ~Stopped(db) /\ db.policy.permits
                      /\ LatestRequest(db).status \in {"approved", "revoked"}
                      /\ db.runs[db.cycles[db.decisions[i].cycle].run] = "completed"
    BY DEF CurrentDecisionHolds
  <2> DEFINE d == db.decisions[i]
  <2>1. DecisionFits(d, db.cycles, db.runs, db.requests, db.policy)
    BY DEF LoopInv, DecisionsFit
  <2>2. /\ d.request = Len(db.requests) /\ d.latch = db.latch /\ d.stamp = db.policy.stamp
        /\ db.requests[d.request].status # "expired"
    BY DEF CurrentDecision
  <2> HIDE DEF d
  <2>3. db.requests \in Seq(Preapproval)
    BY DEF LoopInv, TypeOK, Database
  <2>4. d.request \in DOMAIN db.requests /\ Decided(db.requests[d.request])
    BY <2>1 DEF DecisionFits
  <2>5. db.requests # <<>> /\ LatestRequest(db) = db.requests[d.request]
    BY <2>2, <2>4 DEF LatestRequest
  <2>6. db.requests[d.request].status # "superseded"
    BY <2>2, <2>5 DEF LoopInv, NewestStands
  <2>7. db.requests[d.request].status \in RequestStatus
    <3>1. db.requests[d.request] \in Preapproval
      BY <2>3, <2>4
    <3> QED  BY <3>1 DEF Preapproval
  <2>8. LatestRequest(db).status \in {"approved", "revoked"}
    BY <2>2, <2>4, <2>5, <2>6, <2>7 DEF Decided, RequestStatus
  <2>9. ~Stopped(db) /\ db.policy.permits
    BY <2>1, <2>2 DEF DecisionFits, Stopped
  <2> QED  BY <2>1, <2>8, <2>9 DEF DecisionFits, d
<1> QED  BY <1>1, LoopInvariant, PTL

\* A decision is recorded only under the autonomy policy that is current at its
\* commit, and that permits it.
THEOREM DecisionsHeedThePolicy == Spec => DecisionUnderCurrentPolicy
<1>1. LoopInv /\ [Next]_vars =>
        [\A i \in DOMAIN db'.decisions \ DOMAIN db.decisions :
           db'.decisions[i].stamp = db.policy.stamp /\ db.policy.permits]_vars
  <2> SUFFICES ASSUME LoopInv, Next,
                      NEW i \in DOMAIN db'.decisions, i \notin DOMAIN db.decisions
               PROVE  db'.decisions[i].stamp = db.policy.stamp /\ db.policy.permits
    OBVIOUS
  <2>1. TypeOK /\ db \in Database /\ db.decisions \in Seq(Decision)
    BY DEF LoopInv, TypeOK, Database
  <2>2. ~UNCHANGED vars
    BY DEF vars
  <2>3. db'.decisions # db.decisions
    OBVIOUS
  <2>4. ~Environment
    BY <2>1, <2>3, EnvironmentStep
  <2>5. PICK w \in Workers : QuietStep(w) \/ Execute(w) \/ Persist(w)
    BY <2>2, <2>4, LoopSteps
  <2>6. ~QuietStep(w)
    BY <2>1, <2>3, QuietEffect
  <2>7. ~Persist(w)
    <3>1. SUFFICES ASSUME Persist(w) PROVE db'.decisions = db.decisions
      BY <2>3
    <3>2. \E cycles, r : CommitLoop(w, cycles, r, "failed", db.decisions)
      BY <2>1, <3>1, PersistTyped
    <3> QED  BY <2>1, <3>2 DEF CommitLoop, Database
  <2>8. Execute(w)
    BY <2>5, <2>6, <2>7
  <2> DEFINE t == txn[w]
             d == NewDecision(t)
  <2>9. db'.decisions = IF Decides(t) THEN Append(db.decisions, d) ELSE db.decisions
    <3> DEFINE decisions == IF Decides(t) THEN Append(db.decisions, d) ELSE db.decisions
    <3>1. \E cycles, r, status : CommitLoop(w, cycles, r, status, decisions)
      BY <2>1, <2>8, ExecuteTyped
    <3> HIDE DEF decisions
    <3>2. db'.decisions = decisions
      BY <2>1, <3>1 DEF CommitLoop, Database
    <3> QED  BY <3>2 DEF decisions
  <2>10. Decides(t) /\ d.stamp = t.snap.policy.stamp
    BY <2>3, <2>9 DEF NewDecision
  <2>11. ~Stopped(t.snap) /\ t.snap.policy = db.policy /\ DoneBefore(t) = 0
    BY <2>8, <2>10, ExecuteReads, ExecuteKinds
  <2>12. db.policy.permits
    <3>1. Verdict(t) = "decision_recorded"
      BY <2>10, <2>11, EventsFromStart
    <3> QED  BY <2>11, <3>1 DEF Verdict, DecisionEligible
  <2> HIDE DEF d, t
  <2>13. db'.decisions[i] = d
    BY <2>1, <2>9, <2>10
  <2> QED  BY <2>10, <2>11, <2>12, <2>13
<1> QED  BY <1>1, LoopInvariant, PTL DEF Spec, DecisionUnderCurrentPolicy

\* A run's status always tells what its event chains say, although retries,
\* crashes, late resumes and failure records race for it.
THEOREM StatusTellsTheCycles == Spec => []RunMatchesCycles
<1>1. LoopInv => RunMatchesCycles
  <2> SUFFICES ASSUME LoopInv PROVE RunMatchesCycles
    OBVIOUS
  <2>1. ASSUME NEW r, NEW o, OneEnds(db.cycles, r, o)
        PROVE  Cardinality({c \in CyclesOf(r) : EndsWith(c, {o})}) = 1
    <3>1. PICK c \in DOMAIN db.cycles :
            /\ db.cycles[c].run = r
            /\ \A d \in DOMAIN db.cycles :
                 db.cycles[d].run = r => (Ended(db.cycles[d].log, o) <=> d = c)
      BY <2>1 DEF OneEnds
    <3>2. \A d : EndsWith(d, {o}) <=> Ended(db.cycles[d].log, o)
      BY DEF EndsWith, Ended
    <3>3. {d \in CyclesOf(r) : EndsWith(d, {o})} = {c}
      BY <3>1, <3>2 DEF CyclesOf
    <3> QED  BY <3>3, FS_Singleton
  <2>2. ASSUME NEW r \in LoopRuns
        PROVE  LET cs == CyclesOf(r) IN
               CASE db.runs[r] = "created" -> cs = {}
                 [] db.runs[r] = "paused" -> \E c \in cs : cs = {c} /\ EndsWith(c, Guards)
                 [] db.runs[r] = "blocked" ->
                      cs # {} /\ \A c \in cs : EndsWith(c, {"blocked_evidence_or_authority"})
                 [] db.runs[r] = "completed" ->
                      Cardinality({c \in cs : EndsWith(c, {"decision_recorded"})}) = 1
                 [] db.runs[r] = "failed" ->
                      Cardinality({c \in cs : EndsWith(c, {"failed_infrastructure"})}) = 1
                 [] OTHER -> FALSE
    <3>1. StatusFits(db.cycles, r, db.runs[r])
      BY DEF LoopInv, RunsFit
    <3>2. CASE db.runs[r] = "created"
      BY <3>1, <3>2 DEF StatusFits, CyclesOf
    <3>3. CASE db.runs[r] = "paused"
      <4>1. PICK c \in DOMAIN db.cycles :
              /\ db.cycles[c].log = <<CostPause>>
              /\ \A d \in DOMAIN db.cycles : db.cycles[d].run = r <=> d = c
        BY <3>1, <3>3 DEF StatusFits
      <4>2. CyclesOf(r) = {c}
        BY <4>1 DEF CyclesOf
      <4>3. EndsWith(c, Guards)
        BY <4>1, SingleFacts DEF EndsWith, Guards
      <4> QED  BY <3>3, <4>2, <4>3
    <3>4. CASE db.runs[r] = "blocked"
      <4>1. /\ \E c \in DOMAIN db.cycles : db.cycles[c].run = r
            /\ \A c \in DOMAIN db.cycles : db.cycles[c].run = r =>
                 Ended(db.cycles[c].log, "blocked_evidence_or_authority")
        BY <3>1, <3>4 DEF StatusFits
      <4>2. CyclesOf(r) # {} /\ \A c \in CyclesOf(r) : EndsWith(c, {"blocked_evidence_or_authority"})
        BY <4>1 DEF CyclesOf, EndsWith, Ended
      <4> QED  BY <3>4, <4>2
    <3>5. CASE db.runs[r] = "completed"
      <4>1. Cardinality({c \in CyclesOf(r) : EndsWith(c, {"decision_recorded"})}) = 1
        BY <2>1, <3>1, <3>5 DEF StatusFits
      <4> QED  BY <3>5, <4>1
    <3>6. CASE db.runs[r] = "failed"
      <4>1. Cardinality({c \in CyclesOf(r) : EndsWith(c, {"failed_infrastructure"})}) = 1
        BY <2>1, <3>1, <3>6 DEF StatusFits
      <4> QED  BY <3>6, <4>1
    <3> QED  BY <3>1, <3>2, <3>3, <3>4, <3>5, <3>6 DEF StatusFits
  <2> QED  BY <2>2 DEF RunMatchesCycles
<1> QED  BY <1>1, LoopInvariant, PTL

\* Before each event of a whole or a resumed walk the stages below it, and no
\* others, are completed.
LEMMA ShapeInOrder ==
    ASSUME NEW log, LogShape(log), NEW i \in DOMAIN log
    PROVE  LET before == Cardinality({j \in 1..(i - 1) : log[j].outcome = "completed"})
           IN  /\ log[i].stage # 0 => log[i].stage = before + 1
               /\ log[i].outcome \in Ends => i = Len(log)
               /\ log[i].outcome = "decision_recorded" => before = Stages - 1
<1> DEFINE done == {j \in 1..(i - 1) : log[j].outcome = "completed"}
<1>1. CASE log = <<>>
  BY <1>1
<1>2. CASE log = <<Failure>> \/ log = <<CostPause>>
  <2>1. i = 1 /\ Len(log) = 1 /\ log[i] \in {Failure, CostPause}
    BY <1>2
  <2>2. done = {}
    BY <2>1
  <2>3. Cardinality(done) = 0
    BY <2>2, FS_EmptySet
  <2> HIDE DEF done
  <2>4. /\ log[i].stage # 0 => log[i].stage = Cardinality(done) + 1
        /\ log[i].outcome # "decision_recorded"
    BY <2>1, <2>3, SingleFacts
  <2> QED  BY <2>1, <2>4 DEF done
<1>3. CASE \E o \in Verdicts : log = Whole(o)
  <2>1. PICK o \in Verdicts : log = Whole(o)
    BY <1>3
  <2>2. /\ log \in Seq(LoopEvent) /\ Len(log) = 8
        /\ \A j \in 1..8 : log[j].stage = j /\ log[j].outcome = IF j < 8 THEN "completed" ELSE o
    BY <2>1, WholeFacts
  <2>3. i \in 1..8
    BY <2>2
  <2>4. done = 1..(i - 1)
    BY <2>2, <2>3
  <2>5. Cardinality(done) = i - 1
    <3>1. Cardinality(1..(i - 1)) = IF 1 > i - 1 THEN 0 ELSE (i - 1) - 1 + 1
      BY <2>3, FS_Interval
    <3>2. Cardinality(1..(i - 1)) = i - 1
      BY <2>3, <3>1
    <3> HIDE DEF done
    <3> QED  BY <2>4, <3>2, Zenon
  <2> HIDE DEF done
  <2>6. /\ log[i].stage = Cardinality(done) + 1
        /\ log[i].outcome \in Ends => i = 8
        /\ log[i].outcome = "decision_recorded" => Cardinality(done) = Stages - 1
    BY <2>2, <2>3, <2>5 DEF Ends, Stages
  <2> QED  BY <2>2, <2>6 DEF done
<1>4. CASE \E o \in Verdicts : log = Resumed(o)
  <2>1. PICK o \in Verdicts : log = Resumed(o)
    BY <1>4
  <2>2. /\ log \in Seq(LoopEvent) /\ Len(log) = 9 /\ log[1] = CostPause
        /\ \A j \in 2..9 : /\ log[j].stage = j - 1
                           /\ log[j].outcome = IF j < 9 THEN "completed" ELSE o
    BY <2>1, ResumedFacts
  <2>3. i \in 1..9
    BY <2>2
  <2>4. CASE i = 1
    <3>1. done = {}
      BY <2>4
    <3>2. Cardinality(done) = 0
      BY <3>1, FS_EmptySet
    <3> HIDE DEF done
    <3>3. log[i].stage = Cardinality(done) + 1 /\ log[i].outcome \notin Ends
      BY <2>2, <2>4, <3>2, SingleFacts DEF Ends
    <3> QED  BY <3>3 DEF done, Ends
  <2>5. CASE i # 1
    <3>1. i \in 2..9
      BY <2>3, <2>5
    <3>2. done = 2..(i - 1)
      <4>1. log[1].outcome # "completed"
        BY <2>2, SingleFacts
      <4> QED  BY <2>2, <3>1, <4>1
    <3>3. Cardinality(done) = i - 2
      <4>1. Cardinality(2..(i - 1)) = IF 2 > i - 1 THEN 0 ELSE (i - 1) - 2 + 1
        BY <3>1, FS_Interval
      <4>2. Cardinality(2..(i - 1)) = i - 2
        BY <3>1, <4>1
      <4> HIDE DEF done
      <4> QED  BY <3>2, <4>2, Zenon
    <3> HIDE DEF done
    <3>4. /\ log[i].stage = Cardinality(done) + 1
          /\ log[i].outcome \in Ends => i = 9
          /\ log[i].outcome = "decision_recorded" => Cardinality(done) = Stages - 1
      BY <2>2, <3>1, <3>3 DEF Ends, Stages
    <3> QED  BY <2>2, <3>4 DEF done
  <2> QED  BY <2>4, <2>5
<1> QED  BY <1>1, <1>2, <1>3, <1>4 DEF LogShape

\* Every cycle completes its stages in order and each of them once, nothing
\* follows its end, and a blocked run starts a fresh cycle only after some
\* preapproval of the project was approved.
THEOREM CyclesWalkInOrder == Spec => []CyclesInOrder
<1>1. LoopInv => CyclesInOrder
  <2> SUFFICES ASSUME LoopInv, NEW c \in DOMAIN db.cycles
               PROVE  LET log == db.cycles[c].log
                          before(i) == Cardinality({j \in 1..(i - 1) : log[j].outcome = "completed"})
                      IN  /\ \A i \in DOMAIN log :
                               /\ log[i].stage # 0 => log[i].stage = before(i) + 1
                               /\ log[i].outcome \in Ends => i = Len(log)
                               /\ log[i].outcome = "decision_recorded" => before(i) = Stages - 1
                          /\ db.cycles[c].key[1] = "resume" /\ log # <<>> /\ LastEvent(log) # Failure =>
                               \E i \in DOMAIN db.requests :
                                 db.requests[i].status \notin {"pending", "rejected"}
    BY DEF CyclesInOrder
  <2>1. CycleFits(db.cycles[c], db.requests)
    BY DEF LoopInv, CyclesFit
  <2>2. LogShape(db.cycles[c].log)
    BY <2>1 DEF CycleFits
  <2> QED  BY <2>1, <2>2, ShapeInOrder DEF CycleFits, Decided
<1> QED  BY <1>1, LoopInvariant, PTL

=============================================================================
