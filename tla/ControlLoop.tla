----------------------------- MODULE ControlLoop -----------------------------
(***************************************************************************)
(* The bounded control loop of Slice 55 (app/runtime/control_loop.py,      *)
(* app/repositories/go_live_decisions.py, migration 0054): owned           *)
(* SERIALIZABLE transactions that walk eight stages for a project run and  *)
(* end in a recorded decision, a block, a pause or a recorded failure.     *)
(*                                                                         *)
(* All reads of a SERIALIZABLE transaction come from the snapshot its      *)
(* first statement took, its writes become visible at its commit, and from *)
(* its first project lock to that commit nobody else holds the project     *)
(* row.  So an attempt is two steps: Begin takes the snapshot, and Finish  *)
(* does everything else.  What commits in between is what it cannot see.   *)
(* PostgreSQL refuses the second step (SQLSTATE 40001) when another loop   *)
(* transaction committed in between, or when a row it updates or locks was *)
(* updated; the owned wrapper then retries with a new snapshot.  A latch   *)
(* event or a preapproval event is an INSERT by a READ COMMITTED service,  *)
(* which conflicts with nothing.                                           *)
(***************************************************************************)
EXTENDS Integers, Sequences, FiniteSets

CONSTANTS LoopRuns,     \* project runs driven by the control loop, one project
          StartKeys,    \* idempotency keys clients start cycles with
          Workers,      \* concurrent calls of the owned wrappers
          MaxAttempts,  \* SERIALIZABLE_MAX_ATTEMPTS
          MaxCycles, MaxLatch, MaxRequests, MaxStamp,   \* bounds
          Sources,      \* what changes around the loop in this instance
          Interference  \* whether calls fail, collide or crash of themselves

ASSUME AttemptsAssumption == MaxAttempts \in Nat \ {0}
ASSUME LoopBounds == /\ MaxCycles \in Nat /\ MaxLatch \in Nat
                     /\ MaxRequests \in Nat /\ MaxStamp \in Nat
                     /\ Interference \in BOOLEAN
                     /\ Sources \subseteq {"latch", "cost", "gates", "policy", "preapproval"}

VARIABLES db,   \* the committed rows of the project
          txn   \* per worker: its call, attempt and snapshot

vars == <<db, txn>>

Stages == 8                 \* CONTROL_LOOP_STAGE_SEQUENCE; 0 is control_loop_runtime
Guards == {"paused_emergency_stop", "paused_cost_stop"}
Ends == {"failed_infrastructure", "decision_recorded", "blocked_evidence_or_authority"}
LoopStatus == {"created", "running", "paused", "blocked", "completed", "failed"}

\* control_loop_events, control_loop_runs with its checkpoint's number of
\* completed stages, and go_live_decisions with the bindings of its evaluation.
LoopEvent == [stage : 0..Stages, outcome : Guards \cup Ends \cup {"completed"}]
Key == ({"start"} \X StartKeys) \cup ({"resume"} \X Nat)
Cycle == [key : Key, run : LoopRuns, log : Seq(LoopEvent), done : 0..Stages]
Decision == [cycle : Nat, latch : Nat, request : Nat, stamp : Nat, prev : Nat]

\* A preapproval request, as its approval status and lifecycle head tell, and
\* the autonomy policy its release binding froze.
RequestStatus == {"pending", "rejected", "approved", "revoked", "superseded", "expired"}
Preapproval == [status : RequestStatus, stamp : Nat]

\* latch counts the events after the armed anchor: odd is active.
Database ==
    [latch : Nat, costStop : BOOLEAN, gates : BOOLEAN,
     policy : [stamp : Nat, permits : BOOLEAN], requests : Seq(Preapproval),
     runs : [LoopRuns -> LoopStatus], cycles : Seq(Cycle), decisions : Seq(Decision)]

Call == [phase : {"open", "failed", "persisting"}, run : LoopRuns, key : Key,
         attempt : 1..MaxAttempts, snap : Database, stale : SUBSET {"loop", "policy"}]
NoCall == [phase |-> "idle"]

Init ==
    /\ \E gates \in BOOLEAN :
         db = [latch |-> 0, costStop |-> FALSE, gates |-> gates,
               policy |-> [stamp |-> 0, permits |-> TRUE], requests |-> <<>>,
               runs |-> [r \in LoopRuns |-> "created"], cycles |-> <<>>, decisions |-> <<>>]
    /\ txn = [w \in Workers |-> NoCall]

-----------------------------------------------------------------------------
(* What a transaction reads, as operators of its snapshot S.               *)

Stopped(S) == S.latch % 2 = 1

\* The newest preapproval request, which coverage_for_project judges.
LatestRequest(S) == S.requests[Len(S.requests)]
GateEligible(S) ==
    /\ S.requests # <<>>
    /\ LatestRequest(S).status = "approved"
    /\ LatestRequest(S).stamp = S.policy.stamp

\* ApprovalRepository.is_blocked: the generic approval stays approved when the
\* attestation is later revoked, superseded or expired.
ApprovalBlocked(S) == S.requests = <<>> \/ LatestRequest(S).status \in {"pending", "rejected"}

\* decision_eligible: all thirteen gates, preapproval, policy and latch.
DecisionEligible(S) == S.gates /\ GateEligible(S) /\ S.policy.permits /\ ~Stopped(S)

\* start_cycle: the cycle a key names, or the one it inserts.
CycleFor(S, key) ==
    IF \E c \in DOMAIN S.cycles : S.cycles[c].key = key
      THEN CHOOSE c \in DOMAIN S.cycles : S.cycles[c].key = key
      ELSE Len(S.cycles) + 1
CycleAt(S, c, key, r) ==
    IF c \in DOMAIN S.cycles THEN S.cycles[c]
    ELSE [key |-> key, run |-> r, log |-> <<>>, done |-> 0]

LastEvent(log) == log[Len(log)]

\* validate_event_transition and slice55_validate_event.
ValidNext(log, e) ==
    IF log = <<>> THEN e.stage \in {0, 1}
    ELSE \/ LastEvent(log).outcome \in Guards /\ e.stage = LastEvent(log).stage
         \/ LastEvent(log).outcome = "completed" /\ e.stage \in {0, LastEvent(log).stage + 1}

\* A variant that lets events follow a terminal outcome.
CanAppendAlways(log, new) == TRUE

\* append_event, event by event.
CanAppend(log, new) ==
    \A i \in DOMAIN new : ValidNext(log \o SubSeq(new, 1, i - 1), new[i])

\* execute, stage after stage behind _guard, from the first incomplete stage.
Walk(S, done) ==
    IF done = Stages THEN <<>>
    ELSE IF Stopped(S) THEN <<[stage |-> done + 1, outcome |-> "paused_emergency_stop"]>>
    ELSE IF S.costStop THEN <<[stage |-> done + 1, outcome |-> "paused_cost_stop"]>>
    ELSE [i \in 1..(Stages - done) |->
            [stage |-> done + i,
             outcome |-> IF done + i < Stages THEN "completed"
                         ELSE IF DecisionEligible(S) THEN "decision_recorded"
                         ELSE "blocked_evidence_or_authority"]]

\* The status the walk leaves the run in.
StatusAfter(new) ==
    IF new = <<>> THEN "running"
    ELSE CASE LastEvent(new).outcome \in Guards -> "paused"
           [] LastEvent(new).outcome = "decision_recorded" -> "completed"
           [] OTHER -> "blocked"

\* A variant of resume_control_loop that does not ask for the approval.
ResumableUnapproved(S, r) ==
    /\ ~Stopped(S) /\ ~S.costStop
    /\ S.runs[r] \in {"paused", "blocked"}

\* resume_control_loop before its graph runs.
Resumable(S, r) ==
    /\ ~Stopped(S) /\ ~S.costStop
    /\ S.runs[r] \in {"paused", "blocked"}
    /\ S.runs[r] = "blocked" => ~ApprovalBlocked(S)

\* start_cycle raises idempotency_conflict when the key is another run's.
KeyOwned(t) ==
    \A c \in DOMAIN t.snap.cycles : t.snap.cycles[c].key = t.key => t.snap.cycles[c].run = t.run

\* start_control_loop before its graph runs: any other status replays the
\* checkpoint or raises, and writes nothing.
Startable(S, r) == S.runs[r] = "created" /\ ~Stopped(S)

Executes(t) ==
    /\ KeyOwned(t)
    /\ IF t.key[1] = "start" THEN Startable(t.snap, t.run) ELSE Resumable(t.snap, t.run)

\* The cycle the graph appends to: a paused run continues the cycle it was
\* asked to resume, anything else starts one under its key.
TargetCycle(t) ==
    IF t.key[1] = "resume" /\ t.snap.runs[t.run] = "paused" THEN t.key[2]
    ELSE CycleFor(t.snap, t.key)
Target(t) == CycleAt(t.snap, TargetCycle(t), t.key, t.run)

\* A fresh cycle walks from the first stage even if start_cycle found a row.
DoneBefore(t) ==
    IF t.key[1] = "resume" /\ t.snap.runs[t.run] = "paused" THEN Target(t).done ELSE 0

NewEvents(t) == Walk(t.snap, DoneBefore(t))
Decides(t) == NewEvents(t) # <<>> /\ LastEvent(NewEvents(t)).outcome = "decision_recorded"

\* slice55_finalize_decision compares the expiry with the clock, not with the
\* snapshot's time.
Lapsed(t) == Decides(t) /\ db.requests[Len(t.snap.requests)].status = "expired"

-----------------------------------------------------------------------------
(* The rest of the project, none of it SERIALIZABLE.                       *)

\* EmergencyControlService.activate and clear: an INSERT, and an UPDATE of the
\* runs that are committed as running.
LatchEvent ==
    /\ db.latch < MaxLatch
    /\ db' = [db EXCEPT !.latch = @ + 1,
                        !.runs = [r \in LoopRuns |->
                                    IF ~Stopped(db) /\ @[r] = "running" THEN "paused" ELSE @[r]]]
    /\ UNCHANGED txn

\* The day, the ledger or a budget changes what cost.evaluate returns.
CostChange == db' = [db EXCEPT !.costStop = ~@] /\ UNCHANGED txn

\* Evidence changes what the thirteen A5 gates report.
GatesChange == db' = [db EXCEPT !.gates = ~@] /\ UNCHANGED txn

\* admin_write_autonomy_policy updates the policy row.
PolicyChange ==
    /\ db.policy.stamp < MaxStamp
    /\ \E p \in BOOLEAN :
         db' = [db EXCEPT !.policy = [stamp |-> @.stamp + 1, permits |-> p]]
    /\ txn' = [w \in Workers |-> IF txn[w].phase \in {"open", "persisting"}
                                   THEN [txn[w] EXCEPT !.stale = @ \cup {"policy"}]
                                   ELSE txn[w]]

\* ProductionApprovalService.request: bind the release sources and the policy
\* as they are; the stamp stands for the whole release binding digest.
RequestPreapproval ==
    /\ Len(db.requests) < MaxRequests
    /\ db' = [db EXCEPT !.requests = Append(@, [status |-> "pending", stamp |-> db.policy.stamp])]
    /\ UNCHANGED txn

\* approve and reject: only the newest request, while its binding is current;
\* approving supersedes the attestation before it.
ResolvePreapproval(s) ==
    /\ db.requests # <<>>
    /\ LatestRequest(db).status = "pending"
    /\ LatestRequest(db).stamp = db.policy.stamp
    /\ db' = [db EXCEPT !.requests =
                [i \in DOMAIN @ |->
                   IF i = Len(@) THEN [@[i] EXCEPT !.status = s]
                   ELSE IF s = "approved" /\ i = Len(@) - 1 /\ @[i].status = "approved"
                          THEN [@[i] EXCEPT !.status = "superseded"]
                   ELSE @[i]]]
    /\ UNCHANGED txn

\* revoke, or twenty-four hours pass.
EndPreapproval(i, s) ==
    /\ db.requests[i].status = "approved"
    /\ db' = [db EXCEPT !.requests[i].status = s]
    /\ UNCHANGED txn

-----------------------------------------------------------------------------
(* The owned wrappers.                                                     *)

Attempt(phase, r, key, n) ==
    [phase |-> phase, run |-> r, key |-> key, attempt |-> n, snap |-> db, stale |-> {}]

\* start_control_loop_owned
Start(w, r, k) ==
    /\ txn[w] = NoCall
    /\ txn' = [txn EXCEPT ![w] = Attempt("open", r, <<"start", k>>, 1)]
    /\ UNCHANGED db

\* resume_control_loop_owned of cycle c, which need not be the newest one.
Resume(w, c) ==
    /\ txn[w] = NoCall
    /\ txn' = [txn EXCEPT ![w] = Attempt("open", db.cycles[c].run, <<"resume", c>>, 1)]
    /\ UNCHANGED db

\* Variants of the conflict rule: without the predicate locks of SERIALIZABLE,
\* and without the FOR UPDATE on the policy row.
ConflictPolicyOnly(t, decides) == decides /\ "policy" \in t.stale
ConflictLoopOnly(t, decides) == "loop" \in t.stale

\* A transaction that writes cannot commit over another loop transaction, and
\* slice55_finalize_decision locks the policy row FOR UPDATE.
Conflict(t, decides) == "loop" \in t.stale \/ (decides /\ "policy" \in t.stale)

\* Commit of worker w: every other open transaction now misses these rows.
CommitLoop(w, cycles, r, status, decisions) ==
    /\ db' = [db EXCEPT !.cycles = cycles, !.runs[r] = status, !.decisions = decisions]
    /\ txn' = [v \in Workers |->
                 IF v = w THEN NoCall
                 ELSE IF txn[v].phase \in {"open", "persisting"}
                        THEN [txn[v] EXCEPT !.stale = @ \cup {"loop"}]
                 ELSE txn[v]]

\* The committed cycles after this transaction's: a cycle its snapshot knows is
\* updated, one it inserted is appended.
PutCycle(t, c, cycle) ==
    IF c \in DOMAIN t.snap.cycles THEN [db.cycles EXCEPT ![c] = cycle]
    ELSE Append(db.cycles, cycle)

\* The call returns or raises without having written anything.
Return(w) ==
    /\ txn[w].phase = "open" /\ ~Executes(txn[w])
    /\ txn' = [txn EXCEPT ![w] = NoCall]
    /\ UNCHANGED db

\* The whole cycle commits: stages, run status and, if eligible, the decision.
Execute(w) ==
    LET t == txn[w]
        c == TargetCycle(t)
        new == NewEvents(t)
    IN  /\ t.phase = "open" /\ Executes(t)
        /\ CanAppend(Target(t).log, new) /\ ~Lapsed(t)
        /\ ~Conflict(t, Decides(t))
        /\ Len(db.cycles) < MaxCycles \/ c \in DOMAIN t.snap.cycles
        /\ CommitLoop(w,
             PutCycle(t, c,
               [Target(t) EXCEPT !.log = @ \o new,
                                 !.done = IF LastEvent(new).outcome \in Guards THEN @ ELSE Stages]),
             t.run, StatusAfter(new),
             IF Decides(t)
               THEN Append(db.decisions,
                      [cycle |-> IF c \in DOMAIN t.snap.cycles THEN c ELSE Len(db.cycles) + 1,
                       latch |-> t.snap.latch, request |-> Len(t.snap.requests),
                       stamp |-> t.snap.policy.stamp, prev |-> Len(t.snap.decisions)])
               ELSE db.decisions)

\* An exception inside the graph, for whatever reason, because an event cannot
\* follow the cycle's last one or because the preapproval has expired since:
\* roll back, then record the failure.
FailInfrastructure(w) ==
    /\ txn[w].phase = "open" /\ Executes(txn[w])
    /\ \/ Interference
       \/ Lapsed(txn[w])
       \/ ~CanAppend(Target(txn[w]).log, NewEvents(txn[w]))
    /\ txn' = [txn EXCEPT ![w].phase = "failed"]
    /\ UNCHANGED db

\* A variant of the retry loop that forgets to count its attempts.
RetryForever(w) ==
    /\ txn[w].phase \in {"open", "persisting"}
    /\ Interference \/ txn[w].stale # {}
    /\ txn' = [txn EXCEPT ![w] = Attempt(txn[w].phase, txn[w].run, txn[w].key, txn[w].attempt)]
    /\ UNCHANGED db

\* A variant of the retry loop that allows one attempt too many.
RetryOnceMore(w) ==
    /\ txn[w].phase \in {"open", "persisting"}
    /\ Interference \/ txn[w].stale # {}
    /\ txn' = [txn EXCEPT ![w] =
                 IF txn[w].attempt <= MaxAttempts
                   THEN Attempt(txn[w].phase, txn[w].run, txn[w].key, txn[w].attempt + 1)
                   ELSE NoCall]
    /\ UNCHANGED db

\* run_serializable_tenant_work: SQLSTATE 40001 or 40P01, at most MaxAttempts
\* attempts, each a complete new transaction.
Retry(w) ==
    /\ txn[w].phase \in {"open", "persisting"}
    /\ Interference \/ txn[w].stale # {}
    /\ txn' = [txn EXCEPT ![w] =
                 IF txn[w].attempt < MaxAttempts
                   THEN Attempt(txn[w].phase, txn[w].run, txn[w].key, txn[w].attempt + 1)
                   ELSE NoCall]
    /\ UNCHANGED db

\* _persist_infrastructure_failure_owned opens its own transaction.
BeginPersist(w) ==
    /\ txn[w].phase = "failed"
    /\ txn' = [txn EXCEPT ![w] = Attempt("persisting", txn[w].run, txn[w].key, 1)]
    /\ UNCHANGED db

Failure == [stage |-> 0, outcome |-> "failed_infrastructure"]

\* Whether the failure can be recorded: the run must reach running, which the
\* latch refuses, and the event must be able to follow the cycle's last one.
Recordable(t) ==
    /\ KeyOwned(t)
    /\ t.snap.runs[t.run] \in {"created", "paused", "blocked"} => ~Stopped(t.snap)
    /\ t.snap.runs[t.run] # "completed"
    /\ CanAppend(CycleAt(t.snap, CycleFor(t.snap, t.key), t.key, t.run).log, <<Failure>>)

\* _persist: insert the cycle if it is new, append the failure and fail the
\* run; a run that has already failed keeps only the inserted cycle.
Persist(w) ==
    LET t == txn[w]
        c == CycleFor(t.snap, t.key)
        old == CycleAt(t.snap, c, t.key, t.run)
    IN  /\ t.phase = "persisting"
        /\ ~Conflict(t, FALSE)
        /\ Len(db.cycles) < MaxCycles \/ c \in DOMAIN t.snap.cycles
        /\ IF t.snap.runs[t.run] = "failed"
             THEN KeyOwned(t) /\ CommitLoop(w, PutCycle(t, c, old), t.run, "failed", db.decisions)
             ELSE /\ Recordable(t)
                  /\ CommitLoop(w, PutCycle(t, c, [old EXCEPT !.log = Append(@, Failure)]),
                                t.run, "failed", db.decisions)

\* The persisting transaction raises: the failure is not recorded.
PersistRaises(w) ==
    /\ txn[w].phase = "persisting"
    /\ ~Recordable(txn[w])
    /\ txn[w].snap.runs[txn[w].run] = "failed" => ~KeyOwned(txn[w])
    /\ txn' = [txn EXCEPT ![w] = NoCall]
    /\ UNCHANGED db

\* The worker process dies, before, between or inside its transactions.
Crash(w) ==
    /\ Interference
    /\ txn[w] # NoCall
    /\ txn' = [txn EXCEPT ![w] = NoCall]
    /\ UNCHANGED db

Environment ==
    \/ "latch" \in Sources /\ LatchEvent
    \/ "cost" \in Sources /\ CostChange
    \/ "gates" \in Sources /\ GatesChange
    \/ "policy" \in Sources /\ PolicyChange
    \/ /\ "preapproval" \in Sources
       /\ \/ RequestPreapproval
          \/ \E s \in {"approved", "rejected"} : ResolvePreapproval(s)
          \/ \E i \in DOMAIN db.requests, s \in {"revoked", "expired"} : EndPreapproval(i, s)

\* What a worker's call does once it has begun.
Proceed(w) ==
    \/ Return(w) \/ Execute(w) \/ FailInfrastructure(w) \/ Retry(w)
    \/ BeginPersist(w) \/ Persist(w) \/ PersistRaises(w)

Next ==
    \/ Environment
    \/ \E w \in Workers :
         \/ \E r \in LoopRuns, k \in StartKeys : Start(w, r, k)
         \/ \E c \in DOMAIN db.cycles : Resume(w, c)
         \/ Proceed(w)
         \/ Crash(w)

Spec == Init /\ [][Next]_vars

\* A call that has begun keeps being executed: it is a coroutine that awaits
\* only the database and a bounded backoff.
FairSpec == Spec /\ \A w \in Workers : WF_vars(Proceed(w))

-----------------------------------------------------------------------------
TypeOK ==
    /\ db \in Database
    /\ txn \in [Workers -> Call \cup {NoCall}]

CyclesOf(r) == {c \in DOMAIN db.cycles : db.cycles[c].run = r}
EndsWith(c, outcomes) ==
    db.cycles[c].log # <<>> /\ LastEvent(db.cycles[c].log).outcome \in outcomes

\* A run's status always tells what its event chains say, although retries,
\* crashes, late resumes and failure records race for it: created runs have no
\* cycle, a completed run has its decision, a failed one its failure event, a
\* blocked or paused one ends in that outcome, and no cycle commits a run that
\* is still running (_ControlLoopExecutor, start_cycle, _persist).
RunMatchesCycles ==
    \A r \in LoopRuns :
        LET cs == CyclesOf(r) IN
        CASE db.runs[r] = "created" -> cs = {}
          [] db.runs[r] = "paused" -> \E c \in cs : cs = {c} /\ EndsWith(c, Guards)
          [] db.runs[r] = "blocked" ->
               cs # {} /\ \A c \in cs : EndsWith(c, {"blocked_evidence_or_authority"})
          [] db.runs[r] = "completed" ->
               Cardinality({c \in cs : EndsWith(c, {"decision_recorded"})}) = 1
          [] db.runs[r] = "failed" ->
               Cardinality({c \in cs : EndsWith(c, {"failed_infrastructure"})}) = 1
          [] OTHER -> FALSE

\* Every cycle completes its stages in order and each of them once, whatever
\* pauses, retries and resumes come between, and nothing follows its end, so a
\* decision comes after seven completed stages (append_event, execute); and a
\* blocked run starts a fresh cycle only after some preapproval of the project
\* was approved (resume_control_loop, ApprovalRepository.is_blocked).
CyclesInOrder ==
    \A c \in DOMAIN db.cycles :
        LET log == db.cycles[c].log
            before(i) == Cardinality({j \in 1..(i - 1) : log[j].outcome = "completed"})
        IN  /\ \A i \in DOMAIN log :
                 /\ log[i].stage # 0 => log[i].stage = before(i) + 1
                 /\ log[i].outcome \in Ends => i = Len(log)
                 /\ log[i].outcome = "decision_recorded" => before(i) = Stages - 1
            /\ db.cycles[c].key[1] = "resume" /\ log # <<>> /\ LastEvent(log) # Failure =>
                 \E i \in DOMAIN db.requests : db.requests[i].status \notin {"pending", "rejected"}

\* Each decision names the one before it and every decision belongs to its own
\* cycle and run, so slice55_verify_decision_chain holds with any number of
\* workers deciding at once.
DecisionChainLinear ==
    \A i \in DOMAIN db.decisions :
        /\ db.decisions[i].prev = i - 1
        /\ \A j \in DOMAIN db.decisions :
             db.cycles[db.decisions[i].cycle].run = db.cycles[db.decisions[j].cycle].run => i = j

\* A decision is recorded only under the autonomy policy that is current at
\* its commit, and that permits it: a policy change after the snapshot makes
\* the transaction retry (slice55_finalize_decision, FOR UPDATE).
DecisionUnderCurrentPolicy ==
    [][\A i \in DOMAIN db'.decisions \ DOMAIN db.decisions :
         db'.decisions[i].stamp = db.policy.stamp /\ db.policy.permits]_vars

\* A variant of current_decision that does not compare the latch events.
CurrentDecisionAnyLatch(i) ==
    /\ i = Len(db.decisions)
    /\ db.decisions[i].cycle = Len(db.cycles)
    /\ db.requests[db.decisions[i].request].status # "expired"
    /\ db.decisions[i].request = Len(db.requests)
    /\ db.decisions[i].stamp = db.policy.stamp

\* current_decision: of the newest cycle, and still bound.
CurrentDecision(i) ==
    /\ i = Len(db.decisions)
    /\ db.decisions[i].cycle = Len(db.cycles)
    /\ db.requests[db.decisions[i].request].status # "expired"
    /\ db.decisions[i].request = Len(db.requests)
    /\ db.decisions[i].latch = db.latch
    /\ db.decisions[i].stamp = db.policy.stamp

\* A decision taken from a stale snapshot is never reported as current: what
\* current_decision returns was decided with the latch armed as it is now,
\* under the permitting policy and on the newest, once approved, request.
CurrentDecisionHolds ==
    \A i \in DOMAIN db.decisions :
        CurrentDecision(i) =>
            /\ ~Stopped(db)
            /\ db.policy.permits
            /\ LatestRequest(db).status \in {"approved", "revoked"}
            /\ db.runs[db.cycles[db.decisions[i].cycle].run] = "completed"

\* Every call ends, however often its transactions collide: the retry loop is
\* bounded and a failed cycle's record is attempted at most as often.
CallsEnd == \A w \in Workers : txn[w] # NoCall ~> txn[w] = NoCall

-----------------------------------------------------------------------------
(* What the documentation says and the code does not do.                   *)

\* No decision is recorded while the emergency latch is active.
DecisionWhileArmed ==
    [][\A i \in DOMAIN db'.decisions \ DOMAIN db.decisions : ~Stopped(db)]_vars

\* A runtime failure that reaches its recording transaction is recorded.
FailureRecorded ==
    [][\A w \in Workers :
         txn[w].phase = "persisting" /\ txn'[w] = NoCall => db'.runs[txn[w].run] = "failed"]_vars
=============================================================================
