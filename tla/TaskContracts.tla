--------------------------- MODULE TaskContracts ---------------------------
(***************************************************************************)
(* One task contract, its reviewer registry and its review reports         *)
(* (app/repositories/task_contracts.py, review_reports.py, app/review,     *)
(* migration 0041).  Sessions are READ COMMITTED transactions.  Each has   *)
(* one write whose trigger reads committed rows; a transition's UPDATE     *)
(* keeps the contract row locked to the commit, an INSERT only takes a key *)
(* share on it, which does not wait.  A report gets its created_at when it *)
(* is inserted and is seen when its session commits.                       *)
(***************************************************************************)
EXTENDS Naturals, FiniteSets, Sequences

CONSTANTS
    Reviewers,     \* the project's agent instances that may review
    Blueprint,     \* Blueprint[i]: of an instance, via its version
    BuilderBlueprint,
    MaxReviewers,  \* MAX_REVIEWERS
    Sessions,
    MaxReports     \* bound

\* What the proofs assume of the constants: the bound is a number.
Parameters == MaxReports \in Nat

Layers == {"role_specific", "cross_functional", "acceptance"}
LinkKinds == {"source_requirement", "acceptance_criterion", "test_oracle"}
ContractStatus == {"absent", "draft", "ready_for_development", "in_progress", "specialist_review",
                   "changes_requested", "done", "canceled", "superseded"}
Verdicts == {"approved", "rejected_with_required_changes"}
Reportable == {"in_progress", "specialist_review", "changes_requested"}

VARIABLES
    contract,   \* task_contracts.status
    links,      \* the kinds of task_contract_artifact_links
    registry,   \* task_contract_reviewers
    reports,    \* review_reports
    trail,      \* task_contract_events, in commit order
    stamp,      \* the clock reports are stamped with
    session

vars == <<contract, links, registry, reports, trail, stamp, session>>

Registration == [reviewer : Reviewers, layer : Layers]
ReviewReport == [by : Registration, verdict : Verdicts, created_at : 1..MaxReports]
TaskContractEvent == [from : ContractStatus, to : ContractStatus]

\* What a session has read and written; the fields that do not apply keep
\* their idle values.
Idle == [op |-> "idle", read |-> "absent", to |-> "absent", link |-> {}, reg |-> {}, report |-> {}]
Jobs == [op : {"idle", "transition", "updated", "link", "register", "report"},
         read : ContractStatus, to : ContractStatus, link : SUBSET LinkKinds,
         reg : SUBSET Registration, report : SUBSET ReviewReport]

TypeOK ==
    /\ contract \in ContractStatus
    /\ links \subseteq LinkKinds
    /\ registry \subseteq Registration
    /\ reports \subseteq ReviewReport
    /\ trail \in Seq(TaskContractEvent)
    /\ stamp \in 0..MaxReports
    /\ session \in [Sessions -> Jobs]

Init ==
    /\ contract = "absent"
    /\ links = {} /\ registry = {} /\ reports = {}
    /\ trail = <<>>
    /\ stamp = 0
    /\ session = [s \in Sessions |-> Idle]

\* A draft whose text and tool lists pass validate_new_contract.
Create ==
    /\ contract = "absent"
    /\ contract' = "draft"
    /\ trail' = <<[from |-> "absent", to |-> "draft"]>>
    /\ UNCHANGED <<links, registry, reports, stamp, session>>

-----------------------------------------------------------------------------
\* The unique triples: no committed row, and a wait for an uncommitted one.
LinkFree(kind) == kind \notin links /\ \A s \in Sessions : kind \notin session[s].link
RegistrationFree(reg) == reg \notin registry /\ \A s \in Sessions : reg \notin session[s].reg

\* task_contract_artifact_links_guard and its twin for reviewers: drafts only.
FreezeLocked == contract # "draft"

\* add_artifact_link.
InsertLink(s, kind) ==
    /\ session[s] = Idle
    /\ ~FreezeLocked
    /\ LinkFree(kind)
    /\ session' = [session EXCEPT ![s] = [Idle EXCEPT !.op = "link", !.link = {kind}]]
    /\ UNCHANGED <<contract, links, registry, reports, trail, stamp>>

\* A registry that lets the builder's twin review.
MayReviewAnyone(r) == TRUE
MayReview(r) == Blueprint[r] # BuilderBlueprint

\* add_reviewer and its guard; the count is read without a lock.
InsertReviewer(s, reg) ==
    /\ session[s] = Idle
    /\ ~FreezeLocked
    /\ MayReview(reg.reviewer)
    /\ Cardinality(registry) < MaxReviewers
    /\ RegistrationFree(reg)
    /\ session' = [session EXCEPT ![s] = [Idle EXCEPT !.op = "register", !.reg = {reg}]]
    /\ UNCHANGED <<contract, links, registry, reports, trail, stamp>>

\* A report names a registration of its contract (foreign key "registration").
Registered(reg) == reg \in registry

\* record_report: the registration exists, the contract can still be reviewed.
InsertReport(s, reg, verdict) ==
    /\ session[s] = Idle
    /\ Registered(reg)
    /\ contract \in Reportable
    /\ stamp < MaxReports
    /\ stamp' = stamp + 1
    /\ session' = [session EXCEPT ![s] = [Idle EXCEPT !.op = "report",
                     !.report = {[by |-> reg, verdict |-> verdict, created_at |-> stamp + 1]}]]
    /\ UNCHANGED <<contract, links, registry, reports, trail>>

Transitions ==
    [draft |-> {"ready_for_development", "canceled"},
     ready_for_development |-> {"in_progress", "canceled"},
     in_progress |-> {"specialist_review", "canceled"},
     specialist_review |-> {"changes_requested", "done", "canceled"},
     changes_requested |-> {"in_progress", "canceled"},
     done |-> {"superseded"},
     canceled |-> {}, superseded |-> {}, absent |-> {}]

\* _transition: the ORM loads the contract and the matrix admits the move from
\* the status it loaded.
ReadContract(s, to) ==
    /\ session[s] = Idle
    /\ to \in Transitions[contract]
    /\ session' = [session EXCEPT ![s] = [Idle EXCEPT !.op = "transition",
                                                      !.read = contract, !.to = to]]
    /\ UNCHANGED <<contract, links, registry, reports, trail, stamp>>

FreezeReady ==
    /\ "source_requirement" \in links
    /\ {reg.layer : reg \in registry} = Layers

ReportsOf(reg) == {p \in reports : p.by = reg}
LatestVerdict(reg) ==
    LET mine == ReportsOf(reg)
    IN  IF mine = {} THEN "none"
        ELSE (CHOOSE p \in mine : \A q \in mine : q.created_at <= p.created_at).verdict

\* A done gate that only looks for rejections: pending registrations pass.
DoneGateNoRejection == \A reg \in registry : LatestVerdict(reg) # "rejected_with_required_changes"
DoneGate == \A reg \in registry : LatestVerdict(reg) = "approved"

\* The matrix as only the repository applies it, to the status it read.
GuardOnRead(from, to) ==
    /\ to = "ready_for_development" => FreezeReady
    /\ to = "done" => DoneGate

\* task_contracts_guard, for the row as it is now: an update to the status that
\* is stored already only touches updated_at, and no gate asks again.
Guard(from, to) ==
    \/ to = from
    \/ /\ to \in Transitions[from]
       /\ to = "ready_for_development" => FreezeReady
       /\ to = "done" => DoneGate

RowLocked(s) == \E o \in Sessions \ {s} : session[o].op = "updated"

\* The flush: the UPDATE waits for the row, and the guard sees what is stored.
UpdateContract(s) ==
    /\ session[s].op = "transition"
    /\ ~RowLocked(s)
    /\ Guard(contract, session[s].to)
    /\ session' = [session EXCEPT ![s].op = "updated"]
    /\ UNCHANGED <<contract, links, registry, reports, trail, stamp>>

\* The event tells the status the session read as its origin; of two sessions
\* that made the same move, both append one.
Commit(s) ==
    LET j == session[s]
    IN  /\ j.op \in {"updated", "link", "register", "report"}
        /\ contract' = IF j.op = "updated" THEN j.to ELSE contract
        /\ trail' = IF j.op = "updated" THEN Append(trail, [from |-> j.read, to |-> j.to])
                                        ELSE trail
        /\ links' = links \cup j.link
        /\ registry' = registry \cup j.reg
        /\ reports' = reports \cup j.report
        /\ session' = [session EXCEPT ![s] = Idle]
        /\ UNCHANGED stamp

\* A refused guard, a violated constraint or a lost connection rolls back.
Abort(s) ==
    /\ session[s] # Idle
    /\ session' = [session EXCEPT ![s] = Idle]
    /\ UNCHANGED <<contract, links, registry, reports, trail, stamp>>

Next ==
    \/ Create
    \/ \E s \in Sessions :
         \/ \E kind \in LinkKinds : InsertLink(s, kind)
         \/ \E reg \in Registration : InsertReviewer(s, reg)
         \/ \E reg \in registry, v \in Verdicts : InsertReport(s, reg, v)
         \/ \E to \in ContractStatus : ReadContract(s, to)
         \/ UpdateContract(s)
         \/ Commit(s)
         \/ Abort(s)

Spec == Init /\ [][Next]_vars

-----------------------------------------------------------------------------
\* A contract that was ever done has, in each of the three layers, an approval
\* by a reviewer of another blueprint than the builder's, however reports,
\* late registrations and transitions raced (task_contracts_guard's done gate
\* on top of its freeze prerequisites).
DoneIsReviewed ==
    contract \in {"done", "superseded"} =>
        \A layer \in Layers : \E p \in reports :
            /\ p.by.layer = layer /\ p.verdict = "approved"
            /\ Blueprint[p.by.reviewer] # BuilderBlueprint

\* The last event tells the stored status.  Every later event is a move of the
\* matrix from a status the contract had, the one its session read, which may be
\* long ago; and from one event to the next the status moves along the matrix or
\* stays, where a second session made a move that had been made (_transition;
\* the guard compares with the row it locked).
TrailFollowsMatrix ==
    /\ trail # <<>> => trail[Len(trail)].to = contract
    /\ \A i \in DOMAIN trail \ {1} :
         /\ trail[i].to \in Transitions[trail[i].from]
         /\ \E k \in 1..(i - 1) : trail[k].to = trail[i].from
         /\ trail[i].to \in Transitions[trail[i - 1].to] \cup {trail[i - 1].to}
=============================================================================
