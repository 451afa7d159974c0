--------------------------- MODULE ReleaseIssues ---------------------------
(***************************************************************************)
(* What stands in the way of a release: findings, the issues they are      *)
(* bridged to, risk-acceptance records, and release candidates with the    *)
(* issues bound to them (app/repositories/release_findings,                *)
(* release_issues, risk_acceptance, release_candidates; migrations         *)
(* 0021-0024 and 0046).                                                    *)
(*                                                                         *)
(* A call is one READ COMMITTED transaction.  Its triggers read other      *)
(* tables without locking them, so a guard may be stale by the commit; the *)
(* row it updates stays locked from the update to the commit.              *)
(***************************************************************************)
EXTENDS Naturals, FiniteSets

CONSTANTS
    Candidates, Issues, Findings, Records,  \* disjoint sets of row ids
    FindingShapes,  \* finding_type, severity and whether a scan or detector run attached it
    IssueShapes,    \* severity, blocking and blocking_category of caller-supplied issues
    Expiries,       \* expiry dates a record may be given
    LastDay,
    Sessions

VARIABLES
    status,         \* of every row; "absent" before it is inserted
    frozenAt,       \* of a candidate; 0 is NULL
    bindings,       \* release_candidate_issue_bindings, committed
    finding,        \* content of a finding
    issue,          \* content of an issue, with its source_finding_id
    terms,          \* content of a risk-acceptance record
    accepted,       \* risk_acceptance_record_id of an issue or a finding
    today,
    session

issueVars == <<status, frozenAt, bindings, finding, issue, terms, accepted, today, session>>

Rows == Candidates \cup Issues \cup Findings \cup Records
HARD_REFUSAL_CATEGORIES == {"critical_security_blocker", "fake_done_finding"}
CandidateStatus == {"draft", "frozen", "superseded", "canceled"}
IssueStatus == {"open", "resolved", "accepted", "superseded"}
FindingStatus == IssueStatus \cup {"false_positive"}
RecordStatus == {"active", "expired", "revoked", "superseded"}
Content == IssueShapes \cup
    [severity : {shape.severity : shape \in FindingShapes}, blocking : {TRUE},
     category : {"none"} \cup HARD_REFUSAL_CATEGORIES]
IssueContent == [shape : Content, source : Findings \cup {"none"}]
Terms == [subject : Issues \cup Findings, release : Candidates, expiry : Expiries,
          category : {"none", "other"}]

Idle == [op |-> "idle"]
Jobs ==
    {Idle}
    \cup [op : {"move"}, row : Rows, to : FindingStatus \cup RecordStatus \cup CandidateStatus]
    \cup [op : {"bind"}, candidate : Candidates, issue : Issues]
    \cup [op : {"bridge"}, finding : Findings, issue : Issues]
    \cup [op : {"accept"}, row : Issues \cup Findings, record : Records]

\* What the proofs assume of the constants: ids are of one table, and not NULL.
IssueParameters ==
    /\ Candidates \cap (Issues \cup Findings \cup Records) = {}
    /\ Issues \cap (Findings \cup Records) = {} /\ Findings \cap Records = {}
    /\ "none" \notin Findings \cup Records
    /\ \A shape \in IssueShapes : shape.blocking \in BOOLEAN
    /\ IsFiniteSet(Candidates) /\ LastDay \in Nat

Present(rows) == {x \in rows : status[x] # "absent"}

TypeOK ==
    /\ \A c \in Candidates : status[c] \in CandidateStatus \cup {"absent"}
    /\ \A i \in Issues : status[i] \in IssueStatus \cup {"absent"}
    /\ \A f \in Findings : status[f] \in FindingStatus \cup {"absent"}
    /\ \A r \in Records : status[r] \in RecordStatus \cup {"absent"}
    /\ frozenAt \in [Candidates -> Nat]
    /\ bindings \subseteq Present(Candidates) \X Present(Issues)
    /\ \A f \in Present(Findings) : finding[f] \in FindingShapes
    /\ \A i \in Present(Issues) : issue[i] \in IssueContent
    /\ \A r \in Present(Records) : terms[r] \in Terms
    /\ accepted \in [Issues \cup Findings -> Records \cup {"none"}]
    /\ today \in 0..LastDay
    /\ session \in [Sessions -> Jobs]

InitIssues ==
    /\ status = [x \in Rows |-> "absent"]
    /\ frozenAt = [c \in Candidates |-> 0]
    /\ bindings = {}
    /\ finding = [f \in Findings |-> "none"]
    /\ issue = [i \in Issues |-> "none"]
    /\ terms = [r \in Records |-> "none"]
    /\ accepted = [x \in Issues \cup Findings |-> "none"]
    /\ today = 0
    /\ session = [s \in Sessions |-> Idle]

-----------------------------------------------------------------------------
(* Status transitions, checked on the status read and again by the guard    *)
(* trigger on the row as it is when the update gets its lock.               *)

CandidateTransitions ==
    {<<"draft", "frozen">>, <<"draft", "canceled">>,
     <<"frozen", "superseded">>, <<"frozen", "canceled">>}
IssueTransitions == {"open"} \X (IssueStatus \ {"open"})
FindingTransitions == {"open"} \X (FindingStatus \ {"open"})
RecordTransitions == {"active"} \X (RecordStatus \ {"active"})

Transitions(x) ==
    CASE x \in Candidates -> CandidateTransitions
      [] x \in Issues -> IssueTransitions
      [] x \in Findings -> FindingTransitions
      [] x \in Records -> RecordTransitions

\* The update of a row somebody else has updated waits for its commit.
Unlocked(x) == \A s \in Sessions : session[s].op = "accept" => session[s].row # x

\* A trigger that trusted what the repository had read.
RowGuardAsRead(x, to) == TRUE

\* The BEFORE UPDATE guard of the table compares with OLD.
RowGuard(x, to) == <<status[x], to>> \in Transitions(x)

\* A transition reads the row and validates before it updates.
BeginMove(s, x, to) ==
    /\ session[s] = Idle
    /\ <<status[x], to>> \in Transitions(x)
    /\ session' = [session EXCEPT ![s] = [op |-> "move", row |-> x, to |-> to]]
    /\ UNCHANGED <<status, frozenAt, bindings, finding, issue, terms, accepted, today>>

\* freeze, supersede, cancel.
MoveCandidate(s) ==
    \E c \in Candidates, to \in {"frozen", "superseded", "canceled"} : BeginMove(s, c, to)

\* resolve, supersede.
SettleIssue(s) == \E i \in Issues, to \in {"resolved", "superseded"} : BeginMove(s, i, to)

\* resolve, mark_false_positive, supersede.
SettleFinding(s) ==
    \E f \in Findings, to \in {"resolved", "false_positive", "superseded"} : BeginMove(s, f, to)

\* revoke, supersede, expire_if_overdue.
EndRecord(s) ==
    \E r \in Records, to \in {"revoked", "superseded", "expired"} :
        BeginMove(s, r, to) /\ (to = "expired" => terms[r].expiry < today)

CommitMove(s) ==
    LET x == session[s].row  to == session[s].to IN
    /\ session[s].op = "move" /\ Unlocked(x) /\ RowGuard(x, to)
    /\ status' = [status EXCEPT ![x] = to]
    /\ frozenAt' = IF to = "frozen"
                   THEN [frozenAt EXCEPT ![x] = 1 + Cardinality({c \in Candidates : frozenAt[c] > 0})]
                   ELSE frozenAt
    /\ session' = [session EXCEPT ![s] = Idle]
    /\ UNCHANGED <<bindings, finding, issue, terms, accepted, today>>

-----------------------------------------------------------------------------
(* Findings and issues.                                                     *)

\* ReleaseFindingRepository.create, and the trusted findings scans and detectors attach.
CreateFinding(f, shape) ==
    /\ status[f] = "absent"
    /\ status' = [status EXCEPT ![f] = "open"]
    /\ finding' = [finding EXCEPT ![f] = shape]
    /\ UNCHANGED <<frozenAt, bindings, issue, terms, accepted, today, session>>

is_hard_blocker(shape) ==
    shape.severity = "critical" \/ shape.category \in HARD_REFUSAL_CATEGORIES

\* validate_new_issue: a hard blocker cannot masquerade as non-blocking.
validate_new_issue(shape) == is_hard_blocker(shape) => shape.blocking

\* Ids are handed out to one transaction.
IdFree(i) ==
    status[i] = "absent" /\ \A s \in Sessions : session[s].op = "bridge" => session[s].issue # i

CreateIssue(i, shape) ==
    /\ IdFree(i) /\ validate_new_issue(shape)
    /\ status' = [status EXCEPT ![i] = "open"]
    /\ issue' = [issue EXCEPT ![i] = [shape |-> shape, source |-> "none"]]
    /\ UNCHANGED <<frozenAt, bindings, finding, terms, accepted, today, session>>

\* derive_issue_from_finding: always blocking, a shortcut always a hard blocker.
Derived(f) ==
    [severity |-> finding[f].severity, blocking |-> TRUE,
     category |-> IF finding[f].type = "shortcut" THEN "fake_done_finding"
                  ELSE IF finding[f].severity = "critical" THEN "critical_security_blocker"
                  ELSE "none"]

BridgeOf(f) == {i \in Present(Issues) : issue[i].source = f}

\* Only open, attached findings; checked by the repository and by the trigger.
Bridgeable(f) == status[f] = "open" /\ finding[f].trusted

\* create_from_trusted_finding up to its insert; reconcile_trusted_findings
\* does it for every bridgeable finding without an issue.
BeginBridge(s, f, i) ==
    /\ session[s] = Idle /\ Bridgeable(f) /\ BridgeOf(f) = {} /\ IdFree(i)
    /\ session' = [session EXCEPT ![s] = [op |-> "bridge", finding |-> f, issue |-> i]]
    /\ UNCHANGED <<status, frozenAt, bindings, finding, issue, terms, accepted, today>>

\* An index that is not unique.
SourceUnusedByOpen(f) == \A i \in BridgeOf(f) : status[i] # "open"

\* uq_release_issues_source_finding; on a conflict the savepoint is rolled
\* back and the issue of the other transaction is returned.
SourceUnused(f) == BridgeOf(f) = {}

CommitBridge(s) ==
    LET f == session[s].finding  i == session[s].issue IN
    /\ session[s].op = "bridge"
    /\ session' = [session EXCEPT ![s] = Idle]
    /\ IF SourceUnused(f)
       THEN /\ status' = [status EXCEPT ![i] = "open"]
            /\ issue' = [issue EXCEPT ![i] = [shape |-> Derived(f), source |-> f]]
       ELSE UNCHANGED <<status, issue>>
    /\ UNCHANGED <<frozenAt, bindings, finding, terms, accepted, today>>

-----------------------------------------------------------------------------
(* Candidates and their bindings.                                           *)

CreateCandidate(c) ==
    /\ status[c] = "absent"
    /\ status' = [status EXCEPT ![c] = "draft"]
    /\ UNCHANGED <<frozenAt, bindings, finding, issue, terms, accepted, today, session>>

\* A guard that looks at the candidate only.
BindGuardAnyIssue(c, i) == status[c] = "draft"

\* release_candidate_bindings_guard reads the candidate at the insert and does
\* not lock it: a freeze may commit before the binding does.
BindGuard(c, i) == status[c] = "draft" /\ status[i] # "absent"

BeginBind(s, c, i) ==
    /\ session[s] = Idle /\ BindGuard(c, i) /\ <<c, i>> \notin bindings
    /\ session' = [session EXCEPT ![s] = [op |-> "bind", candidate |-> c, issue |-> i]]
    /\ UNCHANGED <<status, frozenAt, bindings, finding, issue, terms, accepted, today>>

\* uq_release_candidate_issue_binding.
CommitBind(s) ==
    LET b == <<session[s].candidate, session[s].issue>> IN
    /\ session[s].op = "bind" /\ b \notin bindings
    /\ bindings' = bindings \cup {b}
    /\ session' = [session EXCEPT ![s] = Idle]
    /\ UNCHANGED <<status, frozenAt, finding, issue, terms, accepted, today>>

-----------------------------------------------------------------------------
(* Risk acceptance.                                                         *)

\* _require_subject_binding and the insert guard: one frozen candidate of that
\* release binds the issue, or the issue bridged from the finding if not hard.
SubjectBound(t) ==
    /\ status[t.release] = "frozen"
    /\ IF t.subject \in Issues
       THEN <<t.release, t.subject>> \in bindings
       ELSE \E i \in BridgeOf(t.subject) :
              <<t.release, i>> \in bindings /\ ~is_hard_blocker(issue[i].shape)

CreateRecord(r, t) ==
    /\ status[r] = "absent" /\ SubjectBound(t)
    /\ status' = [status EXCEPT ![r] = "active"]
    /\ terms' = [terms EXCEPT ![r] = t]
    /\ UNCHANGED <<frozenAt, bindings, finding, issue, accepted, today, session>>

\* Any record that is in force.
UsableForAny(x, r) == status[r] = "active" /\ terms[r].expiry >= today

\* The record the accepting guard looks for: active, not expired, without a
\* category, about this very row; of an issue also bound to its frozen candidate.
Usable(x, r) ==
    /\ status[r] = "active" /\ terms[r].expiry >= today /\ terms[r].category = "none"
    /\ terms[r].subject = x
    /\ x \in Issues => status[terms[r].release] = "frozen" /\ <<terms[r].release, x>> \in bindings

\* Never critical, never a hard refusal, never a trusted shortcut.
Acceptable(x) ==
    IF x \in Issues THEN ~is_hard_blocker(issue[x].shape)
    ELSE /\ finding[x].severity # "critical"
         /\ ~(finding[x].type = "shortcut" /\ finding[x].trusted)

\* accept of an issue or a finding, up to the update.
BeginAccept(s, x, r) ==
    /\ session[s] = Idle
    /\ status[x] = "open" /\ Unlocked(x) /\ Acceptable(x) /\ Usable(x, r)
    /\ session' = [session EXCEPT ![s] = [op |-> "accept", row |-> x, record |-> r]]
    /\ UNCHANGED <<status, frozenAt, bindings, finding, issue, terms, accepted, today>>

CommitAccept(s) ==
    LET x == session[s].row IN
    /\ session[s].op = "accept"
    /\ status' = [status EXCEPT ![x] = "accepted"]
    /\ accepted' = [accepted EXCEPT ![x] = session[s].record]
    /\ session' = [session EXCEPT ![s] = Idle]
    /\ UNCHANGED <<frozenAt, bindings, finding, issue, terms, today>>

\* A refused guard, a lost connection: the transaction is rolled back.
AbortIssues(s) ==
    /\ session[s].op \in {"move", "bind", "bridge", "accept"}
    /\ session' = [session EXCEPT ![s] = Idle]
    /\ UNCHANGED <<status, frozenAt, bindings, finding, issue, terms, accepted, today>>

Midnight ==
    /\ today < LastDay
    /\ today' = today + 1
    /\ UNCHANGED <<status, frozenAt, bindings, finding, issue, terms, accepted, session>>

-----------------------------------------------------------------------------
NextIssues ==
    \/ \E f \in Findings, shape \in FindingShapes : CreateFinding(f, shape)
    \/ \E i \in Issues, shape \in IssueShapes : CreateIssue(i, shape)
    \/ \E c \in Candidates : CreateCandidate(c)
    \/ \E r \in Records, t \in Terms : CreateRecord(r, t)
    \/ \E s \in Sessions :
         \/ MoveCandidate(s) \/ SettleIssue(s) \/ SettleFinding(s) \/ EndRecord(s)
         \/ \E f \in Findings, i \in Issues : BeginBridge(s, f, i)
         \/ \E c \in Candidates, i \in Issues : BeginBind(s, c, i)
         \/ \E x \in Issues \cup Findings, r \in Records : BeginAccept(s, x, r)
         \/ CommitMove(s) \/ CommitBridge(s) \/ CommitBind(s) \/ CommitAccept(s)
         \/ AbortIssues(s)
    \/ Midnight

-----------------------------------------------------------------------------
(* A trusted finding has one issue, however many reconciliations and scans *)
(* race to bridge it (create_from_trusted_finding).                        *)
OneIssuePerFinding == \A f \in Findings : Cardinality(BridgeOf(f)) <= 1

(* What was accepted was never a hard blocker, and rests on a record about *)
(* it whose release was frozen and binds it, although the record may lapse, *)
(* be revoked, or the candidate end while it is accepted (accept, 0046).   *)
AcceptanceIsExact ==
    \A x \in Issues \cup Findings : status[x] = "accepted" =>
        /\ Acceptable(x)
        /\ accepted[x] # "none"
        /\ LET t == terms[accepted[x]] IN
             /\ t.subject = x /\ frozenAt[t.release] > 0
             /\ \E i \in Issues : <<t.release, i>> \in bindings /\ (i = x \/ issue[i].source = x)

(* A candidate is frozen at most once and never leaves an end, whoever     *)
(* races to freeze, supersede or cancel it (release_candidates_guard).     *)
CandidateStep ==
    \A c \in Candidates :
        /\ frozenAt[c] > 0 => frozenAt'[c] = frozenAt[c]
        /\ status[c] \in {"superseded", "canceled"} => status'[c] = status[c]
=============================================================================
