-------------------------- MODULE ReleaseEvidence --------------------------
(***************************************************************************)
(* Evidence cores assembled for a frozen candidate, the release verdicts   *)
(* derived from them, and gate 7, which reads both                         *)
(* (app/repositories/evidence_packs, release_verdicts,                     *)
(* app/release/evidence_pack, release_manager; migrations 0048, 0049),     *)
(* while the issues they are about go on changing (ReleaseIssues).         *)
(*                                                                         *)
(* created_at is drawn at the insert, before the commit makes a row        *)
(* visible; "the latest" means by created_at.                              *)
(***************************************************************************)
EXTENDS ReleaseIssues

CONSTANTS
    RequiredSections,   \* of the inventory, besides the issues and the records
    Workers, MaxStamp

VARIABLES
    sections,   \* the required sections that have a row by now
    packRuns,   \* evidence_pack_generation_runs, each with its pack if it has one
    verdictRuns,\* release_verdict_runs, each with its verdict if it succeeded
    stamp,      \* the clock of created_at
    worker

evidenceVars == <<sections, packRuns, verdictRuns, stamp, worker>>
vars == <<status, frozenAt, bindings, finding, issue, terms, accepted, today, session,
          sections, packRuns, verdictRuns, stamp, worker>>

Bound(c) == {i \in Issues : <<c, i>> \in bindings}

\* project_source_record of an issue and of a risk-acceptance record.
IssueRef(i) == [id |-> i, status |-> status[i], shape |-> issue[i].shape, source |-> issue[i].source]
RiskRef(r) == [id |-> r, status |-> status[r]]
EvidenceCore == [issues : SUBSET [id : Issues, status : IssueStatus, shape : Content,
                                  source : Findings \cup {"none"}],
                 risks : SUBSET [id : Records, status : RecordStatus]]
NoCore == [issues |-> {}, risks |-> {}]
GenerationRun == [at : 1..MaxStamp, candidate : Candidates,
                  outcome : {"succeeded", "incomplete", "failed"}, core : EvidenceCore]
IssueDisposition ==
    [issue : Issues, status : IssueStatus, trusted_provenance : BOOLEAN, blocking : BOOLEAN,
     hard_blocker : BOOLEAN, exact_risk_acceptance : BOOLEAN, risk_authority_verified : {FALSE}]
SPEC_VERDICTS == {"passed", "passed_with_limitations", "failed_blocking_issue",
                  "failed_missing_evidence", "requires_human_decision"}
VerdictRun == [at : 1..MaxStamp, pack : GenerationRun, input : SUBSET IssueDisposition,
               outcome : {"succeeded", "failed"}, verdict : SPEC_VERDICTS \cup {"none"}]

Parameters == IssueParameters /\ MaxStamp \in Nat

TypeOKEvidence ==
    /\ sections \subseteq RequiredSections
    /\ packRuns \subseteq GenerationRun /\ verdictRuns \subseteq VerdictRun
    /\ stamp \in 0..MaxStamp

InitEvidence ==
    /\ sections \in SUBSET RequiredSections
    /\ packRuns = {} /\ verdictRuns = {} /\ stamp = 0
    /\ worker = [w \in Workers |-> Idle]

-----------------------------------------------------------------------------
(* Evidence cores.                                                          *)

Frozen(c) == status[c] = "frozen" /\ frozenAt[c] > 0

\* The other sections of the inventory gain their first rows.
ObserveSource(code) ==
    /\ code \notin sections
    /\ sections' = sections \cup {code}
    /\ UNCHANGED <<packRuns, verdictRuns, stamp, worker>> /\ UNCHANGED issueVars

\* assemble_core reads the candidate and its bindings ...
BeginAssemble(w, c) ==
    /\ worker[w] = Idle /\ Frozen(c)
    /\ worker' = [worker EXCEPT ![w] = [op |-> "assemble", candidate |-> c, bound |-> Bound(c)]]
    /\ UNCHANGED <<sections, packRuns, verdictRuns, stamp>> /\ UNCHANGED issueVars

\* The inventory says of each required section whether it has a source.
Inventory ==
    [code \in RequiredSections |->
        IF code \in sections THEN "present" ELSE "missing_required_source"]

\* blocks_completeness: the core is complete when no required section is missing.
AssemblyStatus ==
    IF \E code \in RequiredSections : Inventory[code] = "missing_required_source"
    THEN "incomplete" ELSE "succeeded"

\* The rows behind the references, read one statement after the bindings.
ReadCore(c, bound) ==
    [issues |-> {IssueRef(i) : i \in bound},
     risks |-> {RiskRef(r) : r \in {q \in Present(Records) : terms[q].release = c}}]

\* evidence_pack_core_guard: only the currently frozen candidate.
CoreGuard(c) == Frozen(c)

\* ... then everything else, and inserts run, core, references and inventory.
WriteCore(w) ==
    LET c == worker[w].candidate IN
    /\ worker[w].op = "assemble" /\ CoreGuard(c) /\ stamp < MaxStamp
    /\ stamp' = stamp + 1
    /\ worker' = [worker EXCEPT ![w] =
         [op |-> "core", run |-> [at |-> stamp', candidate |-> c, outcome |-> AssemblyStatus,
                                  core |-> ReadCore(c, worker[w].bound)]]]
    /\ UNCHANGED <<sections, packRuns, verdictRuns>> /\ UNCHANGED issueVars

CommitCore(w) ==
    /\ worker[w].op = "core"
    /\ packRuns' = packRuns \cup {worker[w].run}
    /\ worker' = [worker EXCEPT ![w] = Idle]
    /\ UNCHANGED <<sections, verdictRuns, stamp>> /\ UNCHANGED issueVars

\* record_failed_attempt of the packs.
FailAssembly(c) ==
    /\ Frozen(c) /\ stamp < MaxStamp
    /\ stamp' = stamp + 1
    /\ packRuns' = packRuns \cup
         {[at |-> stamp', candidate |-> c, outcome |-> "failed", core |-> NoCore]}
    /\ UNCHANGED <<sections, verdictRuns, worker>> /\ UNCHANGED issueVars

-----------------------------------------------------------------------------
(* Verdicts.                                                                *)

\* _risk_is_exact: the record is for this release and issue and in force.
RiskIsExact(c, i) ==
    /\ accepted[i] # "none"
    /\ LET r == accepted[i] IN
         /\ terms[r].release = c /\ terms[r].subject = i
         /\ status[r] = "active" /\ terms[r].expiry >= today /\ terms[r].category = "none"

\* IssueDisposition; no tier verifies the authority of a risk acceptance.
Disposition(c, i) ==
    [issue |-> i, status |-> status[i], trusted_provenance |-> issue[i].source # "none",
     blocking |-> issue[i].shape.blocking, hard_blocker |-> is_hard_blocker(issue[i].shape),
     exact_risk_acceptance |-> RiskIsExact(c, i), risk_authority_verified |-> FALSE]

\* ReleaseVerdictInput over the rows as they are; its digest stands for it.
Input(c) == {Disposition(c, i) : i \in Bound(c)}

Active(input) == {d \in input : d.status \notin {"resolved", "superseded"}}

\* A ladder that takes any issue's word for where it came from.
EvaluateUntrusted(input) ==
    IF \E d \in Active(input) : d.blocking \/ d.hard_blocker THEN "failed_blocking_issue"
    ELSE IF Active(input) # {} THEN "requires_human_decision" ELSE "passed"

\* evaluate_release_verdict (what assembles the input refuses an incomplete one).
evaluate_release_verdict(input) ==
    IF \E d \in input : ~d.trusted_provenance THEN "failed_missing_evidence"
    ELSE IF \E d \in Active(input) : d.blocking \/ d.hard_blocker THEN "failed_blocking_issue"
    ELSE IF \E d \in Active(input) : ~d.exact_risk_acceptance \/ ~d.risk_authority_verified
         THEN "requires_human_decision"
    ELSE IF Active(input) # {} THEN "passed_with_limitations" ELSE "passed"

\* _require_current_core_issue_refs: the core is about exactly these rows as they are.
CoreIsCurrent(core, c) ==
    /\ core.issues = {IssueRef(i) : i \in Bound(c)}
    /\ \A i \in Bound(c) : accepted[i] # "none" => RiskRef(accepted[i]) \in core.risks

\* validate_semantic_payload, on what the audit of a pack reads back: one
\* reference per row.
Audited(core) ==
    /\ \A a, b \in core.issues : a.id = b.id => a = b
    /\ \A a, b \in core.risks : a.id = b.id => a = b

\* evaluate_and_record up to its inserts: an audited, complete core of the candidate.
BeginVerdict(w, p) ==
    LET c == p.candidate IN
    /\ worker[w] = Idle /\ Frozen(c)
    /\ p.outcome = "succeeded" /\ Audited(p.core) /\ CoreIsCurrent(p.core, c)
    /\ worker' = [worker EXCEPT ![w] = [op |-> "evaluate", pack |-> p, input |-> Input(c)]]
    /\ UNCHANGED <<sections, packRuns, verdictRuns, stamp>> /\ UNCHANGED issueVars

\* release_verdict_run_guard and release_verdict_guard.
VerdictGuard(p) == Frozen(p.candidate) /\ p.outcome = "succeeded"

\* verify_release_verdict: every binding has its result, and each agrees with
\* the rows as they are now and with the references of the core.
VerifyVerdict(p, input) == input = Input(p.candidate) /\ CoreIsCurrent(p.core, p.candidate)

\* The inserts, and SET CONSTRAINTS ALL IMMEDIATE.
WriteVerdict(w) ==
    LET p == worker[w].pack  input == worker[w].input IN
    /\ worker[w].op = "evaluate" /\ stamp < MaxStamp
    /\ VerdictGuard(p) /\ VerifyVerdict(p, input)
    /\ stamp' = stamp + 1
    /\ worker' = [worker EXCEPT ![w] =
         [op |-> "verdict",
          run |-> [at |-> stamp', pack |-> p, input |-> input, outcome |-> "succeeded",
                   verdict |-> evaluate_release_verdict(input)]]]
    /\ UNCHANGED <<sections, packRuns, verdictRuns>> /\ UNCHANGED issueVars

CommitVerdict(w) ==
    /\ worker[w].op = "verdict"
    /\ verdictRuns' = verdictRuns \cup {worker[w].run}
    /\ worker' = [worker EXCEPT ![w] = Idle]
    /\ UNCHANGED <<sections, packRuns, stamp>> /\ UNCHANGED issueVars

\* record_failed_attempt of the verdicts: against any core of the candidate.
FailVerdict(p) ==
    /\ Frozen(p.candidate) /\ p.outcome # "failed" /\ stamp < MaxStamp
    /\ stamp' = stamp + 1
    /\ verdictRuns' = verdictRuns \cup
         {[at |-> stamp', pack |-> p, input |-> Input(p.candidate), outcome |-> "failed",
           verdict |-> "none"]}
    /\ UNCHANGED <<sections, packRuns, worker>> /\ UNCHANGED issueVars

AbortEvidence(w) ==
    /\ worker[w] # Idle
    /\ worker' = [worker EXCEPT ![w] = Idle]
    /\ UNCHANGED <<sections, packRuns, verdictRuns, stamp>> /\ UNCHANGED issueVars

-----------------------------------------------------------------------------
(* Gate 7.                                                                  *)

LatestOf(runs) == CHOOSE r \in runs : \A q \in runs : q.at <= r.at

\* _latest_candidate: the one frozen last of those still frozen.
LatestCandidate ==
    CHOOSE c \in Candidates : Frozen(c) /\ \A d \in Candidates : Frozen(d) => frozenAt[d] <= frozenAt[c]

\* Coverage that finds a verdict for the newest core good enough.
VerdictOfCore(run, p, c) == run.pack = p

\* binding_current and evidence_consistent: of the newest core, and over the
\* input as it is now.
VerdictIsCurrent(run, p, c) == run.pack = p /\ run.input = Input(c)

\* gate7_counts_consistent over the counts of bound issues: the trusted ones
\* are bridged from a security or a shortcut finding, and the acceptances that
\* rest on a record in force are among the acceptances.
CountsConsistent(c) ==
    LET Trusted == {i \in Bound(c) : issue[i].source # "none"}
        Of(type) == {i \in Trusted : finding[issue[i].source].type = type}
        Accepted == {i \in Bound(c) : status[i] = "accepted"}
    IN  /\ Cardinality(Of("security")) + Cardinality(Of("shortcut")) = Cardinality(Trusted)
        /\ {i \in Accepted : RiskIsExact(c, i)} \subseteq Accepted

\* The gate opens on a current, eligible verdict of the newest run of both kinds.
Gate7 ==
    /\ \E c \in Candidates : Frozen(c)
    /\ LET c == LatestCandidate
           P == {p \in packRuns : p.candidate = c}
           V == {v \in verdictRuns : v.pack.candidate = c}
       IN  /\ P # {} /\ V # {}
           /\ LatestOf(P).outcome = "succeeded" /\ Audited(LatestOf(P).core)
           /\ LatestOf(V).outcome = "succeeded"
           /\ VerdictIsCurrent(LatestOf(V), LatestOf(P), c)
           /\ CountsConsistent(c)
           /\ LatestOf(V).verdict \in {"passed", "passed_with_limitations"}

-----------------------------------------------------------------------------
NextEvidence ==
    \/ \E code \in RequiredSections : ObserveSource(code)
    \/ \E c \in Candidates : FailAssembly(c)
    \/ \E p \in packRuns : FailVerdict(p)
    \/ \E w \in Workers :
         \/ \E c \in Candidates : BeginAssemble(w, c)
         \/ \E p \in packRuns : BeginVerdict(w, p)
         \/ WriteCore(w) \/ CommitCore(w) \/ WriteVerdict(w) \/ CommitVerdict(w)
         \/ AbortEvidence(w)

Init == InitIssues /\ InitEvidence
Next ==
    \/ NextIssues /\ UNCHANGED <<sections, packRuns, verdictRuns, stamp, worker>>
    \/ NextEvidence

-----------------------------------------------------------------------------
(* While gate 7 is open, every issue bound to the release, one whose       *)
(* binding committed after the freeze included, came from a verified       *)
(* finding and is settled (coverage_for_project).                          *)
GateSeesEveryIssue ==
    Gate7 => \E c \in Candidates :
        /\ status[c] = "frozen" /\ \A d \in Candidates : status[d] = "frozen" => frozenAt[d] <= frozenAt[c]
        /\ \A i \in Issues : <<c, i>> \in bindings =>
             issue[i].source # "none" /\ status[i] \in {"resolved", "superseded"}

(* A passing verdict is borne out by its own core: the core lists every    *)
(* issue that was judged, each from a verified finding and settled, though *)
(* core and verdict read the issues at different moments.                  *)
PassedCoreIsClean ==
    \A v \in verdictRuns : v.verdict = "passed" =>
        /\ {d.issue : d \in v.input} = {ref.id : ref \in v.pack.core.issues}
        /\ \A ref \in v.pack.core.issues :
             ref.source # "none" /\ ref.status \in {"resolved", "superseded"}
=============================================================================
