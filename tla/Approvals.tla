----------------------------- MODULE Approvals -----------------------------
(***************************************************************************)
(* Approval requests of one project: app/repositories/approvals.py over    *)
(* app/approvals/states.py, and the notification recorded beside a request *)
(* (app/approvals/channels).  Sessions are READ COMMITTED transactions: a  *)
(* decision checks the row, sends a guarded UPDATE whose row lock lasts to *)
(* the commit, and appends its event; the lapse does the same for silence. *)
(* A subject stands for one (action, subject_ref).                         *)
(***************************************************************************)
EXTENDS Naturals, Sequences, FiniteSets

CONSTANTS
    Subjects,    \* what approvals are asked for
    Mandatory,   \* those whose action is a mandatory-approval action
    Actors,      \* people, by the label they carry or prove
    Requesters,  \* the identities that ask, and the ones that decide
    Deciders,
    Tiers,       \* the risk tiers of the instance
    Sessions,
    Window,      \* NON_RESPONSE_WINDOW, in ticks
    MaxClock,    \* bound: ticks
    MaxRows      \* bound: requests

RiskTier == {"low", "medium", "high", "production"}
Status == {"pending", "approved", "rejected", "cancelled", "expired", "proceeded_by_policy"}
HumanDecisions == {"approved", "rejected", "cancelled"}
\* A principal proved by its key, or a label the caller typed.
Identity == [who : Actors, authenticated : BOOLEAN]
NoOne == [who |-> "system", authenticated |-> FALSE]

Approval == [subject : Subjects, tier : RiskTier, explicit : BOOLEAN, status : Status,
             requester : Identity, resolver : Identity \cup {NoOne}, requested_at : 0..MaxClock]

ApprovalEvent == Status \cup {"requested"}

\* What the constants stand for.  A lapse leaves resolved_by NULL, which is
\* nobody's label.
Parameters ==
    /\ IsFiniteSet(Sessions)
    /\ Window \in Nat /\ MaxClock \in Nat /\ MaxRows \in Nat
    /\ Tiers \subseteq RiskTier
    /\ Requesters \subseteq Identity /\ Deciders \subseteq Identity \ {NoOne}

VARIABLES
    approvals,      \* the committed approvals rows, in commit order
    events,         \* events[i]: the approval_events of approval i
    notifications,  \* approval_notifications: the request and how it was routed
    session,        \* what each session is doing
    clock           \* the application clock

vars == <<approvals, events, notifications, session, clock>>

Idle == [op |-> "idle"]
Jobs ==
    {Idle} \cup [op : {"request"}, row : Approval, routed : {"digest", "realtime"}]
           \cup [op : {"decide", "decided"}, approval : 1..MaxRows,
                 target : Status, by : Identity \cup {NoOne}]

TypeOK ==
    /\ approvals \in Seq(Approval) /\ Len(approvals) <= MaxRows
    /\ events \in Seq(Seq(ApprovalEvent)) /\ Len(events) = Len(approvals)
    /\ notifications \subseteq [approval : 1..MaxRows, mode : {"digest", "realtime"}]
    /\ session \in [Sessions -> Jobs]
    /\ clock \in 0..MaxClock

Init ==
    /\ approvals = <<>> /\ events = <<>> /\ notifications = {}
    /\ session = [s \in Sessions |-> Idle]
    /\ clock = 0

-----------------------------------------------------------------------------
\* The tier written where the routing mode belongs.
RouteByTier(tier) == tier

\* route: the tier alone decides how a request is notified.
Route(tier) == IF tier \in {"high", "production"} THEN "realtime" ELSE "digest"

\* What silence makes of a pending request; "pending" when it stays.
AutoTransition(tier, explicit, requestedAt, now) ==
    IF explicit \/ now < requestedAt + Window THEN "pending"
    ELSE CASE tier = "low" -> "proceeded_by_policy" [] tier = "medium" -> "expired"
           [] OTHER -> "pending"

\* The gate on one status.
StatusBlocks(status, explicit) ==
    ~(status = "approved" \/ (status = "proceeded_by_policy" /\ ~explicit))

\* The rows latest_for may return: equal requested_at leaves the choice open.
LatestFor(subject) ==
    {i \in DOMAIN approvals :
        /\ approvals[i].subject = subject
        /\ \A k \in DOMAIN approvals :
               approvals[k].subject = subject => approvals[k].requested_at <= approvals[i].requested_at}

\* The rows on which is_blocked may answer FALSE; with none, the gate is closed.
OpenedBy(subject) ==
    {i \in LatestFor(subject) : ~StatusBlocks(approvals[i].status, approvals[i].explicit)}

\* Rows asked for but not committed count against the bound.
Requesting == {s \in Sessions : session[s].op = "request"}

\* request: a mandatory action is explicit whatever the caller says, and may not
\* be asked for as anything else; requested_at is the clock now.  The row and its
\* notification become visible at the commit.
Request(s, subject, tier, flag, by) ==
    /\ session[s] = Idle
    /\ Len(approvals) + Cardinality(Requesting) < MaxRows
    /\ ~(subject \in Mandatory /\ flag = "false")
    /\ session' = [session EXCEPT ![s] =
           [op |-> "request", routed |-> Route(tier),
            row |-> [subject |-> subject, tier |-> tier,
                     explicit |-> subject \in Mandatory \/ flag = "true", status |-> "pending",
                     requester |-> by, resolver |-> NoOne, requested_at |-> clock]]]
    /\ UNCHANGED <<approvals, events, notifications, clock>>

CommitRequest(s) ==
    /\ session[s].op = "request"
    /\ approvals' = Append(approvals, session[s].row)
    /\ events' = Append(events, <<"requested">>)
    /\ notifications' = notifications \cup {[approval |-> Len(approvals'), mode |-> session[s].routed]}
    /\ session' = [session EXCEPT ![s] = Idle]
    /\ UNCHANGED clock

\* The check made on rejections instead.
SelfRejection(i, target, by) ==
    /\ target = "rejected" /\ by.authenticated
    /\ approvals[i].requester.authenticated /\ approvals[i].requester.who = by.who

\* A verified actor approving its own verified request.
SelfApproval(i, target, by) ==
    /\ target = "approved" /\ by.authenticated
    /\ approvals[i].requester.authenticated /\ approvals[i].requester.who = by.who

\* _resolve_by_human before its UPDATE.
BeginDecision(s, i, target, by) ==
    /\ session[s] = Idle
    /\ ~SelfApproval(i, target, by)
    /\ session' = [session EXCEPT ![s] =
           [op |-> "decide", approval |-> i, target |-> target, by |-> by]]
    /\ UNCHANGED <<approvals, events, notifications, clock>>

\* expire_if_overdue before its UPDATE: the row is pending and silence lapses it.
BeginLapse(s, i) ==
    LET a == approvals[i]
        target == AutoTransition(a.tier, a.explicit, a.requested_at, clock)
    IN  /\ session[s] = Idle
        /\ a.status = "pending" /\ target # "pending"
        /\ session' = [session EXCEPT ![s] =
               [op |-> "decide", approval |-> i, target |-> target, by |-> NoOne]]
        /\ UNCHANGED <<approvals, events, notifications, clock>>

RowLocked(s, i) ==
    \E o \in Sessions \ {s} : session[o].op = "decided" /\ session[o].approval = i

\* The UPDATE without its status guard.
TransitionUnguarded(s) ==
    /\ session[s].op = "decide"
    /\ ~RowLocked(s, session[s].approval)
    /\ session' = [session EXCEPT ![s].op = "decided"]
    /\ UNCHANGED <<approvals, events, notifications, clock>>

\* _transition: waits for the row's lock, then finds it pending or raises.
Transition(s) ==
    /\ session[s].op = "decide"
    /\ ~RowLocked(s, session[s].approval)
    /\ approvals[session[s].approval].status = "pending"
    /\ session' = [session EXCEPT ![s].op = "decided"]
    /\ UNCHANGED <<approvals, events, notifications, clock>>

\* The event, the audit entry and the commit.
CommitDecision(s) ==
    LET j == session[s]
    IN  /\ j.op = "decided"
        /\ approvals' = [approvals EXCEPT ![j.approval].status = j.target,
                                          ![j.approval].resolver = j.by]
        /\ events' = [events EXCEPT ![j.approval] = Append(@, j.target)]
        /\ session' = [session EXCEPT ![s] = Idle]
        /\ UNCHANGED <<notifications, clock>>

\* A refused transition, or a session that dies, rolls back.
Abort(s) ==
    /\ session[s] # Idle
    /\ session' = [session EXCEPT ![s] = Idle]
    /\ UNCHANGED <<approvals, events, notifications, clock>>

Tick ==
    /\ clock < MaxClock
    /\ clock' = clock + 1
    /\ UNCHANGED <<approvals, events, notifications, session>>

Next ==
    \/ Tick
    \/ \E s \in Sessions :
        \/ \E subject \in Subjects, tier \in Tiers, flag \in {"absent", "true", "false"},
              by \in Requesters : Request(s, subject, tier, flag, by)
        \/ CommitRequest(s)
        \/ \E i \in DOMAIN approvals :
              \/ \E target \in HumanDecisions, by \in Deciders : BeginDecision(s, i, target, by)
              \/ BeginLapse(s, i)
        \/ Transition(s)
        \/ CommitDecision(s)
        \/ Abort(s)

Spec == Init /\ [][Next]_vars

-----------------------------------------------------------------------------
\* However people and the lapse race, an approval is decided once, and its
\* events tell exactly the status it has (_transition's guarded UPDATE and
\* _record in one transaction).
DecidedOnce ==
    \A i \in DOMAIN approvals :
        events[i] = IF approvals[i].status = "pending" THEN <<"requested">>
                    ELSE <<"requested", approvals[i].status>>

\* A mandatory action's gate opens only on the approval of somebody other than
\* the verified requester: neither silence nor a race with the lapse opens it
\* (auto_transition, is_blocked, and the self-approval check of _resolve_by_human).
SilenceNeverOpens ==
    \A subject \in Mandatory : \A i \in OpenedBy(subject) :
        LET by == approvals[i].resolver
        IN  /\ by # NoOne
            /\ ~(by.authenticated /\ approvals[i].requester = by)

\* An approval request is decided at most once, and one nobody decided never
\* opens the gate of a mandatory action (approvals.py).
OnlyPeopleOpenGates == DecidedOnce /\ SilenceNeverOpens
=============================================================================
