----------------------------- MODULE ToolBroker -----------------------------
(***************************************************************************)
(* The tool broker (app/tools/broker.py) over the allowlist ledger         *)
(* (app/repositories/tools.py), the autonomy policy, the agents            *)
(* (AgentRegistry, here whether an instance resolves and is qualified) and *)
(* tool-scoped approvals (Approvals, here the latest one).  Each gate of a *)
(* call is a READ COMMITTED statement of its own, so the gates are read at *)
(* different instants while the tables change.                             *)
(***************************************************************************)
EXTENDS Naturals, FiniteSets

CONSTANTS
    Instances,       \* agent instances of the project
    Services,        \* platform services (broker_call_service)
    Tools,           \* the known tools
    ToolAction,      \* required_action of a tool
    ToolApproval,    \* the tools whose contract requires approval
    MandatoryActions,
    Sessions,
    MaxSeq           \* bound: allowlist sequence numbers drawn

\* What the proofs assume of the constants: nothing but that the bound is a number.
Parameters == MaxSeq \in Nat

Actions == {ToolAction[t] : t \in Tools}
Actors == Instances \cup Services
AllowlistEvent == [actor : Actors, tool : Tools, type : {"grant", "revoke"}, seq : 1..MaxSeq]
Decision == {"allowed_unverified_identity", "needs_approval", "needs_authenticated_approval",
             "denied_unknown_tool", "denied_invalid_params", "denied_not_allowlisted",
             "denied_policy", "denied_unknown_agent", "denied_unqualified_agent"}
ToolCall == [actor : Actors, tool : Tools \cup {"unknown"}, decision : Decision]
\* The latest approval of a tool: not approved (or none), or approved with this
\* approver_provenance.
ApprovalState == {"not_approved", "caller_supplied_unverified", "request_authenticated"}

VARIABLES
    agent,         \* of each instance: whether it resolves, and whether it is qualified
    allowlist,     \* the committed agent_tool_allowlist events
    policy,        \* decision_for each action under the project's policy
    approval,      \* the latest approval of each tool
    toolCalls,     \* the tool_calls rows, as a set
    session,       \* what each session is doing
    seq,           \* the last sequence number drawn
    opened         \* history: the gates open at some instant of each session's call

tables == <<agent, allowlist, policy, approval, toolCalls>>
vars == <<tables, session, seq, opened>>

Idle == [op |-> "idle"]
Gates == {"live", "qualified", "allowlisted", "policy"}
Jobs ==
    {Idle} \cup [op : {"allowlist"}, event : AllowlistEvent]
           \cup [op : {"call"}, actor : Actors, tool : Tools \cup {"unknown"}, decision : Decision,
                 gate : {"instance", "qualification", "allowlist", "policy", "approval", "record"}]

TypeOK ==
    /\ agent \in [Instances -> [resolvable : BOOLEAN, qualified : BOOLEAN]]
    /\ allowlist \subseteq AllowlistEvent
    /\ policy \in [Actions -> {"allow", "needs_approval", "deny"}]
    /\ approval \in [Tools -> ApprovalState]
    /\ toolCalls \subseteq ToolCall
    /\ session \in [Sessions -> Jobs]
    /\ seq \in 0..MaxSeq
    /\ opened \in [Sessions -> SUBSET Gates]

\* The instances are realized, their tools not yet granted.
Init ==
    /\ agent = [i \in Instances |-> [resolvable |-> TRUE, qualified |-> FALSE]]
    /\ allowlist = {} /\ toolCalls = {}
    /\ policy = [a \in Actions |-> "deny"]
    /\ approval = [t \in Tools |-> "not_approved"]
    /\ session = [s \in Sessions |-> Idle]
    /\ seq = 0
    /\ opened = [s \in Sessions |-> {}]

-----------------------------------------------------------------------------
(* What a call meets changes meanwhile.                                     *)

\* AgentRegistry: bind, suspend and retire switch an instance, qualify is one way.
SetResolvable(i, live) ==
    /\ agent' = [agent EXCEPT ![i].resolvable = live]
    /\ UNCHANGED <<allowlist, policy, approval, toolCalls, session, seq>>

Qualify(i) ==
    /\ agent' = [agent EXCEPT ![i].qualified = TRUE]
    /\ UNCHANGED <<allowlist, policy, approval, toolCalls, session, seq>>

\* grant and revoke: the sequence number is drawn by the INSERT, the event is
\* visible at the commit.
InsertAllowlistEvent(s, actor, tool, type) ==
    /\ session[s] = Idle
    /\ seq < MaxSeq
    /\ session' = [session EXCEPT ![s] = [op |-> "allowlist",
           event |-> [actor |-> actor, tool |-> tool, type |-> type, seq |-> seq + 1]]]
    /\ seq' = seq + 1
    /\ UNCHANGED tables

CommitAllowlistEvent(s) ==
    /\ session[s].op = "allowlist"
    /\ allowlist' = allowlist \cup {session[s].event}
    /\ session' = [session EXCEPT ![s] = Idle]
    /\ UNCHANGED <<agent, policy, approval, toolCalls, seq>>

EventsFor(actor, tool) == {e \in allowlist : e.actor = actor /\ e.tool = tool}

\* Any grant counts, revoked or not.
IsAllowedOnce(actor, tool) == \E e \in EventsFor(actor, tool) : e.type = "grant"

\* is_allowed: the event with the highest seq is a grant; no event denies.
IsAllowed(actor, tool) ==
    \E e \in EventsFor(actor, tool) :
        /\ e.type = "grant"
        /\ \A f \in EventsFor(actor, tool) : f.seq <= e.seq

\* The policy changes; a mandatory action never becomes allowed (AdminPolicy).
SetPolicy(action, decision) ==
    /\ action \in MandatoryActions => decision # "allow"
    /\ policy' = [policy EXCEPT ![action] = decision]
    /\ UNCHANGED <<agent, allowlist, approval, toolCalls, session, seq>>

\* A newer approval of the tool is requested, or the latest is decided.
SetApproval(tool, state) ==
    /\ approval[tool] = "not_approved" \/ state = "not_approved"
    /\ approval' = [approval EXCEPT ![tool] = state]
    /\ UNCHANGED <<agent, allowlist, policy, toolCalls, session, seq>>

-----------------------------------------------------------------------------
(* One broker call: each gate is a statement of its own.                    *)

Advance(s, gate) == session' = [session EXCEPT ![s].gate = gate] /\ UNCHANGED <<tables, seq>>
Settle(s, decision) ==
    /\ session' = [session EXCEPT ![s].gate = "record", ![s].decision = decision]
    /\ UNCHANGED <<tables, seq>>
AtGate(s, gate) == session[s].op = "call" /\ session[s].gate = gate

\* sanitize_params and get_contract; a service goes straight to the allowlist.
BeginCall(s, actor, tool, paramsOk) ==
    LET refusal == IF ~paramsOk THEN "denied_invalid_params" ELSE "denied_unknown_tool"
        refused == ~paramsOk \/ tool \notin Tools
    IN  /\ session[s] = Idle
        /\ session' = [session EXCEPT ![s] =
               [op |-> "call", actor |-> actor, tool |-> tool,
                gate |-> IF refused THEN "record"
                         ELSE IF actor \in Services THEN "allowlist" ELSE "instance",
                decision |-> IF refused THEN refusal ELSE "allowed_unverified_identity"]]
        /\ UNCHANGED <<tables, seq>>

ReadInstance(s) ==
    /\ AtGate(s, "instance")
    /\ IF agent[session[s].actor].resolvable THEN Advance(s, "qualification")
       ELSE Settle(s, "denied_unknown_agent")

ReadQualification(s) ==
    /\ AtGate(s, "qualification")
    /\ IF agent[session[s].actor].qualified THEN Advance(s, "allowlist")
       ELSE Settle(s, "denied_unqualified_agent")

ReadAllowlist(s) ==
    /\ AtGate(s, "allowlist")
    /\ IF IsAllowed(session[s].actor, session[s].tool) THEN Advance(s, "policy")
       ELSE Settle(s, "denied_not_allowlisted")

ReadPolicy(s) ==
    LET t == session[s].tool
        d == policy[ToolAction[t]]
    IN  /\ AtGate(s, "policy")
        /\ CASE d = "deny" -> Settle(s, "denied_policy")
             [] d # "deny" /\ (t \in ToolApproval \/ d = "needs_approval") -> Advance(s, "approval")
             [] OTHER -> Settle(s, "allowed_unverified_identity")

\* The tier of request authentication taken for a human's signature.
RequestAuthenticationCounts == {"request_authenticated"}

\* The provenances that count as authenticated: none yet.
AuthenticatedApprovalProvenances == {}

ReadApproval(s) ==
    LET a == approval[session[s].tool]
    IN  /\ AtGate(s, "approval")
        /\ CASE a = "not_approved" -> Settle(s, "needs_approval")
             [] a # "not_approved" /\ a \notin AuthenticatedApprovalProvenances ->
                    Settle(s, "needs_authenticated_approval")
             [] OTHER -> Settle(s, "allowed_unverified_identity")

RecordCall(s) ==
    /\ AtGate(s, "record")
    /\ toolCalls' = toolCalls \cup {[actor |-> session[s].actor, tool |-> session[s].tool,
                                     decision |-> session[s].decision]}
    /\ session' = [session EXCEPT ![s] = Idle]
    /\ UNCHANGED <<agent, allowlist, policy, approval, seq>>

\* A refused statement or a dying session rolls back; drawn numbers stay drawn.
Abort(s) ==
    /\ session[s] # Idle
    /\ session' = [session EXCEPT ![s] = Idle]
    /\ UNCHANGED <<tables, seq>>

\* The call's actor holds a grant that no later-numbered event took back.
GrantInForce(j) ==
    \E e \in EventsFor(j.actor, j.tool) :
        e.type = "grant" /\ ~\E f \in EventsFor(j.actor, j.tool) : f.seq > e.seq

\* History: which gates are open for the call of session s.
OpenGates(j) ==
    {g \in Gates :
        \/ g = "live" /\ (j.actor \in Services \/ agent[j.actor].resolvable)
        \/ g = "qualified" /\ (j.actor \in Services \/ agent[j.actor].qualified)
        \/ g = "allowlisted" /\ GrantInForce(j)
        \/ g = "policy" /\ j.tool \in Tools /\ policy[ToolAction[j.tool]] = "allow"}

Observe ==
    opened' = [s \in Sessions |->
        IF session'[s].op # "call" THEN {}
        ELSE (IF session[s].op = "call" THEN opened[s] ELSE {}) \cup OpenGates(session[s])']

Step ==
    \/ \E i \in Instances : Qualify(i) \/ \E live \in BOOLEAN : SetResolvable(i, live)
    \/ \E a \in Actions, d \in {"allow", "needs_approval", "deny"} : SetPolicy(a, d)
    \/ \E t \in Tools, state \in ApprovalState : SetApproval(t, state)
    \/ \E s \in Sessions :
        \/ \E a \in Actors, t \in Tools, type \in {"grant", "revoke"} :
               InsertAllowlistEvent(s, a, t, type)
        \/ CommitAllowlistEvent(s)
        \/ \E a \in Actors, t \in Tools \cup {"unknown"}, ok \in BOOLEAN : BeginCall(s, a, t, ok)
        \/ ReadInstance(s) \/ ReadQualification(s) \/ ReadAllowlist(s)
        \/ ReadPolicy(s) \/ ReadApproval(s) \/ RecordCall(s)
        \/ Abort(s)

Next == Step /\ Observe

Spec == Init /\ [][Next]_vars

-----------------------------------------------------------------------------
\* A call is allowed only if each gate it read was open at some instant of the
\* call: a revocation, a suspension or a policy in force before the call began
\* and not undone since stops it (_broker's separate statements).
GatesOpenDuringCall ==
    \A s \in Sessions :
        /\ session[s].op = "call" /\ session[s].gate = "record"
        /\ session[s].decision = "allowed_unverified_identity"
        => opened[s] = Gates

\* A mandatory action, and a tool whose contract asks for approval, is never
\* allowed, whatever its approvals say (_AUTHENTICATED_APPROVAL_PROVENANCES is empty).
ProtectedNeverAllowed ==
    \A c \in toolCalls \cup {session[s] : s \in {x \in Sessions : AtGate(x, "record")}} :
        c.decision = "allowed_unverified_identity" =>
            c.tool \notin ToolApproval /\ ToolAction[c.tool] \notin MandatoryActions

\* What an executed call shows: no approval of it was skipped, and every gate of
\* _broker stood open at some time of the call.
CallsPassOpenGates == ProtectedNeverAllowed /\ GatesOpenDuringCall
=============================================================================
