-------------------------- MODULE ToolBrokerProof --------------------------
(***************************************************************************)
(* Proofs about ToolBroker, for any agents, services, tools, policies and  *)
(* sessions: an executed call passed gates that stood open during it.      *)
(***************************************************************************)
EXTENDS ToolBroker, TLAPS

Allowed == "allowed_unverified_identity"

\* The gates a call has read by the time it stands at this one.
ReadBy(gate) ==
    {g \in Gates :
        \/ g = "live" /\ gate \in {"qualification", "allowlist", "policy", "approval", "record"}
        \/ g = "qualified" /\ gate \in {"allowlist", "policy", "approval", "record"}
        \/ g = "allowlisted" /\ gate \in {"policy", "approval", "record"}
        \/ g = "policy" /\ gate = "record"}

\* No contract and no mandatory action asks for an approval of the tool.
Unprotected(tool) == tool \notin ToolApproval /\ ToolAction[tool] \notin MandatoryActions

\* A call that is not refused has seen open what it has read, o being the gates
\* that were open at some time of it.
CallSound(j, o) ==
    j.op = "call" =>
        /\ j.gate # "record" => j.tool \in Tools
        /\ j.gate # "record" \/ j.decision = Allowed => ReadBy(j.gate) \subseteq o
        /\ j.gate = "record" /\ j.decision = Allowed => Unprotected(j.tool)

\* No policy allows a mandatory action outright.
MandatoryGated == \A a \in Actions : a \in MandatoryActions => policy[a] # "allow"

BrokerInv ==
    /\ TypeOK
    /\ MandatoryGated
    /\ \A s \in Sessions : CallSound(session[s], opened[s])
    /\ \A c \in toolCalls : c.decision = Allowed => Unprotected(c.tool)
-----------------------------------------------------------------------------
(* The history.                                                            *)

\* The history has its type after every step.
LEMMA ObservedTypes ==
    ASSUME TypeOK, Observe
    PROVE  opened' \in [Sessions -> SUBSET Gates]
<1>1. \A s \in Sessions : opened[s] \subseteq Gates /\ OpenGates(session[s])' \subseteq Gates
  BY DEF TypeOK, OpenGates
<1> QED
  BY <1>1 DEF Observe

\* What was open at some time of a call stays so while the call lasts, and what
\* is open after a step is recorded.
LEMMA Observed ==
    ASSUME TypeOK, Observe, NEW s \in Sessions, session'[s].op = "call"
    PROVE  /\ OpenGates(session[s])' \subseteq opened'[s]
           /\ session[s].op = "call" => opened[s] \subseteq opened'[s]
<1>1. opened'[s] = (IF session[s].op = "call" THEN opened[s] ELSE {}) \cup OpenGates(session[s])'
  BY DEF Observe
<1> QED
  BY <1>1

\* A session that a step leaves alone keeps what its call has seen.
LEMMA OthersSound ==
    ASSUME TypeOK, Observe, NEW s \in Sessions, session'[s] = session[s],
           CallSound(session[s], opened[s])
    PROVE  CallSound(session'[s], opened'[s])
<1>1. CASE session[s].op = "call"
  <2>1. opened[s] \subseteq opened'[s]
    BY <1>1, Observed
  <2> QED
    BY <2>1 DEF CallSound
<1>2. CASE session[s].op # "call"
  BY <1>2 DEF CallSound
<1> QED
  BY <1>1, <1>2

\* A call is a record with these fields.
LEMMA CallFields ==
    ASSUME TypeOK, NEW s \in Sessions, session[s].op = "call"
    PROVE  session[s] \in [op : {"call"}, actor : Actors, tool : Tools \cup {"unknown"},
                           decision : Decision,
                           gate : {"instance", "qualification", "allowlist", "policy", "approval",
                                   "record"}]
BY DEF TypeOK, Jobs, Idle
-----------------------------------------------------------------------------
(* Steps.                                                                  *)

\* What a step owes the sessions, whatever table it changes.
Sound ==
    /\ session \in [Sessions -> Jobs]
    /\ \A s \in Sessions : CallSound(session[s], opened[s])

\* A step that replaces what one session does keeps the sessions sound if the
\* new doing is.
LEMMA OneSession ==
    ASSUME BrokerInv, Observe, NEW s \in Sessions, NEW j \in Jobs,
           session' = [session EXCEPT ![s] = j],
           CallSound(j, opened'[s])
    PROVE  Sound'
<1>1. session \in [Sessions -> Jobs] /\ TypeOK
  BY DEF BrokerInv, TypeOK
<1>2. session' \in [Sessions -> Jobs]
  BY <1>1
<1>3. ASSUME NEW r \in Sessions
      PROVE  CallSound(session'[r], opened'[r])
  <2>1. CASE r = s
    <3>1. session'[s] = j
      BY <1>1
    <3> QED
      BY <2>1, <3>1
  <2>2. CASE r # s
    <3>1. session'[r] = session[r]
      BY <1>1, <2>2
    <3>2. CallSound(session[r], opened[r])
      BY DEF BrokerInv
    <3> QED
      BY <1>1, <3>1, <3>2, OthersSound
  <2> QED
    BY <2>1, <2>2
<1> QED
  BY <1>2, <1>3 DEF Sound

\* A step that leaves every session alone keeps them sound.
LEMMA NoSession ==
    ASSUME BrokerInv, Observe, session' = session
    PROVE  Sound'
<1>1. session \in [Sessions -> Jobs] /\ TypeOK
  BY DEF BrokerInv, TypeOK
<1>2. ASSUME NEW r \in Sessions
      PROVE  CallSound(session'[r], opened'[r])
  <2>1. CallSound(session[r], opened[r]) /\ session'[r] = session[r]
    BY DEF BrokerInv
  <2> QED
    BY <1>1, <2>1, OthersSound
<1> QED
  BY <1>1, <1>2 DEF Sound

\* A session that makes no call has nothing to show.
LEMMA NoCallSound ==
    ASSUME NEW j, NEW o, j.op # "call"
    PROVE  CallSound(j, o)
BY DEF CallSound

\* A call that finds the gate it reads open goes on to the next.
LEMMA AdvanceSound ==
    ASSUME BrokerInv, Observe, NEW s \in Sessions, NEW from, NEW to,
           to \in {"qualification", "allowlist", "policy", "approval"},
           AtGate(s, from), from # "record", Advance(s, to),
           ReadBy(to) \subseteq ReadBy(from) \cup OpenGates(session[s])'
    PROVE  Sound'
<1> DEFINE j == [session[s] EXCEPT !.gate = to]
<1>1. TypeOK /\ session[s].op = "call" /\ session[s].gate = from
      /\ CallSound(session[s], opened[s]) /\ session \in [Sessions -> Jobs]
  BY DEF BrokerInv, AtGate, TypeOK
<1>2. session' = [session EXCEPT ![s] = j]
  BY DEF Advance
<1>3. j \in Jobs /\ j.op = "call" /\ j.gate = to /\ j.tool = session[s].tool
  BY <1>1, CallFields DEF Jobs
<1>4. session'[s] = j
  BY <1>1, <1>2
<1>5. OpenGates(session[s])' \subseteq opened'[s] /\ opened[s] \subseteq opened'[s]
  BY <1>1, <1>3, <1>4, Observed
<1>6. j.tool \in Tools /\ ReadBy(from) \subseteq opened[s]
  BY <1>1, <1>3 DEF CallSound
<1>7. ReadBy(to) \subseteq opened'[s]
  BY <1>5, <1>6
<1>8. CallSound(j, opened'[s])
  BY <1>3, <1>6, <1>7 DEF CallSound
<1> HIDE DEF j
<1> QED
  BY <1>2, <1>3, <1>8, OneSession

\* A call that is refused claims nothing.
LEMMA RefuseSound ==
    ASSUME BrokerInv, Observe, NEW s \in Sessions, NEW d \in Decision \ {Allowed},
           session[s].op = "call", Settle(s, d)
    PROVE  Sound'
<1> DEFINE j == [session[s] EXCEPT !.gate = "record", !.decision = d]
<1>1. TypeOK /\ session \in [Sessions -> Jobs]
  BY DEF BrokerInv, TypeOK
<1>2. session' = [session EXCEPT ![s] = j]
  BY DEF Settle
<1>3. j \in Jobs /\ j.gate = "record" /\ j.decision = d
  BY <1>1, CallFields DEF Jobs
<1>4. CallSound(j, opened'[s])
  BY <1>3 DEF CallSound
<1> HIDE DEF j
<1> QED
  BY <1>2, <1>3, <1>4, OneSession

\* The policy gate is the last one a call that is allowed reads.
LEMMA AllowSound ==
    ASSUME BrokerInv, Observe, NEW s \in Sessions, AtGate(s, "policy"), Settle(s, Allowed),
           "policy" \in OpenGates(session[s])',
           Unprotected(session[s].tool)
    PROVE  Sound'
<1> DEFINE j == [session[s] EXCEPT !.gate = "record", !.decision = Allowed]
<1>1. TypeOK /\ session[s].op = "call" /\ session[s].gate = "policy"
      /\ CallSound(session[s], opened[s]) /\ session \in [Sessions -> Jobs]
  BY DEF BrokerInv, AtGate, TypeOK
<1>2. session' = [session EXCEPT ![s] = j]
  BY DEF Settle
<1>3. Allowed \in Decision
  BY DEF Allowed, Decision
<1>4. j \in Jobs /\ j.op = "call" /\ j.gate = "record" /\ j.tool = session[s].tool
  BY <1>1, <1>3, CallFields DEF Jobs
<1>5. session'[s] = j
  BY <1>1, <1>2
<1>6. OpenGates(session[s])' \subseteq opened'[s] /\ opened[s] \subseteq opened'[s]
  BY <1>1, <1>4, <1>5, Observed
<1>7. ReadBy("policy") \subseteq opened[s]
  BY <1>1 DEF CallSound
<1>8. ReadBy("record") \subseteq ReadBy("policy") \cup {"policy"}
  BY DEF ReadBy
<1>9. CallSound(j, opened'[s])
  BY <1>4, <1>6, <1>7, <1>8 DEF CallSound
<1> HIDE DEF j
<1> QED
  BY <1>2, <1>4, <1>9, OneSession

\* is_allowed's newest event is a grant that no later-numbered event took back.
LEMMA AllowedIsInForce ==
    ASSUME Parameters, TypeOK, NEW j, IsAllowed(j.actor, j.tool)
    PROVE  GrantInForce(j)
<1>1. PICK e \in EventsFor(j.actor, j.tool) :
          e.type = "grant" /\ \A f \in EventsFor(j.actor, j.tool) : f.seq <= e.seq
  BY DEF IsAllowed
<1>2. \A f \in EventsFor(j.actor, j.tool) : f.seq \in Nat
  BY DEF EventsFor, TypeOK, AllowlistEvent, Parameters
<1>3. \A f \in EventsFor(j.actor, j.tool) : ~(f.seq > e.seq)
  BY <1>1, <1>2
<1> QED
  BY <1>1, <1>3 DEF GrantInForce

\* The steps of others: none touches a session.
LEMMA OutsideKeeps ==
    ASSUME BrokerInv, Observe,
           \/ \E i \in Instances : Qualify(i) \/ \E live \in BOOLEAN : SetResolvable(i, live)
           \/ \E a \in Actions, d \in {"allow", "needs_approval", "deny"} : SetPolicy(a, d)
           \/ \E t \in Tools, state \in ApprovalState : SetApproval(t, state)
    PROVE  BrokerInv'
<1>1. session' = session /\ seq' = seq /\ toolCalls' = toolCalls /\ allowlist' = allowlist
  BY DEF Qualify, SetResolvable, SetPolicy, SetApproval
<1>2. agent' \in [Instances -> [resolvable : BOOLEAN, qualified : BOOLEAN]]
  <2>1. agent \in [Instances -> [resolvable : BOOLEAN, qualified : BOOLEAN]]
    BY DEF BrokerInv, TypeOK
  <2>2. ASSUME NEW i \in Instances, Qualify(i)
        PROVE  agent' \in [Instances -> [resolvable : BOOLEAN, qualified : BOOLEAN]]
    BY <2>1, <2>2 DEF Qualify
  <2>3. ASSUME NEW i \in Instances, NEW live \in BOOLEAN, SetResolvable(i, live)
        PROVE  agent' \in [Instances -> [resolvable : BOOLEAN, qualified : BOOLEAN]]
    BY <2>1, <2>3 DEF SetResolvable
  <2> QED
    BY <2>1, <2>2, <2>3 DEF SetPolicy, SetApproval
<1>3. policy' \in [Actions -> {"allow", "needs_approval", "deny"}] /\ MandatoryGated'
  <2>1. policy \in [Actions -> {"allow", "needs_approval", "deny"}] /\ MandatoryGated
    BY DEF BrokerInv, TypeOK
  <2>2. ASSUME NEW a \in Actions, NEW d \in {"allow", "needs_approval", "deny"}, SetPolicy(a, d)
        PROVE  policy' \in [Actions -> {"allow", "needs_approval", "deny"}] /\ MandatoryGated'
    BY <2>1, <2>2 DEF SetPolicy, MandatoryGated
  <2>3. CASE policy' = policy
    BY <2>1, <2>3 DEF MandatoryGated
  <2> QED
    BY <2>2, <2>3 DEF Qualify, SetResolvable, SetApproval
<1>4. approval' \in [Tools -> ApprovalState]
  BY DEF BrokerInv, TypeOK, SetApproval, SetPolicy, Qualify, SetResolvable
<1>5. opened' \in [Sessions -> SUBSET Gates] /\ Sound'
  BY <1>1, NoSession, ObservedTypes DEF BrokerInv
<1>6. TypeOK'
  BY <1>1, <1>2, <1>3, <1>4, <1>5 DEF BrokerInv, TypeOK, Sound
<1> QED
  BY <1>1, <1>3, <1>5, <1>6 DEF BrokerInv, Sound

\* A step of a session that leaves the committed tables alone.
LEMMA SessionKeeps ==
    ASSUME BrokerInv, Observe, Sound', UNCHANGED tables, seq' \in 0..MaxSeq
    PROVE  BrokerInv'
<1>1. opened' \in [Sessions -> SUBSET Gates]
  BY ObservedTypes DEF BrokerInv
<1>2. TypeOK'
  BY <1>1 DEF BrokerInv, TypeOK, Sound, tables
<1> QED
  BY <1>2 DEF BrokerInv, Sound, MandatoryGated, tables

\* Grants and revocations carry the numbers they drew.
LEMMA AllowlistKeeps ==
    ASSUME Parameters, BrokerInv, Observe, NEW s \in Sessions,
           \/ \E a \in Actors, t \in Tools, type \in {"grant", "revoke"} :
                  InsertAllowlistEvent(s, a, t, type)
           \/ CommitAllowlistEvent(s)
           \/ Abort(s)
    PROVE  BrokerInv'
<1>1. TypeOK /\ seq \in 0..MaxSeq /\ MaxSeq \in Nat /\ session[s] \in Jobs
  BY DEF BrokerInv, TypeOK, Parameters
<1>2. Idle \in Jobs /\ CallSound(Idle, opened'[s])
  BY DEF Idle, Jobs, CallSound
<1>3. ASSUME NEW a \in Actors, NEW t \in Tools, NEW type \in {"grant", "revoke"},
             InsertAllowlistEvent(s, a, t, type)
      PROVE  BrokerInv'
  <2> DEFINE e == [actor |-> a, tool |-> t, type |-> type, seq |-> seq + 1]
             j == [op |-> "allowlist", event |-> e]
  <2>1. seq + 1 \in 1..MaxSeq /\ seq' \in 0..MaxSeq
    BY <1>1, <1>3 DEF InsertAllowlistEvent
  <2>2. e \in AllowlistEvent
    BY <2>1 DEF AllowlistEvent
  <2>3. j \in Jobs /\ j.op # "call"
    BY <2>2 DEF Jobs
  <2>4. session' = [session EXCEPT ![s] = j] /\ UNCHANGED tables
    BY <1>3 DEF InsertAllowlistEvent
  <2> HIDE DEF j
  <2>5. CallSound(j, opened'[s])
    BY <2>3, NoCallSound
  <2>6. Sound'
    BY <2>3, <2>4, <2>5, OneSession
  <2> QED
    BY <2>1, <2>4, <2>6, SessionKeeps
<1>4. CASE CommitAllowlistEvent(s)
  <2>1. session[s].event \in AllowlistEvent
    BY <1>1, <1>4 DEF CommitAllowlistEvent, Jobs, Idle
  <2>2. allowlist' \subseteq AllowlistEvent
    BY <2>1, <1>4 DEF CommitAllowlistEvent, BrokerInv, TypeOK
  <2>3. session' = [session EXCEPT ![s] = Idle]
        /\ UNCHANGED <<agent, policy, approval, toolCalls, seq>>
    BY <1>4 DEF CommitAllowlistEvent
  <2>4. Sound' /\ opened' \in [Sessions -> SUBSET Gates]
    BY <1>1, <1>2, <2>3, OneSession, ObservedTypes
  <2>5. TypeOK'
    BY <2>2, <2>3, <2>4 DEF BrokerInv, TypeOK, Sound
  <2> QED
    BY <2>3, <2>4, <2>5 DEF BrokerInv, Sound, MandatoryGated
<1>5. CASE Abort(s)
  <2>1. session' = [session EXCEPT ![s] = Idle] /\ UNCHANGED tables /\ seq' = seq
    BY <1>5 DEF Abort
  <2>2. Sound'
    BY <1>2, <2>1, OneSession
  <2> QED
    BY <1>1, <2>1, <2>2, SessionKeeps
<1> QED
  BY <1>3, <1>4, <1>5

\* A call begins before its first gate; a service's identity is its own.
LEMMA BeginKeeps ==
    ASSUME BrokerInv, Observe, NEW s \in Sessions, NEW a \in Actors,
           NEW t \in Tools \cup {"unknown"}, NEW ok \in BOOLEAN, BeginCall(s, a, t, ok)
    PROVE  BrokerInv'
<1> DEFINE refused == ~ok \/ t \notin Tools
           gate == IF refused THEN "record"
                   ELSE IF a \in Services THEN "allowlist" ELSE "instance"
           decision == IF refused
                       THEN IF ~ok THEN "denied_invalid_params" ELSE "denied_unknown_tool"
                       ELSE Allowed
           j == [op |-> "call", actor |-> a, tool |-> t, gate |-> gate, decision |-> decision]
<1>1. session' = [session EXCEPT ![s] = j] /\ UNCHANGED tables /\ seq' = seq
  BY DEF BeginCall, Allowed
<1>2. /\ gate \in {"instance", "allowlist", "record"} /\ decision \in Decision
      /\ gate = "record" => decision # Allowed
      /\ gate # "record" => t \in Tools
      /\ gate = "allowlist" => a \in Services
  BY DEF Decision, Allowed
<1> HIDE DEF gate, decision
<1>3. j \in Jobs /\ j.op = "call" /\ j.gate = gate /\ j.decision = decision /\ j.tool = t /\ j.actor = a
  BY <1>2 DEF Jobs
<1> HIDE DEF j
<1>4. TypeOK /\ session \in [Sessions -> Jobs] /\ seq \in 0..MaxSeq
  BY DEF BrokerInv, TypeOK
<1>5. session'[s] = j
  BY <1>1, <1>4
<1>6. OpenGates(session[s])' \subseteq opened'[s]
  BY <1>3, <1>4, <1>5, Observed
<1>7. gate # "record" => ReadBy(gate) \subseteq OpenGates(session[s])'
  BY <1>2, <1>3, <1>5 DEF ReadBy, OpenGates
<1>8. CallSound(j, opened'[s])
  BY <1>2, <1>3, <1>6, <1>7 DEF CallSound
<1>9. Sound'
  BY <1>1, <1>3, <1>8, OneSession
<1> QED
  BY <1>1, <1>4, <1>9, SessionKeeps

\* The gates of one call, read one after the other.
LEMMA ReadKeeps ==
    ASSUME Parameters, BrokerInv, Observe, NEW s \in Sessions,
           \/ ReadInstance(s) \/ ReadQualification(s) \/ ReadAllowlist(s)
           \/ ReadPolicy(s) \/ ReadApproval(s)
    PROVE  BrokerInv'
<1>1. TypeOK /\ seq \in 0..MaxSeq /\ session \in [Sessions -> Jobs] /\ session[s].op = "call"
  BY DEF BrokerInv, TypeOK, ReadInstance, ReadQualification, ReadAllowlist, ReadPolicy,
         ReadApproval, AtGate
<1>2. {"denied_unknown_agent", "denied_unqualified_agent", "denied_not_allowlisted",
       "denied_policy", "needs_approval", "needs_authenticated_approval"}
          \subseteq Decision \ {Allowed}
  BY DEF Decision, Allowed
<1>3. UNCHANGED tables /\ seq' = seq
  BY DEF ReadInstance, ReadQualification, ReadAllowlist, ReadPolicy, ReadApproval, Advance, Settle
<1>4. ASSUME \/ \E d \in Decision : Settle(s, d)
             \/ \E g \in {"qualification", "allowlist", "policy", "approval"} : Advance(s, g)
      PROVE  /\ session[s]'.actor = session[s].actor /\ session[s]'.tool = session[s].tool
             /\ session[s]'.op = "call"
  <2>1. session[s] \in [op : {"call"}, actor : Actors, tool : Tools \cup {"unknown"},
                        decision : Decision,
                        gate : {"instance", "qualification", "allowlist", "policy", "approval",
                                "record"}]
    BY <1>1, CallFields
  <2>2. ASSUME NEW d \in Decision, Settle(s, d)
        PROVE  session[s]' = [session[s] EXCEPT !.gate = "record", !.decision = d]
    BY <1>1, <2>2 DEF Settle
  <2>3. ASSUME NEW g, Advance(s, g)
        PROVE  session[s]' = [session[s] EXCEPT !.gate = g]
    BY <1>1, <2>3 DEF Advance
  <2> QED
    BY <1>4, <2>1, <2>2, <2>3
<1>5. CASE ReadInstance(s)
  <2>1. CASE agent[session[s].actor].resolvable /\ Advance(s, "qualification")
    <3>1. "live" \in OpenGates(session[s])'
      BY <1>3, <1>4, <2>1 DEF OpenGates, Gates, tables
    <3>2. ReadBy("qualification") \subseteq ReadBy("instance") \cup {"live"}
      BY DEF ReadBy
    <3>3. AtGate(s, "instance")
      BY <1>5 DEF ReadInstance
    <3> QED
      BY <1>1, <1>3, <2>1, <3>1, <3>2, <3>3, AdvanceSound, SessionKeeps
  <2>2. CASE Settle(s, "denied_unknown_agent")
    BY <1>1, <1>2, <1>3, <2>2, RefuseSound, SessionKeeps
  <2> QED
    BY <1>5, <2>1, <2>2 DEF ReadInstance
<1>6. CASE ReadQualification(s)
  <2>1. CASE agent[session[s].actor].qualified /\ Advance(s, "allowlist")
    <3>1. "qualified" \in OpenGates(session[s])'
      BY <1>3, <1>4, <2>1 DEF OpenGates, Gates, tables
    <3>2. ReadBy("allowlist") \subseteq ReadBy("qualification") \cup {"qualified"}
      BY DEF ReadBy
    <3>3. AtGate(s, "qualification")
      BY <1>6 DEF ReadQualification
    <3> QED
      BY <1>1, <1>3, <2>1, <3>1, <3>2, <3>3, AdvanceSound, SessionKeeps
  <2>2. CASE Settle(s, "denied_unqualified_agent")
    BY <1>1, <1>2, <1>3, <2>2, RefuseSound, SessionKeeps
  <2> QED
    BY <1>6, <2>1, <2>2 DEF ReadQualification
<1>7. CASE ReadAllowlist(s)
  <2>1. CASE IsAllowed(session[s].actor, session[s].tool) /\ Advance(s, "policy")
    <3>1. GrantInForce(session[s])
      BY <1>1, <2>1, AllowedIsInForce
    <3>2. GrantInForce(session[s])'
      BY <1>3, <1>4, <2>1, <3>1 DEF GrantInForce, EventsFor, tables
    <3>3. "allowlisted" \in OpenGates(session[s])'
      BY <3>2 DEF OpenGates, Gates
    <3>4. ReadBy("policy") \subseteq ReadBy("allowlist") \cup {"allowlisted"}
      BY DEF ReadBy
    <3>5. AtGate(s, "allowlist")
      BY <1>7 DEF ReadAllowlist
    <3> QED
      BY <1>1, <1>3, <2>1, <3>3, <3>4, <3>5, AdvanceSound, SessionKeeps
  <2>2. CASE Settle(s, "denied_not_allowlisted")
    BY <1>1, <1>2, <1>3, <2>2, RefuseSound, SessionKeeps
  <2> QED
    BY <1>7, <2>1, <2>2 DEF ReadAllowlist
<1>8. CASE ReadPolicy(s)
  <2> DEFINE t == session[s].tool
             d == policy[ToolAction[t]]
  <2>1. AtGate(s, "policy") /\ t \in Tools
    BY <1>1, <1>8 DEF ReadPolicy, BrokerInv, CallSound, AtGate
  <2>2. CASE Settle(s, "denied_policy")
    BY <1>1, <1>2, <1>3, <2>2, RefuseSound, SessionKeeps
  <2>3. CASE Advance(s, "approval")
    <3>1. ReadBy("approval") \subseteq ReadBy("policy")
      BY DEF ReadBy
    <3> QED
      BY <1>1, <1>3, <2>1, <2>3, <3>1, AdvanceSound, SessionKeeps
  <2>4. CASE d # "deny" /\ ~(t \in ToolApproval \/ d = "needs_approval") /\ Settle(s, Allowed)
    <3>1. ToolAction[t] \in Actions
      BY <2>1 DEF Actions
    <3>2. d = "allow"
      BY <1>1, <2>4, <3>1 DEF TypeOK
    <3>3. Unprotected(t)
      BY <2>4, <3>1, <3>2 DEF BrokerInv, MandatoryGated, Unprotected
    <3>4. Allowed \in Decision
      BY DEF Allowed, Decision
    <3>5. "policy" \in OpenGates(session[s])'
      BY <1>3, <1>4, <2>1, <2>4, <3>2, <3>4 DEF OpenGates, Gates, tables
    <3> QED
      BY <1>1, <1>3, <2>1, <2>4, <3>3, <3>5, AllowSound, SessionKeeps
  <2> QED
    BY <1>8, <2>2, <2>3, <2>4 DEF ReadPolicy, Allowed
<1>9. CASE ReadApproval(s)
  <2>1. Settle(s, "needs_approval") \/ Settle(s, "needs_authenticated_approval")
    BY <1>9 DEF ReadApproval, AuthenticatedApprovalProvenances
  <2> QED
    BY <1>1, <1>2, <1>3, <2>1, RefuseSound, SessionKeeps
<1> QED
  BY <1>5, <1>6, <1>7, <1>8, <1>9

\* A settled call is recorded as it was settled.
LEMMA RecordKeeps ==
    ASSUME BrokerInv, Observe, NEW s \in Sessions, RecordCall(s)
    PROVE  BrokerInv'
<1> DEFINE c == [actor |-> session[s].actor, tool |-> session[s].tool,
                 decision |-> session[s].decision]
<1>1. TypeOK /\ session[s].op = "call" /\ session[s].gate = "record"
      /\ CallSound(session[s], opened[s])
  BY DEF RecordCall, AtGate, BrokerInv
<1>2. c \in ToolCall /\ (c.decision = Allowed => Unprotected(c.tool))
  BY <1>1, CallFields DEF ToolCall, CallSound
<1>3. toolCalls' = toolCalls \cup {c} /\ session' = [session EXCEPT ![s] = Idle]
      /\ UNCHANGED <<agent, allowlist, policy, approval, seq>>
  BY DEF RecordCall
<1> HIDE DEF c
<1>4. Idle \in Jobs /\ CallSound(Idle, opened'[s])
  BY DEF Idle, Jobs, CallSound
<1>5. Sound' /\ opened' \in [Sessions -> SUBSET Gates]
  BY <1>1, <1>3, <1>4, OneSession, ObservedTypes
<1>6. toolCalls' \subseteq ToolCall
      /\ \A r \in toolCalls' : r.decision = Allowed => Unprotected(r.tool)
  BY <1>2, <1>3 DEF BrokerInv, TypeOK
<1>7. TypeOK'
  BY <1>3, <1>5, <1>6 DEF BrokerInv, TypeOK, Sound
<1> QED
  BY <1>3, <1>5, <1>6, <1>7 DEF BrokerInv, Sound, MandatoryGated
-----------------------------------------------------------------------------
(* The theorems.                                                           *)

\* The broker's tables have their types, no policy allows a mandatory action
\* outright, and every call under way has seen open the gates it has passed,
\* whatever grants, suspensions and policies change between its statements.
THEOREM BrokerInvariant ==
    ASSUME Parameters
    PROVE  Spec => []BrokerInv
<1>1. Init => BrokerInv
  <2> SUFFICES ASSUME Init PROVE BrokerInv
    OBVIOUS
  <2>1. agent \in [Instances -> [resolvable : BOOLEAN, qualified : BOOLEAN]]
        /\ session \in [Sessions -> Jobs] /\ 0 \in 0..MaxSeq
    BY DEF Init, Jobs, Parameters
  <2>2. TypeOK
    BY <2>1 DEF Init, TypeOK, ApprovalState, Gates
  <2>3. MandatoryGated
    BY DEF Init, MandatoryGated
  <2>4. \A s \in Sessions : CallSound(session[s], opened[s])
    BY DEF Init, CallSound, Idle
  <2> QED
    BY <2>2, <2>3, <2>4 DEF Init, BrokerInv
<1>2. BrokerInv /\ [Next]_vars => BrokerInv'
  <2> SUFFICES ASSUME BrokerInv, [Next]_vars PROVE BrokerInv'
    OBVIOUS
  <2>1. CASE UNCHANGED vars
    BY <2>1 DEF BrokerInv, TypeOK, MandatoryGated, vars, tables
  <2>2. CASE Next
    <3>1. Step /\ Observe
      BY <2>2 DEF Next
    <3>2. CASE \E s \in Sessions :
                 \/ \E a \in Actors, t \in Tools, type \in {"grant", "revoke"} :
                        InsertAllowlistEvent(s, a, t, type)
                 \/ CommitAllowlistEvent(s) \/ Abort(s)
      BY <3>1, <3>2, AllowlistKeeps
    <3>3. CASE \E s \in Sessions, a \in Actors, t \in Tools \cup {"unknown"}, ok \in BOOLEAN :
                   BeginCall(s, a, t, ok)
      BY <3>1, <3>3, BeginKeeps
    <3>4. CASE \E s \in Sessions : \/ ReadInstance(s) \/ ReadQualification(s)
                                   \/ ReadAllowlist(s) \/ ReadPolicy(s) \/ ReadApproval(s)
      BY <3>1, <3>4, ReadKeeps
    <3>5. CASE \E s \in Sessions : RecordCall(s)
      BY <3>1, <3>5, RecordKeeps
    <3> QED
      BY <3>1, <3>2, <3>3, <3>4, <3>5, OutsideKeeps, Zenon DEF Step
  <2> QED
    BY <2>1, <2>2
<1> QED
  BY <1>1, <1>2, PTL DEF Spec

\* Whatever happens between the statements of _broker, an executed call had
\* every gate open at some time of it, and neither a mandatory action nor a
\* tool whose contract asks for approval is ever executed.
THEOREM ExecutedCallsPassedGates ==
    ASSUME Parameters
    PROVE  Spec => []CallsPassOpenGates
<1>1. BrokerInv => CallsPassOpenGates
  <2> SUFFICES ASSUME BrokerInv PROVE CallsPassOpenGates
    OBVIOUS
  <2>1. GatesOpenDuringCall
    <3> SUFFICES ASSUME NEW s \in Sessions, session[s].op = "call", session[s].gate = "record",
                        session[s].decision = Allowed
                 PROVE  opened[s] = Gates
      BY DEF GatesOpenDuringCall, Allowed
    <3>1. ReadBy("record") = Gates
      BY DEF ReadBy, Gates
    <3>2. opened[s] \in SUBSET Gates /\ CallSound(session[s], opened[s])
      BY DEF BrokerInv, TypeOK
    <3> QED
      BY <3>1, <3>2 DEF CallSound
  <2>2. ProtectedNeverAllowed
    BY DEF ProtectedNeverAllowed, BrokerInv, CallSound, Unprotected, AtGate, Allowed
  <2> QED
    BY <2>1, <2>2 DEF CallsPassOpenGates
<1> QED
  BY <1>1, BrokerInvariant, PTL

=============================================================================
