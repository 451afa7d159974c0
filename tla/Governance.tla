----------------------------- MODULE Governance -----------------------------
(***************************************************************************)
(* The components that decide what agents may do, and the audit log they   *)
(* all write: approvals, agents and their qualification, the tool broker.  *)
(* They share no row, so a behavior steps one of them; what holds of the   *)
(* sum holds of each.                                                      *)
(***************************************************************************)
EXTENDS AuditChain

CONSTANTS
    Clients,                                                   \* their sessions
    Subjects, Mandatory, People, Requesters, Deciders, Tiers, Window, MaxClock,
    MaxApprovals,                                              \* Approvals
    Instances, Runs, CaseSets, Eval, MaxStamp, MaxQualificationRuns,  \* AgentRegistry
    Agents, Services, Tools, ToolAction, ToolApproval, MandatoryActions,
    MaxAllowlist                                               \* ToolBroker

VARIABLES
    component,      \* the one a behavior steps; the others stay as they began
    approvals, events, notifications, clock, deciding,              \* Approvals
    instance, realization, viaRun, qruns, signoffs, stamp, managing,  \* AgentRegistry
    agent, allowlist, policy, approval, toolCalls, seq, opened, calling  \* ToolBroker

avars == <<approvals, events, notifications, clock, deciding>>
rvars == <<instance, realization, viaRun, qruns, signoffs, stamp, managing>>
bvars == <<agent, allowlist, policy, approval, toolCalls, seq, opened, calling>>

A == INSTANCE Approvals WITH
        Actors <- People, MaxRows <- MaxApprovals, Sessions <- Clients, session <- deciding
R == INSTANCE AgentRegistry WITH Sessions <- Clients, session <- managing
B == INSTANCE ToolBroker WITH
        Instances <- Agents, MaxSeq <- MaxAllowlist, Sessions <- Clients, session <- calling

\* The parameters are ones the components make sense for.
ASSUME GovernanceParameters == A!Parameters /\ R!Parameters /\ B!Parameters

\* Every writer of the log uses one level, READ COMMITTED (the engine default) or
\* SERIALIZABLE; what a mix of them does is another question (MCAuditChain).
OneLevel ==
    \E level \in {"read_committed", "serializable"} :
        \A s \in Sessions : isolation[s] = level

GovernanceInit ==
    /\ component \in {"audit", "approvals", "registry", "broker"}
    /\ Init /\ OneLevel
    /\ A!Init /\ R!Init /\ B!Init

GovernanceNext ==
    /\ UNCHANGED component
    /\ \/ component = "audit" /\ Next /\ UNCHANGED <<avars, rvars, bvars>>
       \/ component = "approvals" /\ A!Next /\ UNCHANGED <<vars, rvars, bvars>>
       \/ component = "registry" /\ R!Next /\ UNCHANGED <<vars, avars, bvars>>
       \/ component = "broker" /\ B!Next /\ UNCHANGED <<vars, avars, rvars>>

gvars == <<component, vars, avars, rvars, bvars>>
GovernanceSpec == GovernanceInit /\ [][GovernanceNext]_gvars

-----------------------------------------------------------------------------
\* Every variable of the three components has its type.
GovernanceTypeOK == A!TypeOK /\ R!TypeOK /\ B!TypeOK

\* An approval request is decided at most once, and one nobody decided never
\* opens its gate (Approvals).
OnlyPeopleOpenGates == A!OnlyPeopleOpenGates

\* There is one live instance per realization key, and a qualified one has
\* passed and been signed off (AgentRegistry).
InstancesEarned == R!OneLiveInstance /\ R!QualifiedIsEarned

\* A mandatory action is never allowed without approval, and every gate of an
\* executed call was open at some time of it (ToolBroker).
CallsPassOpenGates == B!CallsPassOpenGates

\* The rows under an ok checkpoint never change (AuditChain), and an instance
\* keeps the run it was bound to (AgentRegistry).
HistoryHolds == [][CheckpointStep /\ R!RunBoundStep]_gvars
=============================================================================
