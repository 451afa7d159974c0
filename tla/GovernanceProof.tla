-------------------------- MODULE GovernanceProof --------------------------
(***************************************************************************)
(* What Governance keeps, for every number of sessions, people, instances  *)
(* and rows: the audit log and the agents are proved here, approvals and   *)
(* the broker in modules of their own, whose theorems are applied to the   *)
(* instances of the sum.                                                   *)
(***************************************************************************)
EXTENDS Governance, Sequences, WellFoundedInduction, TLAPS

-----------------------------------------------------------------------------
(* The audit log.                                                           *)

\* The types of the audit log are inductive, at any mix of isolation levels.
LEMMA LogTypes == TypeOK /\ [Next]_vars => TypeOK'
<1> SUFFICES ASSUME TypeOK, [Next]_vars PROVE TypeOK'
  OBVIOUS
<1> USE DEF TypeOK, Idle, Open
<1>0. isolation' = isolation
  BY DEF Next, vars
<1>1. ASSUME NEW s \in Sessions, Begin(s) PROVE TypeOK'
  BY <1>0, <1>1 DEF Begin, Txn
<1>2. ASSUME NEW s \in Sessions, AuditAppend(s) PROVE TypeOK'
  <2>1. PICK p \in {0} \cup {r.seq : r \in Visible(s) \cup txn[s].rows} :
          txn' = [txn EXCEPT ![s].rows = @ \cup {[seq |-> nextSeq, prev |-> p, by |-> s]}]
    BY <1>2 DEF AuditAppend
  <2>2. Visible(s) \subseteq Row /\ txn[s].rows \subseteq Row
    BY DEF Visible, Txn
  <2>3. p \in Nat
    BY <2>2 DEF Row
  <2>4. [seq |-> nextSeq, prev |-> p, by |-> s] \in Row
    BY <2>3 DEF Row
  <2>5. txn' \in [Sessions -> Txn]
    BY <2>1, <2>2, <2>4 DEF Txn
  <2> QED BY <1>0, <1>2, <2>5 DEF AuditAppend
<1>3. ASSUME NEW s \in Sessions, Commit(s) PROVE TypeOK'
  BY <1>0, <1>3 DEF Commit, Txn, NoTxn
<1>4. ASSUME NEW s \in Sessions, Abort(s) PROVE TypeOK'
  BY <1>0, <1>4 DEF Abort, Txn, NoTxn
<1>5. CASE RecordCheckpoint
  <2>1. PICK p \in {0} \cup {r.seq : r \in logs} :
          checkpoints' = checkpoints \cup
            {IF Verifies(logs) /\ logs # {}
               THEN [ok |-> TRUE, through |-> p]
               ELSE [ok |-> FALSE, through |-> 0]}
    BY <1>5 DEF RecordCheckpoint
  <2>2. p \in Nat
    BY DEF Row
  <2>3. [ok |-> TRUE, through |-> p] \in Checkpoint /\ [ok |-> FALSE, through |-> 0] \in Checkpoint
    BY <2>2 DEF Checkpoint
  <2>4. checkpoints' \subseteq Checkpoint
    BY <2>1, <2>3
  <2> QED BY <1>0, <1>5, <2>4 DEF RecordCheckpoint
<1>6. CASE UNCHANGED vars
  BY <1>6 DEF vars
<1> QED BY <1>1, <1>2, <1>3, <1>4, <1>5, <1>6 DEF Next

LEMMA LogBegins == Init => TypeOK
BY DEF Init, TypeOK, NoTxn, Txn, Row, Checkpoint, Idle, Open

\* The audit log keeps its types and the advisory lock has one holder
\* (migration 0003), at any mix of isolation levels.
THEOREM TypeCorrect == Spec => []TypeOK
BY LogBegins, LogTypes, PTL DEF Spec

\* What holds of the log at any mix of levels.  Only the holder of lock 421 has
\* rows that are not committed; they come after every committed row and after
\* every tip that a checkpoint has named.
LogInv ==
    /\ TypeOK
    /\ \A r \in logs : r.seq < nextSeq
    /\ \A c \in checkpoints : c.ok => c.through < nextSeq
    /\ \A s \in Sessions :
         /\ txn[s].rows # {} => lock421 = {s}
         /\ \A r \in txn[s].rows :
              /\ r.seq < nextSeq
              /\ \A q \in logs : q.seq < r.seq
              /\ \A c \in checkpoints : c.ok => c.through < r.seq

LEMMA LogNumbers ==
    ASSUME TypeOK
    PROVE  /\ nextSeq \in Nat
           /\ \A r \in logs : r.seq \in Nat
           /\ \A s \in Sessions : \A r \in txn[s].rows : r \in Row /\ r.seq \in Nat
           /\ \A c \in checkpoints : c.through \in Nat
<1>1. \A s \in Sessions : txn[s] \in Txn
  BY DEF TypeOK
<1>2. \A s \in Sessions : txn[s].rows \subseteq Row
  BY <1>1 DEF Txn
<1>3. \A r \in Row : r.seq \in Nat
  BY DEF Row
<1>4. \A c \in Checkpoint : c.through \in Nat
  BY DEF Checkpoint
<1> QED BY <1>2, <1>3, <1>4 DEF TypeOK

\* The rows of a session that appends, and everybody else's.
LEMMA AppendRows ==
    ASSUME TypeOK, NEW s \in Sessions, AuditAppend(s)
    PROVE  \E new \in Row :
             /\ new.seq = nextSeq /\ new.by = s /\ IsTip(Visible(s) \cup txn[s].rows, new.prev)
             /\ txn' = [txn EXCEPT ![s].rows = @ \cup {new}]
             /\ txn'[s].rows = txn[s].rows \cup {new} /\ txn'[s].snapshot = txn[s].snapshot
             /\ \A t \in Sessions \ {s} : txn'[t] = txn[t]
<1>1. PICK p \in {0} \cup {r.seq : r \in Visible(s) \cup txn[s].rows} :
        /\ IsTip(Visible(s) \cup txn[s].rows, p)
        /\ txn' = [txn EXCEPT ![s].rows = @ \cup {[seq |-> nextSeq, prev |-> p, by |-> s]}]
  BY DEF AuditAppend
<1>2. txn \in [Sessions -> Txn] /\ txn[s] \in Txn /\ logs \subseteq Row /\ nextSeq \in Nat \ {0}
  BY DEF TypeOK
<1>3. Visible(s) \subseteq Row /\ txn[s].rows \subseteq Row
  BY <1>2 DEF Visible, Txn
<1>4. p \in Nat
  BY <1>3 DEF Row
<1> DEFINE new == [seq |-> nextSeq, prev |-> p, by |-> s]
<1>5. new \in Row /\ new.seq = nextSeq /\ new.by = s /\ new.prev = p
  BY <1>2, <1>4 DEF Row
<1> HIDE DEF new
<1>6. txn' = [txn EXCEPT ![s].rows = @ \cup {new}]
  BY <1>1 DEF new
<1>7. txn'[s].rows = txn[s].rows \cup {new} /\ txn'[s].snapshot = txn[s].snapshot
  BY <1>2, <1>6 DEF Txn
<1>8. \A t \in Sessions \ {s} : txn'[t] = txn[t]
  BY <1>2, <1>6
<1> QED BY <1>1, <1>5, <1>6, <1>7, <1>8

\* A session that ends, by commit or rollback, has no rows left.
LEMMA EndRows ==
    ASSUME TypeOK, NEW s \in Sessions, txn' = [txn EXCEPT ![s] = NoTxn]
    PROVE  /\ txn'[s].rows = {} /\ txn'[s].snapshot = {}
           /\ \A t \in Sessions \ {s} : txn'[t] = txn[t]
BY DEF TypeOK, NoTxn

LEMMA LogKeeps == ASSUME LogInv, [Next]_vars PROVE LogInv'
<1>0. TypeOK /\ TypeOK'
  BY LogTypes DEF LogInv
<1>n. /\ nextSeq \in Nat /\ \A r \in logs : r.seq \in Nat
      /\ \A s \in Sessions : \A r \in txn[s].rows : r \in Row /\ r.seq \in Nat
      /\ \A c \in checkpoints : c.through \in Nat
  BY <1>0, LogNumbers
<1>1. ASSUME NEW s \in Sessions, Begin(s) PROVE LogInv'
  <2>1. /\ txn' = [txn EXCEPT ![s] = [status |-> Open, snapshot |-> logs, rows |-> {}]]
        /\ UNCHANGED <<logs, nextSeq, lock421, checkpoints>>
    BY <1>1 DEF Begin
  <2>2. txn'[s].rows = {} /\ \A t \in Sessions \ {s} : txn'[t] = txn[t]
    BY <2>1, <1>0 DEF TypeOK
  <2>3. \A t \in Sessions : txn'[t].rows = {} \/ txn'[t].rows = txn[t].rows
    BY <2>2
  <2> QED BY <1>0, <2>1, <2>3 DEF LogInv
<1>2. ASSUME NEW s \in Sessions, AuditAppend(s) PROVE LogInv'
  <2>1. PICK new \in Row :
          /\ new.seq = nextSeq
          /\ txn'[s].rows = txn[s].rows \cup {new}
          /\ \A t \in Sessions \ {s} : txn'[t] = txn[t]
    BY <1>0, <1>2, AppendRows
  <2>2. /\ lock421 \subseteq {s} /\ lock421' = {s} /\ nextSeq' = nextSeq + 1
        /\ UNCHANGED <<logs, checkpoints>>
    BY <1>2 DEF AuditAppend
  <2>3. \A t \in Sessions \ {s} : txn'[t].rows = {}
    BY <2>1, <2>2 DEF LogInv
  <2>4. ASSUME NEW r \in txn[s].rows \cup {new}
        PROVE  /\ r.seq < nextSeq + 1
               /\ \A q \in logs : q.seq < r.seq
               /\ \A c \in checkpoints : c.ok => c.through < r.seq
    <3>1. CASE r = new
      BY <3>1, <2>1, <1>n DEF LogInv
    <3>2. CASE r \in txn[s].rows
      <4>1. r.seq < nextSeq /\ r.seq \in Nat
        BY <3>2, <1>n DEF LogInv
      <4> QED BY <3>2, <4>1, <1>n DEF LogInv
    <3> QED BY <3>1, <3>2
  <2>5. \A r \in logs : r.seq < nextSeq + 1
    BY <1>n DEF LogInv
  <2>6. \A c \in checkpoints : c.ok => c.through < nextSeq + 1
    BY <1>n DEF LogInv
  <2> QED BY <1>0, <2>1, <2>2, <2>3, <2>4, <2>5, <2>6 DEF LogInv
<1>3. ASSUME NEW s \in Sessions, Commit(s) PROVE LogInv'
  <2>1. /\ logs' = logs \cup txn[s].rows
        /\ txn' = [txn EXCEPT ![s] = NoTxn]
        /\ lock421' = lock421 \ {s}
        /\ UNCHANGED <<nextSeq, checkpoints>>
    BY <1>3 DEF Commit
  <2>2. txn'[s].rows = {} /\ \A t \in Sessions \ {s} : txn'[t] = txn[t]
    BY <1>0, <2>1, EndRows
  <2>3. \A r \in logs' : r.seq < nextSeq'
    BY <2>1 DEF LogInv
  <2>4. ASSUME NEW t \in Sessions, txn'[t].rows # {}
        PROVE  /\ lock421' = {t} /\ logs' = logs /\ txn'[t] = txn[t]
    BY <2>1, <2>2, <2>4 DEF LogInv
  <2> QED BY <1>0, <2>1, <2>3, <2>4 DEF LogInv
<1>4. ASSUME NEW s \in Sessions, Abort(s) PROVE LogInv'
  <2>1. /\ txn' = [txn EXCEPT ![s] = NoTxn]
        /\ lock421' = lock421 \ {s}
        /\ UNCHANGED <<logs, nextSeq, checkpoints>>
    BY <1>4 DEF Abort
  <2>2. txn'[s].rows = {} /\ \A t \in Sessions \ {s} : txn'[t] = txn[t]
    BY <1>0, <2>1, EndRows
  <2>3. ASSUME NEW t \in Sessions, txn'[t].rows # {}
        PROVE  lock421' = {t} /\ txn'[t] = txn[t]
    BY <2>1, <2>2, <2>3 DEF LogInv
  <2> QED BY <1>0, <2>1, <2>3 DEF LogInv
<1>5. CASE RecordCheckpoint
  <2>1. PICK p \in {0} \cup {r.seq : r \in logs} :
          checkpoints' = checkpoints \cup
            {IF Verifies(logs) /\ logs # {}
               THEN [ok |-> TRUE, through |-> p]
               ELSE [ok |-> FALSE, through |-> 0]}
    BY <1>5 DEF RecordCheckpoint
  <2>2. lock421 = {} /\ UNCHANGED <<logs, nextSeq, lock421, txn>>
    BY <1>5 DEF RecordCheckpoint
  <2>3. \A s \in Sessions : txn[s].rows = {}
    BY <2>2 DEF LogInv
  <2>4. nextSeq \in Nat \ {0} /\ p < nextSeq
    BY <1>0 DEF LogInv, TypeOK
  <2>5. \A c \in checkpoints' : c.ok => c.through < nextSeq
    <3> SUFFICES ASSUME NEW c \in checkpoints', c.ok PROVE c.through < nextSeq
      OBVIOUS
    <3>1. c \in checkpoints \/ c = [ok |-> TRUE, through |-> p] \/ c = [ok |-> FALSE, through |-> 0]
      BY <2>1
    <3>2. CASE c \in checkpoints
      BY <3>2 DEF LogInv
    <3>3. CASE c = [ok |-> TRUE, through |-> p]
      BY <3>3, <2>4
    <3> QED BY <3>1, <3>2, <3>3
  <2> QED BY <1>0, <2>2, <2>3, <2>5 DEF LogInv
<1>6. CASE UNCHANGED vars
  BY <1>0, <1>6 DEF vars, LogInv
<1> QED BY <1>1, <1>2, <1>3, <1>4, <1>5, <1>6 DEF Next

LEMMA LogInvBegins == Init => LogInv
BY LogBegins DEF Init, LogInv, NoTxn

LEMMA CheckpointsKept == ASSUME LogInv, [Next]_vars PROVE CheckpointStep
<1> SUFFICES ASSUME NEW c \in checkpoints, c.ok
             PROVE  Before(logs', c.through + 1) = Before(logs, c.through + 1)
  BY DEF CheckpointStep
<1>1. TypeOK
  BY DEF LogInv
<1>2. ASSUME NEW s \in Sessions, Commit(s)
      PROVE  Before(logs', c.through + 1) = Before(logs, c.through + 1)
  <2>1. logs' = logs \cup txn[s].rows
    BY <1>2 DEF Commit
  <2>2. ASSUME NEW r \in txn[s].rows PROVE ~(r.seq < c.through + 1)
    <3>1. c.through < r.seq /\ c.through \in Nat /\ r.seq \in Nat
      BY <1>1, LogNumbers DEF LogInv
    <3> QED BY <3>1
  <2> QED BY <2>1, <2>2 DEF Before
<1>3. (\E s \in Sessions : Commit(s)) \/ logs' = logs
  BY DEF Next, vars, Begin, AuditAppend, Abort, RecordCheckpoint
<1> QED BY <1>2, <1>3

\* No row that was uncommitted when a checkpoint named its tip comes to lie under
\* that tip (record_audit_chain_verification), at any mix of isolation levels.
THEOREM CheckpointsHold == Spec => [][CheckpointStep]_vars
<1>1. LogInv /\ [Next]_vars => LogInv'
  BY LogKeeps
<1>2. LogInv /\ [Next]_vars => [CheckpointStep]_vars
  BY CheckpointsKept
<1> QED BY LogInvBegins, <1>1, <1>2, PTL DEF Spec

\* A transaction that takes part in a SERIALIZABLE chain may have missed commits;
\* one that has missed none sees the whole log, like every READ COMMITTED one.
Fresh(s) == isolation[s] = "serializable" => logs \subseteq txn[s].snapshot

\* The inductive strengthening of ChainVerifies for writers of one level: the log
\* extended by the uncommitted rows of a fresh transaction verifies.
ChainInv ==
    /\ LogInv
    /\ OneLevel
    /\ ChainVerifies
    /\ \A s \in Sessions :
         /\ txn[s].snapshot \subseteq logs
         /\ Fresh(s) => Verifies(logs \cup txn[s].rows)

\* Adding a row above all others, linked to their tip, keeps a set verified.
LEMMA AppendVerifies ==
  ASSUME NEW S \in SUBSET Row, NEW r \in Row, Verifies(S),
         \A q \in S : q.seq < r.seq, IsTip(S, r.prev)
  PROVE  Verifies(S \cup {r})
<1> SUFFICES ASSUME NEW x \in S \cup {r} PROVE IsTip(Before(S \cup {r}, x.seq), x.prev)
  BY DEF Verifies
<1>1. CASE x = r
  <2>1. Before(S \cup {r}, x.seq) = S
    BY <1>1 DEF Before, Row
  <2> QED BY <1>1, <2>1
<1>2. CASE x \in S
  <2>1. Before(S \cup {r}, x.seq) = Before(S, x.seq)
    BY <1>2 DEF Before, Row
  <2> QED BY <1>2, <2>1 DEF Verifies
<1> QED BY <1>1, <1>2

\* A SERIALIZABLE transaction that has appended commits only if it is fresh.
LEMMA CommitIsFresh ==
    ASSUME ChainInv, NEW s \in Sessions, Commit(s), txn[s].rows # {}
    PROVE  Fresh(s)
<1> SUFFICES ASSUME isolation[s] = "serializable" PROVE logs \subseteq txn[s].snapshot
  BY DEF Fresh
<1>1. \A t \in Sessions : isolation[t] = "serializable"
  BY DEF ChainInv, OneLevel
<1>2. \A r \in logs : r.by \in Sessions
  BY DEF ChainInv, LogInv, TypeOK, Row
<1>3. ~SerializationConflict(s)
  BY DEF Commit
<1> QED BY <1>1, <1>2, <1>3 DEF SerializationConflict

LEMMA ChainKeeps == ASSUME ChainInv, [Next]_vars PROVE ChainInv'
<1>0. LogInv /\ TypeOK /\ LogInv' /\ OneLevel' /\ Verifies(logs)
  <2>1. isolation' = isolation
    BY DEF Next, vars
  <2> QED BY <2>1, LogKeeps DEF ChainInv, LogInv, OneLevel, ChainVerifies
<1>i. isolation' = isolation
  BY DEF Next, vars
<1>t. logs \subseteq Row /\ txn \in [Sessions -> Txn]
  BY <1>0 DEF TypeOK
<1>s. \A s \in Sessions : txn[s].snapshot \subseteq logs
  BY DEF ChainInv
<1>v. \A s \in Sessions : Fresh(s) => Verifies(logs \cup txn[s].rows)
  BY DEF ChainInv
<1>1. ASSUME NEW s \in Sessions, Begin(s) PROVE ChainInv'
  <2>1. /\ txn' = [txn EXCEPT ![s] = [status |-> Open, snapshot |-> logs, rows |-> {}]]
        /\ logs' = logs
    BY <1>1 DEF Begin
  <2>2. txn'[s].snapshot = logs /\ txn'[s].rows = {} /\ \A t \in Sessions \ {s} : txn'[t] = txn[t]
    BY <1>t, <2>1
  <2>3. \A t \in Sessions : txn'[t].snapshot \subseteq logs'
    BY <2>1, <2>2, <1>s
  <2>4. ASSUME NEW t \in Sessions, Fresh(t)' PROVE Verifies(logs' \cup txn'[t].rows)
    <3>1. CASE t = s
      <4>1. logs' \cup txn'[t].rows = logs
        BY <3>1, <2>1, <2>2
      <4> QED BY <4>1, <1>0
    <3>2. CASE t # s
      BY <3>2, <2>1, <2>2, <2>4, <1>v, <1>i DEF Fresh
    <3> QED BY <3>1, <3>2
  <2> QED BY <1>0, <2>1, <2>3, <2>4 DEF ChainInv, ChainVerifies, Verifies
<1>2. ASSUME NEW s \in Sessions, AuditAppend(s) PROVE ChainInv'
  <2>1. PICK new \in Row :
          /\ new.seq = nextSeq /\ IsTip(Visible(s) \cup txn[s].rows, new.prev)
          /\ txn'[s].rows = txn[s].rows \cup {new} /\ txn'[s].snapshot = txn[s].snapshot
          /\ \A t \in Sessions \ {s} : txn'[t] = txn[t]
    BY <1>0, <1>2, AppendRows
  <2>2. logs' = logs
    BY <1>2 DEF AuditAppend
  <2>3. \A t \in Sessions : txn'[t].snapshot \subseteq logs'
    BY <2>1, <2>2, <1>s
  <2>4. ASSUME NEW t \in Sessions, Fresh(t)' PROVE Verifies(logs' \cup txn'[t].rows)
    <3>1. CASE t = s
      <4>1. Fresh(s)
        BY <3>1, <2>1, <2>2, <2>4, <1>i DEF Fresh
      <4>2. Visible(s) = logs
        BY <4>1, <1>s DEF Fresh, Visible, ChainInv, OneLevel
      <4> DEFINE V == logs \cup txn[s].rows
      <4>3. V \in SUBSET Row
        BY <1>t DEF Txn
      <4>4. \A q \in V : q.seq < new.seq
        BY <1>0, <2>1 DEF LogInv
      <4>5. Verifies(V) /\ IsTip(V, new.prev)
        BY <4>1, <4>2, <2>1, <1>v
      <4> HIDE DEF V
      <4>6. Verifies(V \cup {new})
        BY <4>3, <4>4, <4>5, AppendVerifies
      <4>7. logs' \cup txn'[t].rows = V \cup {new}
        BY <3>1, <2>1, <2>2 DEF V
      <4> QED BY <4>6, <4>7
    <3>2. CASE t # s
      BY <3>2, <2>1, <2>2, <2>4, <1>v, <1>i DEF Fresh
    <3> QED BY <3>1, <3>2
  <2> QED BY <1>0, <2>2, <2>3, <2>4 DEF ChainInv, ChainVerifies, Verifies
<1>3. ASSUME NEW s \in Sessions, Commit(s) PROVE ChainInv'
  <2>1. /\ logs' = logs \cup txn[s].rows
        /\ txn' = [txn EXCEPT ![s] = NoTxn]
    BY <1>3 DEF Commit
  <2>2. /\ txn'[s].rows = {} /\ txn'[s].snapshot = {}
        /\ \A t \in Sessions \ {s} : txn'[t] = txn[t]
    BY <1>0, <2>1, EndRows
  <2>3. \A t \in Sessions : txn'[t].snapshot \subseteq logs'
    BY <2>1, <2>2, <1>s
  <2>4. Verifies(logs')
    <3>1. CASE txn[s].rows = {}
      <4>1. logs' = logs
        BY <3>1, <2>1
      <4> QED BY <4>1, <1>0
    <3>2. CASE txn[s].rows # {}
      BY <3>2, <2>1, <1>3, <1>v, CommitIsFresh
    <3> QED BY <3>1, <3>2
  <2>5. ASSUME NEW t \in Sessions, Fresh(t)' PROVE Verifies(logs' \cup txn'[t].rows)
    <3>1. CASE txn'[t].rows = {}
      <4>1. logs' \cup txn'[t].rows = logs'
        BY <3>1
      <4> QED BY <4>1, <2>4
    <3>2. CASE txn'[t].rows # {}
      <4>1. txn'[t] = txn[t] /\ txn[s].rows = {}
        BY <3>2, <2>2, <1>0, <1>3 DEF LogInv, Commit
      <4>2. logs' = logs
        BY <4>1, <2>1
      <4> QED BY <4>1, <4>2, <2>5, <1>v, <1>i DEF Fresh
    <3> QED BY <3>1, <3>2
  <2> QED BY <1>0, <2>3, <2>4, <2>5 DEF ChainInv, ChainVerifies, Verifies
<1>4. ASSUME NEW s \in Sessions, Abort(s) PROVE ChainInv'
  <2>1. logs' = logs /\ txn' = [txn EXCEPT ![s] = NoTxn]
    BY <1>4 DEF Abort
  <2>2. /\ txn'[s].rows = {} /\ txn'[s].snapshot = {}
        /\ \A t \in Sessions \ {s} : txn'[t] = txn[t]
    BY <1>0, <2>1, EndRows
  <2>3. \A t \in Sessions : txn'[t].snapshot \subseteq logs'
    BY <2>1, <2>2, <1>s
  <2>4. ASSUME NEW t \in Sessions, Fresh(t)' PROVE Verifies(logs' \cup txn'[t].rows)
    <3>1. CASE t = s
      <4>1. logs' \cup txn'[t].rows = logs
        BY <3>1, <2>1, <2>2
      <4> QED BY <4>1, <1>0
    <3>2. CASE t # s
      BY <3>2, <2>1, <2>2, <2>4, <1>v, <1>i DEF Fresh
    <3> QED BY <3>1, <3>2
  <2> QED BY <1>0, <2>1, <2>3, <2>4 DEF ChainInv, ChainVerifies, Verifies
<1>5. CASE UNCHANGED <<logs, txn>>
  <2>1. \A t \in Sessions : Fresh(t)' => Fresh(t)
    BY <1>5, <1>i DEF Fresh
  <2> QED BY <1>0, <1>5, <2>1, <1>s, <1>v DEF ChainInv, ChainVerifies, Verifies
<1>6. \/ \E s \in Sessions : Begin(s) \/ AuditAppend(s) \/ Commit(s) \/ Abort(s)
      \/ UNCHANGED <<logs, txn>>
  BY DEF Next, vars, RecordCheckpoint
<1> QED BY <1>1, <1>2, <1>3, <1>4, <1>5, <1>6

LEMMA ChainBegins == ASSUME Init, OneLevel PROVE ChainInv
BY LogInvBegins DEF Init, ChainInv, ChainVerifies, Verifies, NoTxn

\* audit_verify always returns ok while all writers use one level: READ COMMITTED
\* ones link to what is committed, and of SERIALIZABLE ones those that missed a
\* commit are refused theirs, for any number of sessions (migration 0003).
THEOREM OneLevelChainVerifies == Spec /\ OneLevel => []ChainVerifies
<1>1. ChainInv /\ [Next]_vars => ChainInv'
  BY ChainKeeps
<1>2. ChainInv => ChainVerifies
  BY DEF ChainInv
<1>3. Init /\ OneLevel => ChainInv
  BY ChainBegins
<1> QED BY <1>1, <1>2, <1>3, PTL DEF Spec

-----------------------------------------------------------------------------
(* Agents and their qualification.                                          *)

\* Every inhabited set of numbers has a least one.
LEMMA NatLeast ==
    ASSUME NEW T \in SUBSET Nat, T # {} PROVE \E x \in T : \A y \in T : x <= y
<1>1. PICK x \in T : \A y \in T : ~ (<<y, x>> \in OpToRel(<, Nat))
  BY NatLessThanWellFounded, WFMin
<1>2. ASSUME NEW y \in T PROVE x <= y
  <2>1. <<y, x>> \in Nat \X Nat /\ <<y, x>>[1] = y /\ <<y, x>>[2] = x
    OBVIOUS
  <2>2. ~(y < x)
    BY <1>1, <2>1 DEF OpToRel
  <2> QED BY <2>2
<1> QED BY <1>2

\* A run that qualifies an instance: its own, passed, and signed off by both roles.
Earned(i, r) ==
    /\ r \in DOMAIN qruns /\ qruns[r].instance = i /\ qruns[r].verdict = "passed"
    /\ \A role \in R!Roles : \E o \in signoffs :
           o.run = r /\ o.role = role /\ o.status = "approved"

Live(i) == instance[i].status \in R!LiveStatuses

RegistryInv ==
    /\ R!TypeOK
    /\ Len(qruns) <= MaxQualificationRuns
    /\ \A i, k \in Instances : Live(i) /\ Live(k) => i = k
    /\ \A i \in Instances : realization[i] = "qualified" => Earned(i, viaRun[i])
    /\ \A s \in Clients :
           managing[s].op = "qualify" => Earned(managing[s].instance, managing[s].run)

\* The newest of some sign-offs exists: request times are bounded numbers.
LEMMA NewestSignOff ==
    ASSUME R!Parameters, R!TypeOK, NEW r, NEW role, R!Of(r, role) # {}
    PROVE  R!LatestSignOff(r, role) \in R!Of(r, role)
<1> DEFINE Age(o) == MaxStamp - o.requested_at
           Ages == {Age(o) : o \in R!Of(r, role)}
<1>1. \A o \in R!Of(r, role) : o.requested_at \in 1..MaxStamp
  BY DEF R!TypeOK, R!SignOff, R!Of
<1>2. \A o \in R!Of(r, role) : Age(o) \in Nat
  BY <1>1 DEF R!Parameters
<1>3. Ages \in SUBSET Nat /\ Ages # {}
  BY <1>2
<1>4. PICK a \in Ages : \A b \in Ages : a <= b
  BY <1>3, NatLeast
<1>5. PICK o \in R!Of(r, role) : a = Age(o)
  BY <1>4
<1>6. ASSUME NEW p \in R!Of(r, role) PROVE p.requested_at <= o.requested_at
  <2>1. MaxStamp - o.requested_at <= MaxStamp - p.requested_at
    BY <1>4, <1>5
  <2>2. o.requested_at \in Nat /\ p.requested_at \in Nat
    BY <1>1
  <2> QED BY <2>1, <2>2 DEF R!Parameters
<1>7. \E q \in R!Of(r, role) : \A p \in R!Of(r, role) : p.requested_at <= q.requested_at
  BY <1>6
<1> QED BY <1>7 DEF R!LatestSignOff

\* What a step leaves as it was stays earned; runs and approvals only come.
LEMMA EarnedStays ==
    ASSUME NEW i, NEW r, Earned(i, r),
           DOMAIN qruns \subseteq DOMAIN qruns', \A x \in DOMAIN qruns : qruns'[x] = qruns[x],
           \A o \in signoffs : o.status = "approved" => o \in signoffs'
    PROVE  Earned(i, r)'
BY DEF Earned

LEMMA RegistryTypes ==
    ASSUME RegistryInv
    PROVE  /\ instance \in [Instances -> R!AgentInstance]
           /\ realization \in [Instances -> R!RealizationStatus]
           /\ viaRun \in [Instances -> 0..MaxQualificationRuns]
           /\ qruns \in Seq(R!QualificationRun)
           /\ DOMAIN qruns = 1..Len(qruns) /\ Len(qruns) \in Nat
           /\ signoffs \subseteq R!SignOff
           /\ managing \in [Clients -> R!Jobs]
           /\ stamp \in 0..MaxStamp
BY DEF RegistryInv, R!TypeOK

LEMMA JobTypes ==
    ASSUME RegistryInv, NEW s \in Clients
    PROVE  /\ managing[s].op = "lifecycle" =>
                /\ managing[s].instance \in Instances /\ managing[s].target \in R!InstanceStatus
                /\ managing[s].run \in Runs /\ managing[s].seen \in R!AgentInstance
           /\ managing[s].op = "signoffs" =>
                /\ managing[s].run \in 1..MaxQualificationRuns /\ managing[s].at \in 1..MaxStamp
                /\ managing[s].missing \subseteq R!Roles
           /\ managing[s].op = "qualify" =>
                managing[s].instance \in Instances /\ managing[s].run \in 1..MaxQualificationRuns
<1>1. managing[s] \in R!Jobs
  BY RegistryTypes
<1> QED BY <1>1 DEF R!Jobs, R!Idle

\* A session moves on to a job that fits, and nothing else of what the invariant
\* says of sessions changes.
LEMMA SessionMoves ==
    ASSUME RegistryInv, NEW s \in Clients, NEW job \in R!Jobs,
           managing' = [managing EXCEPT ![s] = job],
           \A i, r : Earned(i, r) => Earned(i, r)',
           job.op = "qualify" => Earned(job.instance, job.run)'
    PROVE  /\ managing' \in [Clients -> R!Jobs]
           /\ \A t \in Clients :
                managing'[t].op = "qualify" => Earned(managing[t].instance, managing[t].run)'
<1>1. managing \in [Clients -> R!Jobs]
  BY RegistryTypes
<1>2. managing' \in [Clients -> R!Jobs]
  BY <1>1
<1>3. ASSUME NEW t \in Clients, managing'[t].op = "qualify"
      PROVE  Earned(managing[t].instance, managing[t].run)'
  <2>1. CASE t = s
    <3>1. managing'[t] = job
      BY <2>1, <1>1
    <3> QED BY <3>1, <1>3 DEF Earned
  <2>2. CASE t # s
    <3>1. managing'[t] = managing[t]
      BY <2>2, <1>1
    <3>2. Earned(managing[t].instance, managing[t].run)
      BY <3>1, <1>3 DEF RegistryInv
    <3>3. PICK i, r : i = managing[t].instance /\ r = managing[t].run
      OBVIOUS
    <3>4. Earned(i, r)'
      BY <3>2, <3>3
    <3> QED BY <3>1, <3>3, <3>4 DEF Earned
  <2> QED BY <2>1, <2>2
<1> QED BY <1>2, <1>3

\* A step that moves sessions only, to jobs that fit.
LEMMA OnlySessions ==
    ASSUME RegistryInv, UNCHANGED R!tables, stamp' \in 0..MaxStamp,
           managing' \in [Clients -> R!Jobs],
           \A t \in Clients :
               managing'[t].op = "qualify" => Earned(managing[t].instance, managing[t].run)'
    PROVE  RegistryInv'
<1>1. R!TypeOK'
  BY DEF RegistryInv, R!TypeOK, R!tables
<1>2. \A i, r : Earned(i, r) <=> Earned(i, r)'
  BY DEF R!tables, Earned
<1> QED BY <1>1, <1>2 DEF RegistryInv, R!tables, Live

LEMMA RealizeKeeps ==
    ASSUME RegistryInv, NEW i \in Instances, R!Realize(i) PROVE RegistryInv'
<1>1. /\ instance' = [instance EXCEPT ![i].status = "registered"]
      /\ realization' = [realization EXCEPT ![i] = "unqualified"]
      /\ UNCHANGED <<viaRun, qruns, signoffs, managing, stamp>> /\ R!KeyFree(i)
  BY DEF R!Realize
<1>2. R!TypeOK'
  <2>1. [instance[i] EXCEPT !.status = "registered"] \in R!AgentInstance
    BY RegistryTypes DEF R!AgentInstance, R!InstanceStatus
  <2>2. instance' \in [Instances -> R!AgentInstance]
    BY <1>1, <2>1, RegistryTypes
  <2>3. realization' \in [Instances -> R!RealizationStatus]
    BY <1>1, RegistryTypes DEF R!RealizationStatus
  <2> QED BY <1>1, <2>2, <2>3, RegistryTypes DEF R!TypeOK
<1>3. \A k, r : Earned(k, r) <=> Earned(k, r)'
  BY <1>1 DEF Earned
<1>4. ASSUME NEW k \in Instances, realization'[k] = "qualified" PROVE Earned(k, viaRun[k])'
  <2>1. realization[k] = "qualified" /\ viaRun'[k] = viaRun[k]
    BY <1>1, <1>4, RegistryTypes
  <2>2. Earned(k, viaRun[k])
    BY <2>1 DEF RegistryInv
  <2> QED BY <2>1, <2>2, <1>1 DEF Earned
<1>5. \A k \in Instances : Live(k)' => k = i
  BY <1>1, RegistryTypes DEF Live, R!KeyFree
<1>6. \A s \in Clients :
        managing'[s].op = "qualify" => Earned(managing[s].instance, managing[s].run)'
  BY <1>1 DEF RegistryInv, Earned
<1> QED BY <1>1, <1>2, <1>4, <1>5, <1>6 DEF RegistryInv

LEMMA StoreKeeps ==
    ASSUME RegistryInv, NEW s \in Clients, R!StoreInstance(s) PROVE RegistryInv'
<1> DEFINE j == managing[s]
           i == j.instance
           newRun == IF j.target = "active" THEN j.run ELSE j.seen.active_run_id
           status == IF j.target # j.seen.status THEN j.target ELSE instance[i].status
           run == IF newRun # j.seen.active_run_id THEN newRun ELSE instance[i].active_run_id
           row == [status |-> status, active_run_id |-> run]
<1>1. /\ j.op = "lifecycle"
      /\ status \in R!LiveStatuses => R!KeyFree(i)
      /\ instance' = [instance EXCEPT ![i] = row]
      /\ managing' = [managing EXCEPT ![s] = R!Idle]
      /\ UNCHANGED <<realization, viaRun, qruns, signoffs, stamp>>
  BY DEF R!StoreInstance
<1>2. /\ i \in Instances /\ j.target \in R!InstanceStatus /\ j.run \in Runs
      /\ j.seen \in R!AgentInstance
      /\ instance[i] \in R!AgentInstance
  BY <1>1, JobTypes, RegistryTypes
<1>3. row \in R!AgentInstance
  BY <1>2 DEF R!AgentInstance
<1> HIDE DEF row
<1>4. R!Idle \in R!Jobs /\ R!Idle.op # "qualify"
  BY DEF R!Jobs, R!Idle
<1>5. \A k, r : Earned(k, r) => Earned(k, r)'
  BY <1>1 DEF Earned
<1>6. /\ managing' \in [Clients -> R!Jobs]
      /\ \A t \in Clients :
           managing'[t].op = "qualify" => Earned(managing[t].instance, managing[t].run)'
  BY <1>1, <1>4, <1>5, SessionMoves
<1>7. R!TypeOK'
  BY <1>1, <1>2, <1>3, <1>6, RegistryTypes DEF R!TypeOK
<1>8. ASSUME NEW k \in Instances, NEW l \in Instances, Live(k)', Live(l)' PROVE k = l
  <2>1. \A m \in Instances \ {i} : instance'[m] = instance[m]
    BY <1>1, RegistryTypes
  <2>2. CASE k # i /\ l # i
    BY <2>1, <2>2, <1>8 DEF Live, RegistryInv
  <2>3. CASE (k = i /\ l # i) \/ (k # i /\ l = i)
    <3>1. instance'[i].status \in R!LiveStatuses
      BY <2>3, <1>8 DEF Live
    <3>2. instance'[i] = row
      BY <1>1, <1>2, RegistryTypes
    <3>3. R!KeyFree(i)
      BY <3>1, <3>2, <1>1 DEF Live, row
    <3> QED BY <3>3, <2>1, <2>3, <1>8 DEF R!KeyFree, Live
  <2> QED BY <2>2, <2>3
<1>9. ASSUME NEW k \in Instances, realization'[k] = "qualified" PROVE Earned(k, viaRun[k])'
  BY <1>9, <1>1 DEF RegistryInv, Earned
<1> QED BY <1>1, <1>6, <1>7, <1>8, <1>9 DEF RegistryInv


LEMMA RecordKeeps ==
    ASSUME R!Parameters, RegistryInv, NEW i \in Instances, NEW cases \in CaseSets,
           R!RecordQualificationRun(i, cases)
    PROVE  RegistryInv'
<1> DEFINE new == [instance |-> i, verdict |-> R!ExpectedVerdict(cases)]
<1>1. /\ Len(qruns) < MaxQualificationRuns /\ qruns' = Append(qruns, new)
      /\ UNCHANGED <<instance, realization, viaRun, signoffs, managing, stamp>>
  BY DEF R!RecordQualificationRun
<1>2. new \in R!QualificationRun
  BY DEF R!QualificationRun, R!ExpectedVerdict
<1> HIDE DEF new
<1>3. /\ qruns' \in Seq(R!QualificationRun) /\ Len(qruns') = Len(qruns) + 1
      /\ DOMAIN qruns \subseteq DOMAIN qruns' /\ \A x \in DOMAIN qruns : qruns'[x] = qruns[x]
  BY <1>1, <1>2, RegistryTypes
<1>4. R!TypeOK'
  BY <1>1, <1>3, RegistryTypes DEF R!TypeOK
<1>5. Len(qruns') <= MaxQualificationRuns
  BY <1>1, <1>3, RegistryTypes DEF R!Parameters
<1>6. \A k, r : Earned(k, r) => Earned(k, r)'
  BY <1>1, <1>3, EarnedStays
<1>7. \A k \in Instances : realization'[k] = "qualified" => Earned(k, viaRun'[k])
  BY <1>1 DEF RegistryInv
<1>8. \A k \in Instances : realization'[k] = "qualified" => Earned(k, viaRun[k])'
  BY <1>1, <1>6, <1>7 DEF Earned
<1>9. \A s \in Clients :
        managing'[s].op = "qualify" => Earned(managing[s].instance, managing[s].run)'
  <2>1. ASSUME NEW s \in Clients, managing'[s].op = "qualify"
        PROVE  Earned(managing[s].instance, managing[s].run)'
    <3>1. Earned(managing[s].instance, managing[s].run)
      BY <1>1, <2>1 DEF RegistryInv
    <3> QED BY <3>1, <1>1, <1>3 DEF Earned
  <2> QED BY <2>1
<1> QED BY <1>1, <1>4, <1>5, <1>8, <1>9 DEF RegistryInv, Live

LEMMA SignOffsKeep ==
    ASSUME RegistryInv, UNCHANGED <<instance, realization, viaRun, qruns>>,
           signoffs' \subseteq R!SignOff, stamp' \in 0..MaxStamp,
           \A o \in signoffs : o.status = "approved" => o \in signoffs',
           managing' \in [Clients -> R!Jobs],
           \A s \in Clients : managing'[s].op = "qualify" => managing'[s] = managing[s]
    PROVE  RegistryInv'
<1>1. R!TypeOK'
  BY RegistryTypes DEF R!TypeOK
<1>2. \A k, r : Earned(k, r) => Earned(k, r)'
  BY EarnedStays
<1>3. ASSUME NEW k \in Instances, realization'[k] = "qualified" PROVE Earned(k, viaRun[k])'
  <2>1. Earned(k, viaRun[k])
    BY <1>3 DEF RegistryInv
  <2> QED BY <2>1 DEF Earned
<1>4. ASSUME NEW s \in Clients, managing'[s].op = "qualify"
      PROVE  Earned(managing[s].instance, managing[s].run)'
  <2>1. Earned(managing[s].instance, managing[s].run) /\ managing'[s] = managing[s]
    BY <1>4 DEF RegistryInv
  <2> QED BY <2>1 DEF Earned
<1> QED BY <1>1, <1>3, <1>4 DEF RegistryInv, Live

LEMMA CommitSignOffsKeeps ==
    ASSUME RegistryInv, NEW s \in Clients, R!CommitSignOffs(s) PROVE RegistryInv'
<1> DEFINE j == managing[s]
           new == {[run |-> j.run, role |-> role, requested_at |-> j.at, status |-> "pending"] :
                      role \in j.missing}
<1>1. /\ j.op = "signoffs" /\ signoffs' = signoffs \cup new
      /\ managing' = [managing EXCEPT ![s] = R!Idle]
      /\ UNCHANGED <<instance, realization, viaRun, qruns, stamp>>
  BY DEF R!CommitSignOffs
<1>2. new \subseteq R!SignOff
  BY <1>1, JobTypes DEF R!SignOff
<1> HIDE DEF new
<1>3. signoffs' \subseteq R!SignOff /\ signoffs \subseteq signoffs'
  BY <1>1, <1>2, RegistryTypes
<1>4. R!Idle \in R!Jobs /\ R!Idle.op # "qualify"
  BY DEF R!Jobs, R!Idle
<1>5. /\ managing' \in [Clients -> R!Jobs]
      /\ \A t \in Clients : managing'[t].op = "qualify" => managing'[t] = managing[t]
  BY <1>1, <1>4, RegistryTypes
<1>6. stamp' \in 0..MaxStamp
  BY <1>1, RegistryTypes
<1> QED BY <1>1, <1>3, <1>5, <1>6, SignOffsKeep

LEMMA DecideKeeps ==
    ASSUME RegistryInv, NEW o \in signoffs, NEW status \in {"approved", "rejected"},
           R!DecideSignOff(o, status)
    PROVE  RegistryInv'
<1> DEFINE new == [o EXCEPT !.status = status]
<1>1. /\ o.status = "pending" /\ signoffs' = (signoffs \ {o}) \cup {new}
      /\ UNCHANGED <<instance, realization, viaRun, qruns, managing, stamp>>
  BY DEF R!DecideSignOff
<1>2. o \in R!SignOff
  BY RegistryTypes
<1>3. new \in R!SignOff
  BY <1>2 DEF R!SignOff
<1> HIDE DEF new
<1>4. signoffs' \subseteq R!SignOff
  BY <1>1, <1>3, RegistryTypes
<1>5. \A p \in signoffs : p.status = "approved" => p \in signoffs'
  BY <1>1
<1>6. stamp' \in 0..MaxStamp /\ managing' \in [Clients -> R!Jobs]
  BY <1>1, RegistryTypes
<1> QED BY <1>1, <1>4, <1>5, <1>6, SignOffsKeep

LEMMA QualifyKeeps ==
    ASSUME RegistryInv, NEW s \in Clients, R!Qualify(s) PROVE RegistryInv'
<1> DEFINE j == managing[s]
           i == j.instance
<1>1. /\ j.op = "qualify"
      /\ realization' = [realization EXCEPT ![i] = "qualified"]
      /\ viaRun' = [viaRun EXCEPT ![i] = j.run]
      /\ managing' = [managing EXCEPT ![s] = R!Idle]
      /\ UNCHANGED <<instance, qruns, signoffs, stamp>>
  BY DEF R!Qualify
<1>2. Earned(i, j.run) /\ i \in Instances /\ j.run \in 1..MaxQualificationRuns
  BY <1>1, JobTypes DEF RegistryInv
<1>3. R!Idle \in R!Jobs /\ R!Idle.op # "qualify"
  BY DEF R!Jobs, R!Idle
<1>4. \A k, r : Earned(k, r) => Earned(k, r)'
  BY <1>1 DEF Earned
<1>5. /\ managing' \in [Clients -> R!Jobs]
      /\ \A t \in Clients :
           managing'[t].op = "qualify" => Earned(managing[t].instance, managing[t].run)'
  BY <1>1, <1>3, <1>4, SessionMoves
<1>6. R!TypeOK'
  <2>1. realization' \in [Instances -> R!RealizationStatus]
    BY <1>1, RegistryTypes DEF R!RealizationStatus
  <2>2. viaRun' \in [Instances -> 0..MaxQualificationRuns]
    <3>1. j.run \in 0..MaxQualificationRuns
      BY <1>2
    <3> QED BY <3>1, <1>1, RegistryTypes
  <2> QED BY <2>1, <2>2, <1>1, <1>5, RegistryTypes DEF R!TypeOK
<1>7. ASSUME NEW k \in Instances, realization'[k] = "qualified" PROVE Earned(k, viaRun[k])'
  <2>1. CASE k = i
    <3>1. viaRun'[k] = j.run
      BY <2>1, <1>1, RegistryTypes
    <3> QED BY <2>1, <3>1, <1>1, <1>2 DEF Earned
  <2>2. CASE k # i
    <3>1. viaRun'[k] = viaRun[k] /\ realization[k] = "qualified"
      BY <2>2, <1>1, <1>7, RegistryTypes
    <3>2. Earned(k, viaRun[k])
      BY <3>1 DEF RegistryInv
    <3> QED BY <3>1, <3>2, <1>1 DEF Earned
  <2> QED BY <2>1, <2>2
<1> QED BY <1>1, <1>5, <1>6, <1>7 DEF RegistryInv, Live

\* The steps that only move a session: loads, requests, checks and rollbacks.
LEMMA SessionStepsKeep ==
    ASSUME R!Parameters, RegistryInv, NEW s \in Clients,
           \/ \E i \in Instances, target \in {"active", "suspended", "retired"}, r \in Runs :
                  R!LoadInstance(s, i, target, r)
           \/ \E r \in DOMAIN qruns : R!RequestSignOffs(s, r)
           \/ \E i \in Instances, r \in DOMAIN qruns : R!CheckQualify(s, i, r)
           \/ R!Abort(s)
    PROVE  RegistryInv'
<1>1. SUFFICES ASSUME NEW job \in R!Jobs, managing' = [managing EXCEPT ![s] = job],
                      job.op = "qualify" => Earned(job.instance, job.run),
                      UNCHANGED R!tables, stamp' \in 0..MaxStamp
               PROVE  RegistryInv'
  <2>0. \A r \in DOMAIN qruns : r \in 1..MaxQualificationRuns
    BY RegistryTypes DEF RegistryInv, R!Parameters
  <2>1. ASSUME NEW i \in Instances, NEW target \in {"active", "suspended", "retired"},
               NEW r \in Runs, R!LoadInstance(s, i, target, r)
        PROVE  RegistryInv'
    <3> DEFINE new == [op |-> "lifecycle", instance |-> i, target |-> target, run |-> r,
                       seen |-> instance[i]]
    <3>1. new \in R!Jobs /\ new.op # "qualify"
      BY RegistryTypes DEF R!Jobs, R!InstanceStatus
    <3>2. managing' = [managing EXCEPT ![s] = new] /\ UNCHANGED <<R!tables, stamp>>
      BY <2>1 DEF R!LoadInstance
    <3> HIDE DEF new
    <3> QED BY <3>1, <3>2, <1>1, RegistryTypes
  <2>2. ASSUME NEW r \in DOMAIN qruns, R!RequestSignOffs(s, r) PROVE RegistryInv'
    <3> DEFINE new == [op |-> "signoffs", run |-> r, at |-> stamp + 1,
                       missing |-> {role \in R!Roles : R!Of(r, role) = {}}]
    <3>1. /\ stamp < MaxStamp /\ managing' = [managing EXCEPT ![s] = new]
          /\ stamp' = stamp + 1 /\ UNCHANGED R!tables
      BY <2>2 DEF R!RequestSignOffs
    <3>2. stamp' \in 1..MaxStamp
      BY <3>1, RegistryTypes DEF R!Parameters
    <3>3. new \in R!Jobs /\ new.op # "qualify"
      BY <3>1, <3>2, <2>0 DEF R!Jobs
    <3> HIDE DEF new
    <3>4. stamp' \in 0..MaxStamp
      BY <3>2
    <3> QED BY <3>1, <3>3, <3>4, <1>1
  <2>3. ASSUME NEW i \in Instances, NEW r \in DOMAIN qruns, R!CheckQualify(s, i, r)
        PROVE  RegistryInv'
    <3> DEFINE new == [op |-> "qualify", instance |-> i, run |-> r]
    <3>1. /\ qruns[r].instance = i /\ qruns[r].verdict = "passed" /\ R!SignedOff(r)
          /\ managing' = [managing EXCEPT ![s] = new] /\ UNCHANGED <<R!tables, stamp>>
      BY <2>3 DEF R!CheckQualify
    <3>2. ASSUME NEW role \in R!Roles
          PROVE  \E o \in signoffs : o.run = r /\ o.role = role /\ o.status = "approved"
      <4>1. R!Of(r, role) # {} /\ R!LatestSignOff(r, role).status = "approved"
        BY <3>1 DEF R!SignedOff
      <4>2. R!LatestSignOff(r, role) \in R!Of(r, role)
        BY <4>1, NewestSignOff DEF RegistryInv
      <4> QED BY <4>1, <4>2 DEF R!Of
    <3>3. Earned(i, r)
      BY <3>1, <3>2 DEF Earned
    <3>4. new \in R!Jobs
      BY <2>0 DEF R!Jobs
    <3>5. new.instance = i /\ new.run = r
      OBVIOUS
    <3> HIDE DEF new
    <3> QED BY <3>1, <3>3, <3>4, <3>5, <1>1, RegistryTypes
  <2>4. ASSUME R!Abort(s) PROVE RegistryInv'
    <3>1. managing' = [managing EXCEPT ![s] = R!Idle] /\ UNCHANGED <<R!tables, stamp>>
      BY <2>4 DEF R!Abort
    <3>2. R!Idle \in R!Jobs /\ R!Idle.op # "qualify"
      BY DEF R!Jobs, R!Idle
    <3> QED BY <3>1, <3>2, <1>1, RegistryTypes
  <2> QED BY <2>1, <2>2, <2>3, <2>4
<1>2. \A i, r : Earned(i, r) => Earned(i, r)'
  BY <1>1 DEF Earned, R!tables
<1>3. /\ managing' \in [Clients -> R!Jobs]
      /\ \A t \in Clients :
           managing'[t].op = "qualify" => Earned(managing[t].instance, managing[t].run)'
  BY <1>1, <1>2, SessionMoves
<1> QED BY <1>1, <1>3, OnlySessions


LEMMA RegistryBegins == ASSUME R!Parameters, R!Init PROVE RegistryInv
<1>1. \A i \in Instances : instance[i].status = "absent" /\ realization[i] = "absent"
  BY DEF R!Init
<1>2. \A s \in Clients : managing[s] = R!Idle
  BY DEF R!Init
<1>3. R!TypeOK
  BY DEF R!Init, R!TypeOK, R!AgentInstance, R!InstanceStatus, R!RealizationStatus,
         R!Jobs, R!Parameters
<1>4. Len(qruns) <= MaxQualificationRuns
  BY DEF R!Init, R!Parameters
<1>5. \A i \in Instances : ~Live(i) /\ realization[i] # "qualified"
  BY <1>1 DEF Live, R!LiveStatuses
<1>6. \A s \in Clients : managing[s].op # "qualify"
  BY <1>2 DEF R!Idle
<1> QED BY <1>3, <1>4, <1>5, <1>6 DEF RegistryInv

LEMMA RegistryGoesOn == ASSUME R!Parameters, RegistryInv, [R!Next]_R!vars PROVE RegistryInv'
<1>1. CASE UNCHANGED R!vars
  <2>1. UNCHANGED R!tables /\ UNCHANGED <<managing, stamp>>
    BY <1>1 DEF R!vars
  <2>2. \A i, r : Earned(i, r) => Earned(i, r)'
    BY <2>1 DEF R!tables, Earned
  <2>3. stamp' \in 0..MaxStamp /\ managing' \in [Clients -> R!Jobs]
    BY <2>1, RegistryTypes
  <2>4. \A s \in Clients : managing'[s].op = "qualify" => managing'[s] = managing[s]
    BY <2>1
  <2> QED BY <2>1, <2>3, <2>4, SignOffsKeep, RegistryTypes DEF R!tables
<1>2. CASE R!Next
  <2>1. ASSUME NEW s \in Clients, R!StoreInstance(s) PROVE RegistryInv'
    BY <2>1, StoreKeeps
  <2>2. ASSUME NEW s \in Clients, R!CommitSignOffs(s) PROVE RegistryInv'
    BY <2>2, CommitSignOffsKeeps
  <2>3. ASSUME NEW s \in Clients, R!Qualify(s) PROVE RegistryInv'
    BY <2>3, QualifyKeeps
  <2>4. ASSUME NEW i \in Instances, R!Realize(i) PROVE RegistryInv'
    BY <2>4, RealizeKeeps
  <2>5. ASSUME NEW i \in Instances, NEW cases \in CaseSets, R!RecordQualificationRun(i, cases)
        PROVE  RegistryInv'
    BY <2>5, RecordKeeps
  <2>6. ASSUME NEW o \in signoffs, NEW status \in {"approved", "rejected"},
               R!DecideSignOff(o, status)
        PROVE  RegistryInv'
    BY <2>6, DecideKeeps
  <2> QED BY <1>2, <2>1, <2>2, <2>3, <2>4, <2>5, <2>6, SessionStepsKeep DEF R!Next
<1> QED BY <1>1, <1>2

LEMMA RegistryEarns == ASSUME RegistryInv PROVE R!OneLiveInstance /\ R!QualifiedIsEarned
<1>1. R!OneLiveInstance
  BY DEF R!OneLiveInstance, RegistryInv, Live
<1>2. R!QualifiedIsEarned
  BY DEF R!QualifiedIsEarned, RegistryInv, Earned, R!Of
<1> QED BY <1>1, <1>2

LEMMA RunStaysBound == ASSUME R!Parameters, RegistryInv, [R!Next]_R!vars PROVE R!RunBoundStep
<1> SUFFICES ASSUME NEW i \in Instances, instance[i].active_run_id # R!NoRun
             PROVE  instance'[i].active_run_id = instance[i].active_run_id
  BY DEF R!RunBoundStep
<1>1. instance \in [Instances -> R!AgentInstance]
  BY RegistryTypes
<1>2. ASSUME NEW k \in Instances, R!Realize(k)
      PROVE  instance'[i].active_run_id = instance[i].active_run_id
  BY <1>1, <1>2 DEF R!Realize, R!AgentInstance
<1>3. ASSUME NEW s \in Clients, R!StoreInstance(s)
      PROVE  instance'[i].active_run_id = instance[i].active_run_id
  <2> DEFINE j == managing[s]
             k == j.instance
             newRun == IF j.target = "active" THEN j.run ELSE j.seen.active_run_id
             status == IF j.target # j.seen.status THEN j.target ELSE instance[k].status
             run == IF newRun # j.seen.active_run_id THEN newRun ELSE instance[k].active_run_id
  <2>1. /\ j.op = "lifecycle"
        /\ run # instance[k].active_run_id => instance[k].active_run_id \in {R!NoRun, run}
        /\ instance' = [instance EXCEPT ![k] = [status |-> status, active_run_id |-> run]]
    BY <1>3 DEF R!StoreInstance, R!RebindAllowed
  <2>2. k \in Instances
    BY <2>1, JobTypes
  <2> HIDE DEF run, status
  <2>3. CASE k = i
    <3>1. instance'[i].active_run_id = run
      BY <2>1, <2>3, <1>1
    <3> QED BY <3>1, <2>1, <2>3
  <2>4. CASE k # i
    BY <2>1, <2>4, <1>1
  <2> QED BY <2>3, <2>4
<1>4. CASE UNCHANGED instance
  BY <1>4
<1>5. \/ UNCHANGED instance
      \/ \E k \in Instances : R!Realize(k)
      \/ \E s \in Clients : R!StoreInstance(s)
  BY DEF R!Next, R!vars, R!tables, R!RecordQualificationRun, R!DecideSignOff, R!LoadInstance,
         R!RequestSignOffs, R!CommitSignOffs, R!CheckQualify, R!Qualify, R!Abort
<1> QED BY <1>2, <1>3, <1>4, <1>5

-----------------------------------------------------------------------------
(* The sum.  AP and BP are the components A and B with the theorems about    *)
(* them; definition by definition they are the same.                        *)

AP == INSTANCE ApprovalsProof WITH
        Actors <- People, MaxRows <- MaxApprovals, Sessions <- Clients, session <- deciding
BP == INSTANCE ToolBrokerProof WITH
        Instances <- Agents, MaxSeq <- MaxAllowlist, Sessions <- Clients, session <- calling

LEMMA SameApprovals == [A!Next]_avars => [AP!Next]_AP!vars
<1> USE DEF A!Idle, AP!Idle
<1>1. ASSUME NEW s \in Clients, NEW subject, NEW tier, NEW flag, NEW by,
             A!Request(s, subject, tier, flag, by)
      PROVE  AP!Request(s, subject, tier, flag, by)
  <2>1. A!Cardinality(A!Requesting) = AP!Cardinality(AP!Requesting)
    BY DEF A!Cardinality, AP!Cardinality, A!Requesting, AP!Requesting
  <2>2. A!Route(tier) = AP!Route(tier) /\ A!NoOne = AP!NoOne
    BY DEF A!Route, AP!Route, A!NoOne, AP!NoOne
  <2> QED BY <1>1, <2>1, <2>2 DEF A!Request, AP!Request
<1>2. ASSUME NEW s \in Clients, NEW i, NEW target, NEW by, A!BeginDecision(s, i, target, by)
      PROVE  AP!BeginDecision(s, i, target, by)
  BY <1>2 DEF A!BeginDecision, AP!BeginDecision, A!SelfApproval, AP!SelfApproval
<1>3. ASSUME NEW s \in Clients, NEW i, A!BeginLapse(s, i) PROVE AP!BeginLapse(s, i)
  <2>1. A!NoOne = AP!NoOne
    BY DEF A!NoOne, AP!NoOne
  <2> QED BY <1>3, <2>1 DEF A!BeginLapse, AP!BeginLapse, A!AutoTransition, AP!AutoTransition
<1>4. ASSUME NEW s \in Clients
      PROVE  /\ A!CommitRequest(s) => AP!CommitRequest(s)
             /\ A!Transition(s) => AP!Transition(s)
             /\ A!CommitDecision(s) => AP!CommitDecision(s)
             /\ A!Abort(s) => AP!Abort(s)
  <2>1. A!CommitRequest(s) => AP!CommitRequest(s)
    BY DEF A!CommitRequest, AP!CommitRequest
  <2>2. A!Transition(s) => AP!Transition(s)
    BY DEF A!Transition, AP!Transition, A!RowLocked, AP!RowLocked
  <2>3. A!CommitDecision(s) => AP!CommitDecision(s)
    BY DEF A!CommitDecision, AP!CommitDecision
  <2>4. A!Abort(s) => AP!Abort(s)
    BY DEF A!Abort, AP!Abort
  <2> QED BY <2>1, <2>2, <2>3, <2>4
<1>5. A!Tick => AP!Tick
  BY DEF A!Tick, AP!Tick
<1>6. A!HumanDecisions = AP!HumanDecisions
  BY DEF A!HumanDecisions, AP!HumanDecisions
<1>7. A!Next => AP!Next
  BY <1>1, <1>2, <1>3, <1>4, <1>5, <1>6 DEF A!Next, AP!Next
<1> QED BY <1>7 DEF avars, AP!vars

LEMMA SameBroker == [B!Next]_bvars => [BP!Next]_BP!vars
<1> USE DEF B!Idle, BP!Idle, B!tables, BP!tables
<1>1. ASSUME NEW s \in Clients, NEW a, NEW t, NEW type, B!InsertAllowlistEvent(s, a, t, type)
      PROVE  BP!InsertAllowlistEvent(s, a, t, type)
  BY <1>1 DEF B!InsertAllowlistEvent, BP!InsertAllowlistEvent
<1>2. ASSUME NEW s \in Clients, NEW a, NEW t, NEW ok, B!BeginCall(s, a, t, ok)
      PROVE  BP!BeginCall(s, a, t, ok)
  BY <1>2 DEF B!BeginCall, BP!BeginCall
<1>3. ASSUME NEW s \in Clients
      PROVE  /\ B!CommitAllowlistEvent(s) => BP!CommitAllowlistEvent(s)
             /\ B!RecordCall(s) => BP!RecordCall(s)
             /\ B!Abort(s) => BP!Abort(s)
  <2>1. B!CommitAllowlistEvent(s) => BP!CommitAllowlistEvent(s)
    BY DEF B!CommitAllowlistEvent, BP!CommitAllowlistEvent
  <2>2. B!RecordCall(s) => BP!RecordCall(s)
    BY DEF B!RecordCall, BP!RecordCall, B!AtGate, BP!AtGate
  <2>3. B!Abort(s) => BP!Abort(s)
    BY DEF B!Abort, BP!Abort
  <2> QED BY <2>1, <2>2, <2>3
<1>4. ASSUME NEW s \in Clients
      PROVE  /\ B!ReadInstance(s) => BP!ReadInstance(s)
             /\ B!ReadQualification(s) => BP!ReadQualification(s)
             /\ B!ReadAllowlist(s) => BP!ReadAllowlist(s)
             /\ B!ReadPolicy(s) => BP!ReadPolicy(s)
             /\ B!ReadApproval(s) => BP!ReadApproval(s)
  <2> USE DEF B!AtGate, BP!AtGate, B!Advance, BP!Advance, B!Settle, BP!Settle
  <2>1. B!ReadInstance(s) => BP!ReadInstance(s)
    BY DEF B!ReadInstance, BP!ReadInstance
  <2>2. B!ReadQualification(s) => BP!ReadQualification(s)
    BY DEF B!ReadQualification, BP!ReadQualification
  <2>3. B!ReadAllowlist(s) => BP!ReadAllowlist(s)
    BY DEF B!ReadAllowlist, BP!ReadAllowlist, B!IsAllowed, BP!IsAllowed, B!EventsFor, BP!EventsFor
  <2>4. B!ReadPolicy(s) => BP!ReadPolicy(s)
    BY DEF B!ReadPolicy, BP!ReadPolicy
  <2>5. B!ReadApproval(s) => BP!ReadApproval(s)
    BY DEF B!ReadApproval, BP!ReadApproval,
           B!AuthenticatedApprovalProvenances, BP!AuthenticatedApprovalProvenances
  <2> QED BY <2>1, <2>2, <2>3, <2>4, <2>5
<1>5. /\ \A i : B!Qualify(i) => BP!Qualify(i)
      /\ \A i, live : B!SetResolvable(i, live) => BP!SetResolvable(i, live)
      /\ \A a, d : B!SetPolicy(a, d) => BP!SetPolicy(a, d)
      /\ \A t, state : B!SetApproval(t, state) => BP!SetApproval(t, state)
  BY DEF B!Qualify, BP!Qualify, B!SetResolvable, BP!SetResolvable, B!SetPolicy, BP!SetPolicy,
         B!SetApproval, BP!SetApproval
<1>6. B!Actions = BP!Actions /\ B!Actors = BP!Actors /\ B!ApprovalState = BP!ApprovalState
  BY DEF B!Actions, BP!Actions, B!Actors, BP!Actors, B!ApprovalState, BP!ApprovalState
<1>7. B!Step => BP!Step
  BY <1>1, <1>2, <1>3, <1>4, <1>5, <1>6 DEF B!Step, BP!Step
<1>8. B!Observe => BP!Observe
  BY DEF B!Observe, BP!Observe, B!OpenGates, BP!OpenGates, B!Gates, BP!Gates,
         B!GrantInForce, BP!GrantInForce, B!EventsFor, BP!EventsFor
<1> QED BY <1>7, <1>8 DEF B!Next, BP!Next, bvars, BP!vars

\* A step of the sum is a step of every component or leaves it alone.
LEMMA SumSteps ==
    ASSUME [GovernanceNext]_gvars
    PROVE  [Next]_vars /\ [A!Next]_avars /\ [R!Next]_rvars /\ [B!Next]_bvars
BY DEF GovernanceNext, gvars, avars, rvars, bvars

LEMMA SumLog == GovernanceSpec => Spec /\ OneLevel
<1>1. GovernanceInit => Init /\ OneLevel
  BY DEF GovernanceInit
<1>2. [GovernanceNext]_gvars => [Next]_vars
  BY SumSteps
<1> QED BY <1>1, <1>2, PTL DEF GovernanceSpec, Spec

\* The invariant of the agents holds throughout the sum.
LEMMA SumRegistry == GovernanceSpec => []RegistryInv
<1>1. GovernanceInit => RegistryInv
  BY RegistryBegins, GovernanceParameters DEF GovernanceInit
<1>2. RegistryInv /\ [GovernanceNext]_gvars => RegistryInv'
  <2> SUFFICES ASSUME RegistryInv, [GovernanceNext]_gvars PROVE RegistryInv'
    OBVIOUS
  <2>1. [R!Next]_R!vars
    BY SumSteps DEF rvars, R!vars, R!tables
  <2> QED BY <2>1, RegistryGoesOn, GovernanceParameters
<1> QED BY <1>1, <1>2, PTL DEF GovernanceSpec

LEMMA SumApprovals == GovernanceSpec => []AP!ApprovalInv /\ []AP!OnlyPeopleOpenGates
<1>1. GovernanceInit => AP!Init
  BY DEF GovernanceInit, A!Init, AP!Init, A!Idle, AP!Idle
<1>2. [GovernanceNext]_gvars => [AP!Next]_AP!vars
  BY SumSteps, SameApprovals
<1>3. AP!Parameters
  BY GovernanceParameters DEF A!Parameters, AP!Parameters, A!RiskTier, AP!RiskTier,
     A!Identity, AP!Identity, A!NoOne, AP!NoOne, A!IsFiniteSet, AP!IsFiniteSet
<1>4. AP!Spec => []AP!ApprovalInv /\ []AP!OnlyPeopleOpenGates
  BY <1>3, AP!ApprovalInvariant, AP!PeopleOpenGates
<1> QED BY <1>1, <1>2, <1>4, PTL DEF GovernanceSpec, AP!Spec

LEMMA SumBroker == GovernanceSpec => []BP!BrokerInv /\ []BP!CallsPassOpenGates
<1>1. GovernanceInit => BP!Init
  BY DEF GovernanceInit, B!Init, BP!Init, B!Idle, BP!Idle, B!Actions, BP!Actions
<1>2. [GovernanceNext]_gvars => [BP!Next]_BP!vars
  BY SumSteps, SameBroker
<1>3. BP!Parameters
  BY GovernanceParameters DEF B!Parameters, BP!Parameters
<1>4. BP!Spec => []BP!BrokerInv /\ []BP!CallsPassOpenGates
  BY <1>3, BP!BrokerInvariant, BP!ExecutedCallsPassedGates
<1> QED BY <1>1, <1>2, <1>4, PTL DEF GovernanceSpec, BP!Spec

\* An approval request is decided at most once, whoever races the lapse, and only
\* a person other than the verified requester opens the gate of a mandatory
\* action (approvals.py).
THEOREM GatesOpenByPeople == GovernanceSpec => []OnlyPeopleOpenGates
<1>1. AP!OnlyPeopleOpenGates => OnlyPeopleOpenGates
  <2>1. AP!DecidedOnce => A!DecidedOnce
    BY DEF AP!DecidedOnce, A!DecidedOnce
  <2>2. AP!SilenceNeverOpens => A!SilenceNeverOpens
    BY DEF AP!SilenceNeverOpens, A!SilenceNeverOpens, AP!OpenedBy, A!OpenedBy,
           AP!LatestFor, A!LatestFor, AP!StatusBlocks, A!StatusBlocks, AP!NoOne, A!NoOne
  <2> QED BY <2>1, <2>2 DEF AP!OnlyPeopleOpenGates, OnlyPeopleOpenGates, A!OnlyPeopleOpenGates
<1> QED BY <1>1, SumApprovals, PTL

\* Every gate of an executed broker call stood open at some time of it, and no
\* mandatory action is executed (tools/broker.py, _broker).
THEOREM CallsPassGates == GovernanceSpec => []CallsPassOpenGates
<1>1. BP!CallsPassOpenGates => CallsPassOpenGates
  <2>1. BP!ProtectedNeverAllowed => B!ProtectedNeverAllowed
    BY DEF BP!ProtectedNeverAllowed, B!ProtectedNeverAllowed, BP!AtGate, B!AtGate
  <2>2. BP!GatesOpenDuringCall => B!GatesOpenDuringCall
    BY DEF BP!GatesOpenDuringCall, B!GatesOpenDuringCall, BP!Gates, B!Gates
  <2> QED BY <2>1, <2>2 DEF BP!CallsPassOpenGates, CallsPassOpenGates, B!CallsPassOpenGates
<1> QED BY <1>1, SumBroker, PTL

\* One instance of a realization key is live, whatever stale rows sessions write
\* back, and a qualified one has passed a run of its own that both roles signed
\* off (agents/registry.py, qualification.py and their triggers).
THEOREM AgentsEarnTheirPlace == GovernanceSpec => []InstancesEarned
<1>1. RegistryInv => InstancesEarned
  BY RegistryEarns DEF InstancesEarned
<1> QED BY <1>1, SumRegistry, PTL

\* Every row of approvals, agents and the broker has its type, and every call
\* under way carries what its statements read.
THEOREM GovernanceTypeCorrect == GovernanceSpec => []GovernanceTypeOK
<1>1. AP!ApprovalInv => A!TypeOK
  <2>1. AP!TypeOK => A!TypeOK
    BY DEF AP!TypeOK, A!TypeOK, AP!Approval, A!Approval, AP!ApprovalEvent, A!ApprovalEvent,
           AP!Status, A!Status, AP!Identity, A!Identity, AP!NoOne, A!NoOne, AP!RiskTier,
           A!RiskTier, AP!Jobs, A!Jobs, AP!Idle, A!Idle, AP!HumanDecisions, A!HumanDecisions
  <2> QED BY <2>1 DEF AP!ApprovalInv
<1>2. BP!BrokerInv => B!TypeOK
  <2>1. BP!TypeOK => B!TypeOK
    BY DEF BP!TypeOK, B!TypeOK, BP!AllowlistEvent, B!AllowlistEvent, BP!Actors, B!Actors,
           BP!Actions, B!Actions, BP!ToolCall, B!ToolCall, BP!Decision, B!Decision,
           BP!ApprovalState, B!ApprovalState, BP!Gates, B!Gates, BP!Jobs, B!Jobs,
           BP!Idle, B!Idle
  <2> QED BY <2>1 DEF BP!BrokerInv
<1>3. RegistryInv => R!TypeOK
  BY DEF RegistryInv
<1> QED BY <1>1, <1>2, <1>3, SumApprovals, SumBroker, SumRegistry, PTL DEF GovernanceTypeOK

\* The rows under an ok checkpoint of the audit log never change, and an instance
\* keeps the run it was bound to although two sessions may have loaded it unbound.
THEOREM HistoryStands == GovernanceSpec => HistoryHolds
<1>1. RegistryInv /\ [GovernanceNext]_gvars => R!RunBoundStep
  <2> SUFFICES ASSUME RegistryInv, [GovernanceNext]_gvars PROVE R!RunBoundStep
    OBVIOUS
  <2>1. [R!Next]_R!vars
    BY SumSteps DEF rvars, R!vars, R!tables
  <2> QED BY <2>1, RunStaysBound, GovernanceParameters
<1>2. LogInv /\ [GovernanceNext]_gvars => LogInv' /\ CheckpointStep
  BY SumSteps, LogKeeps, CheckpointsKept
<1>3. GovernanceInit => LogInv
  BY LogInvBegins DEF GovernanceInit
<1> QED BY <1>1, <1>2, <1>3, SumRegistry, PTL DEF GovernanceSpec, HistoryHolds

\* The log of the sum has its types and verifies.
THEOREM SumLogVerifies == GovernanceSpec => []TypeOK /\ []ChainVerifies
BY SumLog, TypeCorrect, OneLevelChainVerifies, PTL
=============================================================================
