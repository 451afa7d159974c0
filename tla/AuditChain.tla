----------------------------- MODULE AuditChain -----------------------------
(***************************************************************************)
(* The append-only, hash-chained audit log of migration 0003: one global   *)
(* chain for all tenants, written only through audit_append and walked by  *)
(* audit_verify.                                                           *)
(*                                                                         *)
(* A session is a PostgreSQL transaction slot.  Its isolation level        *)
(* decides what the SELECT inside audit_append sees: the rows committed so *)
(* far (READ COMMITTED, the engine default), or the rows committed when    *)
(* the transaction took its snapshot (REPEATABLE READ for the operations   *)
(* services, SERIALIZABLE for the control loop).                           *)
(*                                                                         *)
(* entry_hash is a SHA-256 over the whole row, seq included, so a hash     *)
(* names exactly one row; prev_hash is modelled by the seq of the row it   *)
(* names, 0 standing for NULL.                                             *)
(***************************************************************************)
EXTENDS Integers, FiniteSets

CONSTANTS Sessions,   \* transaction slots
          MaxSeq      \* bound on audit_logs_seq

Levels == {"read_committed", "repeatable_read", "serializable"}

ASSUME MaxSeqAssumption == MaxSeq \in Nat

Idle == "idle"
Open == "open"

VARIABLES isolation,    \* the level each slot's transactions use, never changed
          logs,         \* committed rows of audit_logs
          nextSeq,      \* next value of audit_logs_seq (never rolled back)
          lock421,      \* holders of pg_advisory_xact_lock(421): at most one
          txn,          \* per session: status, snapshot and uncommitted rows
          checkpoints   \* audit_chain_verifications

vars == <<isolation, logs, nextSeq, lock421, txn, checkpoints>>

\* The columns of audit_logs that the chain is about.
Row == [seq : Nat \ {0}, prev : Nat, by : Sessions]
Txn == [status : {Idle, Open}, snapshot : SUBSET Row, rows : SUBSET Row]
Checkpoint == [ok : BOOLEAN, through : Nat]

NoTxn == [status |-> Idle, snapshot |-> {}, rows |-> {}]

Init ==
    /\ isolation \in [Sessions -> Levels]
    /\ logs = {}
    /\ nextSeq = 1
    /\ lock421 = {}
    /\ txn = [s \in Sessions |-> NoTxn]
    /\ checkpoints = {}

-----------------------------------------------------------------------------
\* Rows of S that come before seq n.
Before(S, n) == {r \in S : r.seq < n}

\* p is what ORDER BY seq DESC LIMIT 1 returns over S.
IsTip(S, p) ==
    \/ S = {} /\ p = 0
    \/ \E r \in S : r.seq = p /\ \A q \in S : q.seq <= p

\* The committed rows a statement of session s reads.
Visible(s) == IF isolation[s] = "read_committed" THEN logs ELSE txn[s].snapshot

\* Opening a tenant_scope: set_config is the first statement, and under
\* REPEATABLE READ and SERIALIZABLE it fixes the snapshot.
Begin(s) ==
    /\ txn[s].status = Idle
    /\ txn' = [txn EXCEPT ![s] = [status |-> Open, snapshot |-> logs, rows |-> {}]]
    /\ UNCHANGED <<logs, nextSeq, lock421, checkpoints>>

\* A variant of audit_append whose advisory lock is a shared one.
AppendSharedLock(s) ==
    /\ txn[s].status = Open
    /\ nextSeq <= MaxSeq
    /\ \E p \in {0} \cup {r.seq : r \in Visible(s) \cup txn[s].rows} :
         /\ IsTip(Visible(s) \cup txn[s].rows, p)
         /\ txn' = [txn EXCEPT ![s].rows = @ \cup {[seq |-> nextSeq, prev |-> p, by |-> s]}]
    /\ nextSeq' = nextSeq + 1
    /\ lock421' = lock421 \cup {s}
    /\ UNCHANGED <<logs, checkpoints>>

\* A variant of audit_append that takes the newest committed row and ignores
\* the rows its own transaction has already written.
AppendIgnoringOwnRows(s) ==
    /\ txn[s].status = Open
    /\ lock421 \subseteq {s}
    /\ nextSeq <= MaxSeq
    /\ \E p \in {0} \cup {r.seq : r \in Visible(s)} :
         /\ IsTip(Visible(s), p)
         /\ txn' = [txn EXCEPT ![s].rows = @ \cup {[seq |-> nextSeq, prev |-> p, by |-> s]}]
    /\ nextSeq' = nextSeq + 1
    /\ lock421' = {s}
    /\ UNCHANGED <<logs, checkpoints>>

\* audit_append: take the lock, draw a seq, link to the newest visible row.
AuditAppend(s) ==
    /\ txn[s].status = Open
    /\ lock421 \subseteq {s}
    /\ nextSeq <= MaxSeq
    /\ \E p \in {0} \cup {r.seq : r \in Visible(s) \cup txn[s].rows} :
         /\ IsTip(Visible(s) \cup txn[s].rows, p)
         /\ txn' = [txn EXCEPT ![s].rows = @ \cup {[seq |-> nextSeq, prev |-> p, by |-> s]}]
    /\ nextSeq' = nextSeq + 1
    /\ lock421' = {s}
    /\ UNCHANGED <<logs, checkpoints>>

\* Serializable snapshot isolation refuses the commit of a serializable
\* transaction that appended without seeing a row another serializable
\* transaction committed meanwhile: each read what the other then wrote.  It
\* tracks nothing that a READ COMMITTED or REPEATABLE READ transaction did.
SerializationConflict(s) ==
    /\ isolation[s] = "serializable"
    /\ txn[s].rows # {}
    /\ \E r \in logs \ txn[s].snapshot : isolation[r.by] = "serializable"

Commit(s) ==
    /\ txn[s].status = Open
    /\ ~SerializationConflict(s)
    /\ logs' = logs \cup txn[s].rows
    /\ txn' = [txn EXCEPT ![s] = NoTxn]
    /\ lock421' = lock421 \ {s}
    /\ UNCHANGED <<nextSeq, checkpoints>>

\* Rollback, for whatever reason: the rows go, the drawn seqs stay drawn.
Abort(s) ==
    /\ txn[s].status = Open
    /\ txn' = [txn EXCEPT ![s] = NoTxn]
    /\ lock421' = lock421 \ {s}
    /\ UNCHANGED <<logs, nextSeq, checkpoints>>

\* audit_verify: every row links to the row before it in seq order.
Verifies(S) == \A r \in S : IsTip(Before(S, r.seq), r.prev)

\* A variant that captures the tip without taking the lock, naming the last
\* seq drawn and not the last one committed.
RecordCheckpointWithoutLock ==
    /\ nextSeq > 1
    /\ checkpoints' = checkpoints \cup
         {[ok |-> Verifies(logs) /\ logs # {}, through |-> nextSeq - 1]}
    /\ UNCHANGED <<logs, nextSeq, lock421, txn>>

\* record_audit_chain_verification: under the same lock, verify and name the
\* tip; a failed verification, or an empty log, records no tip.
RecordCheckpoint ==
    /\ lock421 = {}
    /\ \E p \in {0} \cup {r.seq : r \in logs} :
         /\ IsTip(logs, p)
         /\ checkpoints' = checkpoints \cup
              {IF Verifies(logs) /\ logs # {}
                 THEN [ok |-> TRUE, through |-> p]
                 ELSE [ok |-> FALSE, through |-> 0]}
    /\ UNCHANGED <<logs, nextSeq, lock421, txn>>

Next ==
    /\ UNCHANGED isolation
    /\ \/ \E s \in Sessions : Begin(s) \/ AuditAppend(s) \/ Commit(s) \/ Abort(s)
       \/ RecordCheckpoint

Spec == Init /\ [][Next]_vars

-----------------------------------------------------------------------------
\* Every variable has its type, and the advisory lock has at most one holder.
TypeOK ==
    /\ isolation \in [Sessions -> Levels]
    /\ logs \subseteq Row
    /\ nextSeq \in Nat \ {0}
    /\ lock421 \subseteq Sessions
    /\ \A s, t \in lock421 : s = t
    /\ txn \in [Sessions -> Txn]
    /\ checkpoints \subseteq Checkpoint

\* audit_verify over the committed log always returns ok: whatever sessions
\* interleave, roll back or append several rows, each committed row links to
\* the committed row just before it (migration 0003, audit_append).
ChainVerifies == Verifies(logs)

\* The rows that an ok checkpoint covers never change afterwards: no row that
\* was still uncommitted when record_audit_chain_verification named its tip
\* appears below that tip later (app/repositories/evidence_packs.py).
CheckpointStep ==
    \A c \in checkpoints :
        c.ok => Before(logs', c.through + 1) = Before(logs, c.through + 1)
=============================================================================
