------------------------------- MODULE Audit --------------------------------
(* The audit trail: appending to the hash chain inside the caller's          *)
(* transaction (audit/audit.go), declaring a checkpoint past a historical    *)
(* break and exporting from it (audit/checkpoint.go, audit/export.go), and   *)
(* forwarding new entries to another system (audit/stream.go,                *)
(* auditsink/pump.go).                                                       *)
(*                                                                           *)
(* An entry is its id.  entry_hash commits to the whole record, so the hash  *)
(* of an entry is abstracted to the entry and prev_hash to the id it is the  *)
(* hash of, 0 for none.  The database is at READ COMMITTED: each statement   *)
(* sees what is committed when it starts and what its own transaction wrote. *)
EXTENDS Integers, FiniteSets

CONSTANTS Txns,          \* transactions that may be open at once
          Pumps,         \* forwarders, one per running engine
          None,
          MaxId,         \* bound on the entries of a behaviour
          LegacyPrev,    \* the links a version that took no chain lock left behind
          Batch,         \* entries per forwarded batch
          MayCheckpoint, \* the operator runs the checkpoint command
          MayRefuse      \* a subscription may fail to be enqueued

Ids == 1..MaxId
Legacy == DOMAIN LegacyPrev

ASSUME AuditAssumption ==
  /\ MaxId \in Nat /\ Batch \in Nat \ {0} /\ None \notin Txns
  /\ \E n \in 0..MaxId : LegacyPrev \in [1..n -> 0..n]
  /\ MayCheckpoint \in BOOLEAN /\ MayRefuse \in BOOLEAN

VARIABLES
  log,         \* committed rows of audit_events
  prev,        \* prev_hash of every row, committed or not
  skipped,     \* entries_before of each checkpoint, None on any other entry
  nextId,      \* the sequence, which a rollback does not turn back
  lock,        \* holder of the advisory lock on the chain
  pc, mine,    \* each transaction: where it is, what it has inserted
  head,        \*   the head it read,
  before,      \*   the entries its checkpoint counted, None if it declares none
  stopped,     \* operations stopped by a subscription that could not be enqueued
  xpc, broken, start,   \* the export: step, first break found, checkpoint used
  offered,              \*   checkpoints committed when it began
  cursor, received,     \* audit_stream_state.last_id, entries the sink has
  ppc, from, batch      \* each forwarder

chain == <<log, prev, skipped, nextId, lock, pc, mine, head, before, stopped>>
export == <<xpc, broken, start, offered>>
stream == <<cursor, received, ppc, from, batch>>
vars == <<chain, export, stream>>

Init ==
  /\ log = Legacy
  /\ prev = [i \in Ids |-> IF i \in Legacy THEN LegacyPrev[i] ELSE 0]
  /\ skipped = [i \in Ids |-> None]
  /\ nextId = Cardinality(Legacy) + 1 /\ lock = None
  /\ pc = [t \in Txns |-> "idle"] /\ mine = [t \in Txns |-> {}]
  /\ head = [t \in Txns |-> 0] /\ before = [t \in Txns |-> None]
  /\ stopped = {}
  /\ xpc = "idle" /\ broken = 0 /\ start = 0 /\ offered = {}
  /\ cursor = 0 /\ received = {}
  /\ ppc = [k \in Pumps |-> "idle"] /\ from = [k \in Pumps |-> 0] /\ batch = [k \in Pumps |-> {}]

-----------------------------------------------------------------------------
(* The chain as Verify walks it, in id order over one snapshot *)

(* h is the last entry of L. *)
IsHead(L, h) == IF L = {} THEN h = 0 ELSE h \in L /\ \A j \in L : j <= h

(* prev_hash is the hash of the entry just before. *)
Follows(L, i) == IsHead({j \in L : j < i}, prev[i])

Broken(L) == {i \in L : ~Follows(L, i)}

(* VerifyFrom: the first entry's own link is not looked at. *)
BrokenAfter(L, s) == {i \in L : i > s /\ ~Follows(L, i)}

Checkpoints == {i \in log : skipped[i] # None}

-----------------------------------------------------------------------------
(* Transactions that call audit.Write *)

(* The entries already promised fit in the bound. *)
Room == nextId + Cardinality({t \in Txns : pc[t] \in {"wantLock", "locked", "read", "counting"}}) <= MaxId

Move(t, l) == pc' = [pc EXCEPT ![t] = l]

(* An operation reaches its audit.Write, first or again. *)
Operate(t) ==
  /\ pc[t] \in {"idle", "written"} /\ Room
  /\ Move(t, "wantLock")
  /\ UNCHANGED <<log, prev, skipped, nextId, lock, mine, head, before, stopped, export, stream>>

(* DeclareCheckpoint refuses a chain that verifies; the count of what goes   *)
(* before is a statement of its own, and neither holds the chain lock.       *)
DeclareCheckpoint(t) ==
  /\ MayCheckpoint /\ pc[t] = "idle" /\ Room
  /\ Broken(log) # {}
  /\ Move(t, "counting")
  /\ UNCHANGED <<log, prev, skipped, nextId, lock, mine, head, before, stopped, export, stream>>

CountEntries(t) ==
  /\ pc[t] = "counting"
  /\ before' = [before EXCEPT ![t] = Cardinality(log)]
  /\ Move(t, "wantLock")
  /\ UNCHANGED <<log, prev, skipped, nextId, lock, mine, head, stopped, export, stream>>

(* Mutant: no lock, or a lock on the row that was the tail. *)
NoLock(t) ==
  /\ pc[t] = "wantLock"
  /\ Move(t, "locked")
  /\ UNCHANGED <<log, prev, skipped, nextId, lock, mine, head, before, stopped, export, stream>>

(* pg_advisory_xact_lock, which its holder may take again. *)
ChainLock(t) ==
  /\ pc[t] = "wantLock" /\ lock \in {None, t}
  /\ lock' = t
  /\ Move(t, "locked")
  /\ UNCHANGED <<log, prev, skipped, nextId, mine, head, before, stopped, export, stream>>

(* SELECT entry_hash ... ORDER BY id DESC LIMIT 1. *)
ReadHead(t) ==
  /\ pc[t] = "locked"
  /\ \E h \in log \cup mine[t] \cup {0} :
       IsHead(log \cup mine[t], h) /\ head' = [head EXCEPT ![t] = h]
  /\ Move(t, "read")
  /\ UNCHANGED <<log, prev, skipped, nextId, lock, mine, before, stopped, export, stream>>

(* INSERT: the sequence gives the id.  A checkpoint is one such entry. *)
Insert(t) ==
  /\ pc[t] = "read" /\ nextId \in Ids
  /\ prev' = [prev EXCEPT ![nextId] = head[t]]
  /\ skipped' = [skipped EXCEPT ![nextId] = before[t]]
  /\ mine' = [mine EXCEPT ![t] = @ \cup {nextId}]
  /\ before' = [before EXCEPT ![t] = None]
  /\ nextId' = nextId + 1
  /\ Move(t, "written")
  /\ UNCHANGED <<log, lock, head, stopped, export, stream>>

(* PublishEvent fails on the database.  Write returns nil all the same, but  *)
(* the transaction is aborted.                                               *)
PublishFails(t) ==
  /\ MayRefuse /\ pc[t] = "written"
  /\ Move(t, "aborted")
  /\ UNCHANGED <<log, prev, skipped, nextId, lock, mine, head, before, stopped, export, stream>>

(* The lock goes with the transaction. *)
End(t) ==
  /\ lock' = IF lock = t THEN None ELSE lock
  /\ Move(t, "idle")
  /\ mine' = [mine EXCEPT ![t] = {}]
  /\ head' = [head EXCEPT ![t] = 0]
  /\ before' = [before EXCEPT ![t] = None]
  /\ UNCHANGED <<prev, skipped, nextId, export, stream>>

Commit(t) ==
  /\ pc[t] = "written"
  /\ log' = log \cup mine[t]
  /\ End(t)
  /\ UNCHANGED stopped

CommitAborted(t) ==
  /\ pc[t] = "aborted"
  /\ stopped' = stopped \cup {t}
  /\ End(t)
  /\ UNCHANGED log

(* Mutant: the lock belongs to the connection, not to the transaction. *)
RollBackKeepsLock(t) ==
  /\ pc[t] # "idle"
  /\ Move(t, "idle")
  /\ mine' = [mine EXCEPT ![t] = {}]
  /\ head' = [head EXCEPT ![t] = 0]
  /\ before' = [before EXCEPT ![t] = None]
  /\ UNCHANGED <<log, prev, skipped, nextId, lock, stopped, export, stream>>

(* An error, a cancelled request or a process that dies. *)
RollBack(t) ==
  /\ pc[t] # "idle"
  /\ End(t)
  /\ UNCHANGED <<log, stopped>>

-----------------------------------------------------------------------------
(* ExportCSV: up to three statements *)

ExportVerify ==
  /\ xpc = "idle"
  /\ offered' = Checkpoints
  /\ \/ Broken(log) = {} /\ xpc' = "verified" /\ broken' = 0
     \/ \E b \in Broken(log) :
          (\A i \in Broken(log) : b <= i) /\ broken' = b /\ xpc' = "broken?"
  /\ start' = 0
  /\ UNCHANGED <<chain, stream>>

(* Mutant: the break has to lie after the checkpoint. *)
LatestCheckpointAfter ==
  /\ xpc = "broken?"
  /\ \/ /\ \E c \in Checkpoints : (\A i \in Checkpoints : i <= c) /\ start' = c
        /\ xpc' = IF broken > start' THEN "verifyFrom" ELSE "broken"
     \/ /\ Checkpoints = {} /\ xpc' = "broken" /\ start' = 0
  /\ UNCHANGED <<broken, offered, chain, stream>>

(* LatestCheckpoint, used only when the break lies before it. *)
UseCheckpoint ==
  /\ xpc = "broken?"
  /\ \/ /\ \E c \in Checkpoints : (\A i \in Checkpoints : i <= c) /\ start' = c
        /\ xpc' = IF broken < start' THEN "verifyFrom" ELSE "broken"
     \/ /\ Checkpoints = {} /\ xpc' = "broken" /\ start' = 0
  /\ UNCHANGED <<broken, offered, chain, stream>>

ExportVerifyFrom ==
  /\ xpc = "verifyFrom"
  /\ xpc' = IF BrokenAfter(log, start) = {} THEN "verifiedFrom" ELSE "broken"
  /\ UNCHANGED <<broken, start, offered, chain, stream>>

(* The rows are written out and the result reported. *)
ExportDone ==
  /\ xpc \in {"verified", "verifiedFrom", "broken"}
  /\ xpc' = "idle" /\ broken' = 0 /\ start' = 0 /\ offered' = {}
  /\ UNCHANGED <<chain, stream>>

-----------------------------------------------------------------------------
(* Pump.once *)

PMove(k, l) == ppc' = [ppc EXCEPT ![k] = l]

StreamCursor(k) ==
  /\ ppc[k] = "idle"
  /\ from' = [from EXCEPT ![k] = cursor]
  /\ PMove(k, "fetch")
  /\ UNCHANGED <<cursor, received, batch, chain, export>>

(* The Batch first entries past the cursor; none ends the round. *)
FetchAfter(k) ==
  /\ ppc[k] = "fetch"
  /\ \E B \in SUBSET {i \in log : i > from[k]} :
       /\ \A i \in log, b \in B : i > from[k] /\ i <= b => i \in B
       /\ Cardinality(B) <= Batch
       /\ Cardinality(B) = Batch \/ B = {i \in log : i > from[k]}
       /\ batch' = [batch EXCEPT ![k] = B]
       /\ PMove(k, IF B = {} THEN "idle" ELSE "emit")
  /\ UNCHANGED <<cursor, received, from, chain, export>>

Emit(k) ==
  /\ ppc[k] = "emit"
  /\ received' = received \cup batch[k]
  /\ PMove(k, "advance")
  /\ UNCHANGED <<cursor, from, batch, chain, export>>

(* The sink reports an error, having taken any part of the batch. *)
EmitFails(k) ==
  /\ ppc[k] = "emit"
  /\ \E S \in SUBSET batch[k] : received' = received \cup S
  /\ batch' = [batch EXCEPT ![k] = {}]
  /\ PMove(k, "idle")
  /\ UNCHANGED <<cursor, from, chain, export>>

(* Mutant: the cursor is set to the head of the sequence. *)

AdvanceToSequence(k) ==
  /\ ppc[k] = "advance"
  /\ cursor' = nextId - 1
  /\ batch' = [batch EXCEPT ![k] = {}]
  /\ PMove(k, "idle")
  /\ UNCHANGED <<received, from, chain, export>>

(* AdvanceStreamCursor: GREATEST of the cursor and the last id sent. *)
Advance(k) ==
  /\ ppc[k] = "advance"
  /\ \E l \in batch[k] :
       IsHead(batch[k], l) /\ cursor' = IF cursor >= l THEN cursor ELSE l
  /\ batch' = [batch EXCEPT ![k] = {}]
  /\ PMove(k, "idle")
  /\ UNCHANGED <<received, from, chain, export>>

(* Sent, and the cursor not written. *)
AdvanceFails(k) ==
  /\ ppc[k] = "advance"
  /\ batch' = [batch EXCEPT ![k] = {}]
  /\ PMove(k, "idle")
  /\ UNCHANGED <<cursor, received, from, chain, export>>

-----------------------------------------------------------------------------
Txn(t) ==
  \/ Operate(t) \/ DeclareCheckpoint(t) \/ CountEntries(t) \/ ChainLock(t) \/ ReadHead(t)
  \/ Insert(t) \/ PublishFails(t) \/ Commit(t) \/ CommitAborted(t) \/ RollBack(t)

Export == ExportVerify \/ UseCheckpoint \/ ExportVerifyFrom \/ ExportDone

Pump(k) ==
  \/ StreamCursor(k) \/ FetchAfter(k) \/ Emit(k) \/ EmitFails(k) \/ Advance(k) \/ AdvanceFails(k)

Next ==
  \/ \E t \in Txns : Txn(t)
  \/ Export
  \/ \E k \in Pumps : Pump(k)

Spec == Init /\ [][Next]_vars

(* A transaction that holds the chain lock goes on to commit or to roll      *)
(* back; the forwarders' timers keep firing, and the sink and the cursor's   *)
(* row are reachable again and again.                                        *)
Fairness ==
  /\ \A t \in Txns :
       /\ WF_vars(ReadHead(t)) /\ WF_vars(Insert(t)) /\ WF_vars(CommitAborted(t))
       /\ WF_vars(lock = t /\ (Commit(t) \/ RollBack(t)))
  /\ \A k \in Pumps :
       WF_vars(StreamCursor(k)) /\ WF_vars(FetchAfter(k)) /\ SF_vars(Emit(k)) /\ SF_vars(Advance(k))

FairSpec == Spec /\ Fairness

-----------------------------------------------------------------------------
(* Properties *)

(* The rows, the transactions, the export and the forwarders. *)
TypeOK ==
  /\ log \subseteq Ids /\ prev \in [Ids -> 0..MaxId]
  /\ skipped \in [Ids -> Nat \cup {None}]
  /\ nextId \in 1..(MaxId + 1) /\ \A i \in log : i < nextId
  /\ lock \in Txns \cup {None}
  /\ pc \in [Txns -> {"idle", "counting", "wantLock", "locked", "read", "written", "aborted"}]
  /\ mine \in [Txns -> SUBSET Ids] /\ head \in [Txns -> 0..MaxId]
  /\ before \in [Txns -> Nat \cup {None}] /\ stopped \subseteq Txns
  /\ xpc \in {"idle", "broken?", "verifyFrom", "verified", "verifiedFrom", "broken"}
  /\ broken \in 0..MaxId /\ start \in 0..MaxId /\ offered \subseteq Ids
  /\ cursor \in 0..MaxId /\ received \subseteq Ids
  /\ ppc \in [Pumps -> {"idle", "fetch", "emit", "advance"}]
  /\ from \in [Pumps -> 0..MaxId] /\ batch \in [Pumps -> SUBSET Ids]

(* Two concurrent writers cannot both chain off the same predecessor and     *)
(* silently fork the chain (audit.go:120): every entry written under the     *)
(* chain lock follows the entry before it, gaps left by rollbacks included.  *)
ChainNeverForks == \A i \in log \ Legacy : Follows(log, i)

(* id > last_id is exactly the set not yet streamed (stream.go:46): no       *)
(* entry commits behind the cursor without having been sent, whatever order  *)
(* transactions finish in and however many forwarders run.                   *)
StreamMissesNothing == \A i \in log : i <= cursor => i \in received

(* A stale or out-of-order call cannot rewind the cursor (stream.go:103).    *)
CursorNeverRewinds == [][cursor' >= cursor]_vars

(* Once a checkpoint past a historical break is committed, every export      *)
(* that starts afterwards verifies (checkpoint.go:179), although it reads    *)
(* the trail in three statements while entries are being appended.           *)
CheckpointRestoresExports == xpc = "broken" => offered = {}

(* A checkpoint is declared only past a real break (checkpoint.go:88): no    *)
(* append in progress ever looks like one to Verify.                         *)
CheckpointsPastBreaks == \A c \in Checkpoints : \E i \in Broken(log) : i < c

(* A process that dies mid-append cannot wedge the log (audit.go:182): the   *)
(* chain lock is free again and again, whatever became of its holder.        *)
LogNeverWedged == []<>(lock = None)

(* Every committed entry reaches the sink (pump.go:15). Neither set ever     *)
(* loses an entry and ids run out, so this says it of each.                  *)
EveryEntryStreams == <>[](log \subseteq received)

(* SkippedEntries is how many entries precede the checkpoint                 *)
(* (checkpoint.go:81).                                                       *)
SkippedCountsPredecessors ==
  \A c \in Checkpoints : skipped[c] = Cardinality({i \in log : i < c})

(* A subscription that cannot be enqueued does not stop the thing being      *)
(* audited from happening (audit.go:226).                                    *)
SubscriptionsCannotStopOperations == stopped = {}

(* The forwarder is a singleton (0107_audit_stream_cursor.sql:16): no two    *)
(* of them hold the same entry.                                              *)
OneForwarder ==
  \A k, l \in Pumps : ppc[k] = "emit" /\ ppc[l] = "emit" /\ batch[k] \cap batch[l] # {} => k = l
=============================================================================
