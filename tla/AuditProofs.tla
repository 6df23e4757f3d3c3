---------------------------- MODULE AuditProofs -----------------------------
(* Proofs about Audit for any number of concurrent transactions, entries and *)
(* forwarders, whatever trail an earlier version left behind.                *)
EXTENDS Audit, FiniteSetTheorems, TLAPS

(* The entries of the earlier version come first. *)
LegacyFirst ==
  /\ Legacy \subseteq log
  /\ \A i \in Legacy : skipped[i] = None
  /\ \A i \in Legacy, j \in Ids \ Legacy : i < j

(* Whoever has inserted, or is about to, holds the chain lock. *)
LockHeld ==
  \A t \in Txns :
    /\ pc[t] \in {"locked", "read", "written", "aborted"} => lock = t
    /\ mine[t] # {} => lock = t

(* What a transaction has inserted lies past everything committed and        *)
(* follows on from it.                                                       *)
PendingFollows ==
  \A t \in Txns :
    /\ \A i \in mine[t] : i < nextId /\ \A j \in log : j < i
    /\ \A i \in mine[t] : Follows(log \cup mine[t], i)
    /\ pc[t] = "read" => IsHead(log \cup mine[t], head[t])

(* Verify found a break before any checkpoint was begun. *)
BreakFound ==
  (\/ \E t \in Txns : pc[t] = "counting" \/ before[t] # None
   \/ \E i \in Ids : skipped[i] # None) => Broken(log) # {}

ChainInv == TypeOK /\ LegacyFirst /\ LockHeld /\ PendingFollows /\ ChainNeverForks /\ BreakFound

(* 1..n precedes every other entry, and has n elements. *)
LEMMA LegacyPrefix ==
  /\ Legacy \subseteq Ids /\ IsFiniteSet(Legacy)
  /\ Cardinality(Legacy) \in 0..MaxId
  /\ \A i \in Legacy : i < Cardinality(Legacy) + 1 /\ LegacyPrev[i] \in 0..MaxId
  /\ \A i \in Legacy, j \in Ids \ Legacy : i < j
<1>1. PICK n \in 0..MaxId : LegacyPrev \in [1..n -> 0..n]
  BY AuditAssumption, Zenon
<1>2. Legacy = 1..n
  BY <1>1, Zenon DEF Legacy
<1>3. IsFiniteSet(1..n) /\ Cardinality(1..n) = IF 1 > n THEN 0 ELSE n - 1 + 1
  BY <1>1, FS_Interval, AuditAssumption
<1>4. Cardinality(1..n) = n
  BY <1>3, <1>1, AuditAssumption
<1>5. n \in Nat /\ MaxId \in Nat /\ n <= MaxId
  BY <1>1, AuditAssumption
<1>6. \A i \in 1..n : i \in Ids /\ i < n + 1 /\ LegacyPrev[i] \in 0..MaxId
  BY <1>1, <1>5 DEF Ids
<1>7. \A i \in 1..n, j \in Ids \ 1..n : i < j
  BY <1>5 DEF Ids
<1>8. Cardinality(Legacy) = n
  BY <1>2, <1>4, Zenon
<1>9. Legacy \subseteq Ids /\ IsFiniteSet(Legacy) /\ \A i \in Legacy, j \in Ids \ Legacy : i < j
  BY <1>2, <1>3, <1>6, <1>7, Zenon
<1>10. \A i \in Legacy : i < Cardinality(Legacy) + 1 /\ LegacyPrev[i] \in 0..MaxId
  BY <1>2, <1>6, <1>8, Zenon
<1> QED
  BY <1>1, <1>8, <1>9, <1>10, Zenon

LEMMA LogIsFinite == ASSUME log \subseteq Ids PROVE Cardinality(log) \in Nat
<1>1. IsFiniteSet(Ids)
  BY FS_Interval, AuditAssumption DEF Ids
<1>2. IsFiniteSet(log)
  BY <1>1, FS_Subset, Zenon
<1> QED
  BY <1>2, FS_CardinalityType, Zenon

LEMMA InitChain == Init => ChainInv
  BY LegacyPrefix, AuditAssumption
  DEF Init, ChainInv, TypeOK, Ids, LegacyFirst, LockHeld, PendingFollows, ChainNeverForks, BreakFound

(* Appending past the end disturbs no link. *)
LEMMA AppendKeepsLinks ==
  ASSUME NEW L \in SUBSET Ids, NEW M \in SUBSET Ids, \A i \in M, j \in L : j < i,
         NEW i \in L
  PROVE  Follows(L \cup M, i) <=> Follows(L, i)
<1>1. \A j \in M : ~(j < i)
  BY DEF Ids
<1>2. {j \in L \cup M : j < i} = {j \in L : j < i}
  BY <1>1, Zenon
<1> QED
  BY <1>2, Zenon DEF Follows

(* Every step keeps the chain whole. *)
LEMMA NextChain == ChainInv /\ [Next]_vars => ChainInv'
<1> SUFFICES ASSUME ChainInv, [Next]_vars PROVE ChainInv'
  BY Zenon
<1> USE AuditAssumption DEF chain, export, stream
<1>0. /\ log \subseteq Ids /\ mine \in [Txns -> SUBSET Ids] /\ prev \in [Ids -> 0..MaxId]
      /\ pc \in [Txns -> {"idle", "counting", "wantLock", "locked", "read", "written", "aborted"}]
      /\ head \in [Txns -> 0..MaxId] /\ nextId \in 1..(MaxId + 1) /\ MaxId \in Nat
      /\ before \in [Txns -> Nat \cup {None}] /\ skipped \in [Ids -> Nat \cup {None}]
  BY Zenon DEF ChainInv, TypeOK
\* A transaction moves and no table changes.
<1>a. ASSUME NEW t \in Txns, NEW l, Move(t, l),
             l \in {"wantLock", "locked", "aborted"}, l \in {"locked", "aborted"} => lock' = t,
             lock' # lock => lock = None,
             UNCHANGED <<log, prev, skipped, nextId, mine, head, before, export, stream>>,
             lock' \in Txns \cup {None}, stopped' = stopped
      PROVE  ChainInv'
  <2>1. pc' = [pc EXCEPT ![t] = l]
    BY <1>a, Zenon DEF Move
  <2>2. TypeOK' /\ LegacyFirst'
    BY <1>a, <1>0, <2>1, Zenon DEF ChainInv, TypeOK, LegacyFirst
  <2>3. LockHeld'
    BY <1>a, <1>0, <2>1, Zenon DEF ChainInv, LockHeld
  <2>4. PendingFollows' /\ ChainNeverForks'
    BY <1>a, <1>0, <2>1, Zenon DEF ChainInv, PendingFollows, ChainNeverForks, Follows
  <2>5. BreakFound'
    BY <1>a, <1>0, <2>1, Zenon DEF ChainInv, BreakFound, Broken, Follows
  <2> QED
    BY <2>2, <2>3, <2>4, <2>5, Zenon DEF ChainInv
<1>1. ASSUME NEW t \in Txns, Operate(t) PROVE ChainInv'
  BY <1>1, <1>a, Zenon DEF Operate, ChainInv, TypeOK
<1>2. ASSUME NEW t \in Txns, DeclareCheckpoint(t) PROVE ChainInv'
  BY <1>2, <1>0, Zenon
  DEF DeclareCheckpoint, Move, ChainInv, TypeOK, LegacyFirst, LockHeld, PendingFollows, ChainNeverForks,
      BreakFound, Broken, Follows
<1>3. ASSUME NEW t \in Txns, CountEntries(t) PROVE ChainInv'
  BY <1>3, <1>0, LogIsFinite, Zenon
  DEF CountEntries, Move, ChainInv, TypeOK, LegacyFirst, LockHeld, PendingFollows, ChainNeverForks,
      BreakFound, Broken, Follows
<1>4. ASSUME NEW t \in Txns, ChainLock(t) PROVE ChainInv'
  BY <1>4, <1>a, Zenon DEF ChainLock
<1>5. ASSUME NEW t \in Txns, ReadHead(t) PROVE ChainInv'
  <2>1. PICK h \in log \cup mine[t] \cup {0} :
          IsHead(log \cup mine[t], h) /\ head' = [head EXCEPT ![t] = h]
    BY <1>5, Zenon DEF ReadHead
  <2>2. h \in 0..MaxId
    BY <1>0 DEF Ids
  <2>3. TypeOK' /\ LegacyFirst' /\ LockHeld' /\ ChainNeverForks' /\ BreakFound'
    <3>1. TypeOK' /\ LegacyFirst'
      BY <1>5, <1>0, <2>1, <2>2, Zenon DEF ReadHead, Move, ChainInv, TypeOK, LegacyFirst
    <3>2. LockHeld'
      BY <1>5, <1>0, Zenon DEF ReadHead, Move, ChainInv, LockHeld
    <3>3. ChainNeverForks'
      BY <1>5, Zenon DEF ReadHead, ChainInv, ChainNeverForks, Follows
    <3>4. BreakFound'
      BY <1>5, <1>0, Zenon DEF ReadHead, Move, ChainInv, BreakFound, Broken, Follows
    <3> QED
      BY <3>1, <3>2, <3>3, <3>4
  <2>4. PendingFollows'
    BY <1>5, <1>0, <2>1, <2>2, Zenon DEF ReadHead, Move, ChainInv, PendingFollows, Follows
  <2> QED
    BY <2>3, <2>4, Zenon DEF ChainInv
<1>6. ASSUME NEW t \in Txns, Insert(t) PROVE ChainInv'
  <2>n. PICK n \in Ids : n = nextId
    BY <1>6, Zenon DEF Insert
  <2>0. /\ n \in Ids /\ n = nextId /\ lock = t /\ IsHead(log \cup mine[t], head[t])
        /\ prev' = [prev EXCEPT ![n] = head[t]] /\ skipped' = [skipped EXCEPT ![n] = before[t]]
        /\ mine' = [mine EXCEPT ![t] = @ \cup {n}] /\ log' = log /\ lock' = lock /\ nextId' = n + 1
        /\ pc' = [pc EXCEPT ![t] = "written"] /\ before' = [before EXCEPT ![t] = None]
    BY <1>6, <2>n, Zenon DEF Insert, Move, ChainInv, LockHeld, PendingFollows
  <2>1. \A i \in log \cup mine[t] : i < n
    BY <2>n, Zenon DEF ChainInv, TypeOK, PendingFollows
  <2>2. \A s \in Txns \ {t} : mine[s] = {} /\ mine'[s] = {} /\ pc'[s] # "read"
    BY <2>0, <1>0, Zenon DEF ChainInv, LockHeld
  <2>3. n \notin Legacy /\ n \notin log /\ n \notin mine[t]
    <3>1. n \in Int /\ ~(n < n)
      BY <1>0, <2>0
    <3> QED
      BY <2>1, <3>1, Zenon DEF ChainInv, LegacyFirst
  <2>4. TypeOK'
    <3>1. nextId' \in 1..(MaxId + 1) /\ \A i \in log' : i < nextId'
      BY <1>0, <2>0, <2>1 DEF Ids
    <3>2. /\ prev' \in [Ids -> 0..MaxId] /\ skipped' \in [Ids -> Nat \cup {None}]
          /\ mine' \in [Txns -> SUBSET Ids] /\ before' \in [Txns -> Nat \cup {None}]
      BY <1>0, <2>0, Zenon
    <3> QED
      BY <1>6, <1>0, <2>0, <3>1, <3>2, Zenon DEF Insert, ChainInv, TypeOK
  <2>5. LegacyFirst' /\ LockHeld'
    BY <1>0, <2>0, <2>3, Zenon DEF ChainInv, LegacyFirst, LockHeld
  <2>6. \A i \in log \cup mine[t] : prev'[i] = prev[i]
    BY <1>0, <2>0, <2>3, Zenon
  <2>7. ChainNeverForks' /\ Broken(log)' = Broken(log)
    BY <2>0, <2>6, Zenon DEF ChainInv, ChainNeverForks, Follows, Broken
  <2>8. BreakFound'
    BY <1>0, <2>0, <2>7, Zenon DEF ChainInv, BreakFound
  <2>9. mine'[t] = mine[t] \cup {n} /\ prev'[n] = head[t]
    BY <1>0, <2>0, Zenon
  <2>10. \A i \in mine[t] : Follows(log \cup mine[t], i)'
    <3> SUFFICES ASSUME NEW i \in mine[t] PROVE Follows(log \cup mine[t], i)'
      BY Zenon
    <3>0. ~(n < i)
      BY <2>1, <2>0, <1>0 DEF Ids
    <3>1. {j \in log \cup mine'[t] : j < i} = {j \in log \cup mine[t] : j < i}
      BY <3>0, <2>9, Zenon
    <3> QED
      BY <3>1, <2>0, <2>6, Zenon DEF ChainInv, PendingFollows, Follows
  <2>11. Follows(log \cup mine[t], n)'
    <3>0. ~(n < n)
      BY <1>0, <2>0
    <3>1. {j \in log \cup mine'[t] : j < n} = log \cup mine[t]
      BY <3>0, <2>9, <2>1, Zenon
    <3> QED
      BY <3>1, <2>0, <2>9, Zenon DEF Follows
  <2>12. \A i \in mine'[t] : i < nextId' /\ \A j \in log' : j < i
    <3>0. \A i \in Ids : i < n => i < n + 1
      BY <2>0 DEF Ids
    <3>1. \A i \in mine[t] : i < n + 1 /\ \A j \in log : j < i
      BY <3>0, <2>1, <1>0, Zenon DEF ChainInv, PendingFollows
    <3>2. n < n + 1 /\ \A j \in log : j < n
      BY <2>0, <2>1, <1>0
    <3> QED
      BY <3>1, <3>2, <2>0, <2>9, Zenon
  <2>13. PendingFollows'
    BY <2>2, <2>9, <2>10, <2>11, <2>12, <2>0, <1>0, Zenon DEF PendingFollows
  <2> QED
    BY <2>4, <2>5, <2>7, <2>8, <2>13, Zenon DEF ChainInv
<1>7. ASSUME NEW t \in Txns, PublishFails(t) PROVE ChainInv'
  BY <1>7, <1>a, Zenon DEF PublishFails, ChainInv, TypeOK, LockHeld
\* The end of a transaction, apart from the log.
<1>b. ASSUME NEW t \in Txns, End(t), log' \subseteq Ids, stopped' \subseteq Txns, log \subseteq log',
             \A i \in log' : i < nextId, Broken(log) # {} => Broken(log)' # {},
             \A s \in Txns : mine[s] # {} /\ s # t => log' = log,
             \A s \in Txns : pc[s] = "read" /\ s # t => log' = log,
             ChainNeverForks'
      PROVE  ChainInv'
  <2>1. TypeOK' /\ LegacyFirst' /\ LockHeld'
    BY <1>b, <1>0 DEF End, Move, ChainInv, TypeOK, LegacyFirst, LockHeld
  <2>2. PendingFollows'
    BY <1>b, <1>0 DEF End, Move, ChainInv, PendingFollows, Follows, IsHead
  <2>3. BreakFound'
    BY <1>b, <1>0, Zenon DEF End, Move, ChainInv, BreakFound
  <2> QED
    BY <2>1, <2>2, <2>3, <1>b, Zenon DEF ChainInv
<1>8. ASSUME NEW t \in Txns, Commit(t) PROVE ChainInv'
  <2>0. /\ log' = log \cup mine[t] /\ prev' = prev /\ End(t) /\ stopped' = stopped /\ lock = t
        /\ mine[t] \subseteq Ids
    BY <1>8, <1>0, Zenon DEF Commit, End, ChainInv, LockHeld
  <2>1. \A i \in mine[t], j \in log : j < i
    BY Zenon DEF ChainInv, PendingFollows
  <2>2. \A i \in log : Follows(log, i)' <=> Follows(log, i)
    BY <2>0, <2>1, <1>0, AppendKeepsLinks, Zenon DEF Follows
  <2>3. \A i \in mine[t] : Follows(log, i)'
    BY <2>0, Zenon DEF ChainInv, PendingFollows, Follows
  <2>4. ChainNeverForks' /\ (Broken(log) # {} => Broken(log)' # {})
    BY <2>0, <2>2, <2>3, Zenon DEF ChainInv, ChainNeverForks, Broken
  <2>5. \A s \in Txns : s # t => mine[s] = {} /\ pc[s] # "read"
    BY <2>0, Zenon DEF ChainInv, LockHeld
  <2>6. \A i \in log' : i < nextId
    BY <2>0, Zenon DEF ChainInv, TypeOK, PendingFollows
  <2> QED
    BY <2>0, <2>4, <2>5, <2>6, <1>0, <1>b, Zenon DEF ChainInv, TypeOK
<1>9. ASSUME NEW t \in Txns, CommitAborted(t) \/ RollBack(t) PROVE ChainInv'
  <2>1. End(t) /\ log' = log /\ stopped' \subseteq Txns /\ prev' = prev
    BY <1>9, Zenon DEF CommitAborted, RollBack, End, ChainInv, TypeOK
  <2>2. ChainNeverForks' /\ Broken(log)' = Broken(log)
    BY <2>1, Zenon DEF ChainInv, ChainNeverForks, Broken, Follows
  <2> QED
    BY <2>1, <2>2, <1>0, <1>b, Zenon DEF ChainInv, TypeOK
<1>10. ASSUME UNCHANGED chain, TypeOK' PROVE ChainInv'
  BY <1>10, Zenon
  DEF ChainInv, LegacyFirst, LockHeld, PendingFollows, ChainNeverForks, BreakFound, Broken, Follows
<1>11. ASSUME Export PROVE ChainInv'
  <2>1. TypeOK'
    <3>0. Checkpoints \subseteq Ids /\ Broken(log) \subseteq Ids
      BY <1>0, Zenon DEF Checkpoints, Broken
    <3>1. Checkpoints \subseteq Ids /\ Broken(log) \subseteq Ids /\ Ids \subseteq 0..MaxId /\ 0 \in 0..MaxId
      BY <3>0, <1>0 DEF Ids
    <3>2. CASE ExportVerify
      BY <3>1, <3>2, Zenon DEF ExportVerify, ChainInv, TypeOK
    <3>3. CASE UseCheckpoint
      BY <3>1, <3>3, Zenon DEF UseCheckpoint, ChainInv, TypeOK
    <3>4. CASE ExportVerifyFrom
      BY <3>4, Zenon DEF ExportVerifyFrom, ChainInv, TypeOK
    <3>5. CASE ExportDone
      BY <3>1, <3>5, Zenon DEF ExportDone, ChainInv, TypeOK
    <3> QED
      BY <1>11, <3>2, <3>3, <3>4, <3>5, Zenon DEF Export
  <2> QED
    BY <2>1, <1>10, <1>11, Zenon DEF Export, ExportVerify, UseCheckpoint, ExportVerifyFrom, ExportDone
<1>12. ASSUME NEW k \in Pumps, Pump(k) PROVE ChainInv'
  <2>1. TypeOK'
    <3>1. Ids \subseteq 0..MaxId /\ batch[k] \subseteq Ids
      BY <1>0 DEF Ids, ChainInv, TypeOK
    <3>2. CASE StreamCursor(k)
      BY <3>2, Zenon DEF StreamCursor, PMove, ChainInv, TypeOK
    <3>6. CASE AdvanceFails(k)
      BY <3>6, Zenon DEF AdvanceFails, PMove, ChainInv, TypeOK
    <3>3. CASE FetchAfter(k)
      <4>1. PICK B \in SUBSET {i \in log : i > from[k]} :
              batch' = [batch EXCEPT ![k] = B] /\ PMove(k, IF B = {} THEN "idle" ELSE "emit")
        BY <3>3, Zenon DEF FetchAfter
      <4> QED
        BY <4>1, <3>3, <1>0, Zenon DEF FetchAfter, PMove, ChainInv, TypeOK
    <3>4. CASE Emit(k) \/ EmitFails(k)
      <4>1. /\ received' \subseteq Ids /\ batch' \in [Pumps -> SUBSET Ids]
            /\ UNCHANGED <<cursor, from, chain, export>>
        BY <3>1, <3>4, Zenon DEF Emit, EmitFails, ChainInv, TypeOK
      <4>2. ppc' = [ppc EXCEPT ![k] = "advance"] \/ ppc' = [ppc EXCEPT ![k] = "idle"]
        BY <3>4, Zenon DEF Emit, EmitFails, PMove
      <4> QED
        BY <4>1, <4>2, Zenon DEF ChainInv, TypeOK
    <3>5. CASE Advance(k)
      <4>1. cursor' \in 0..MaxId
        BY <3>1, <3>5, Zenon DEF Advance, ChainInv, TypeOK
      <4> QED
        BY <4>1, <3>5, Zenon DEF Advance, PMove, ChainInv, TypeOK
    <3> QED
      BY <1>12, <3>2, <3>3, <3>4, <3>5, <3>6, Zenon DEF Pump
  <2> QED
    BY <2>1, <1>10, <1>12, Zenon DEF Pump, StreamCursor, FetchAfter, Emit, EmitFails, Advance, AdvanceFails
<1>13. CASE UNCHANGED vars
  <2>1. TypeOK'
    BY <1>13, Zenon DEF vars, ChainInv, TypeOK
  <2> QED
    BY <2>1, <1>10, <1>13, Zenon DEF vars
<1> QED
  BY <1>1, <1>2, <1>3, <1>4, <1>5, <1>6, <1>7, <1>8, <1>9, <1>11, <1>12, <1>13, Zenon DEF Next, Txn

(* The rows, the transactions, the export and the forwarders have their      *)
(* types in every reachable state.                                           *)
THEOREM TypeCorrect == Spec => []TypeOK
<1>1. ChainInv => TypeOK
  BY Zenon DEF ChainInv
<1> QED
  BY <1>1, InitChain, NextChain, PTL DEF Spec

(* However appends, rollbacks and failures interleave, an entry written      *)
(* under the chain lock follows the entry before it.                         *)
THEOREM AppendsNeverFork == Spec => []ChainNeverForks
<1>1. ChainInv => ChainNeverForks
  BY Zenon DEF ChainInv
<1> QED
  BY <1>1, InitChain, NextChain, PTL DEF Spec

(* Verify sees only breaks of the earlier version. *)
LEMMA BreaksAreLegacy ==
  ASSUME ChainInv PROVE Broken(log) \subseteq Legacy /\ Checkpoints \subseteq Ids \ Legacy
  BY Zenon DEF ChainInv, ChainNeverForks, Broken, Checkpoints, LegacyFirst, TypeOK

(* A checkpoint is never declared because of an append under way.            *)
THEOREM CheckpointsNeedBreaks == Spec => []CheckpointsPastBreaks
<1>1. ChainInv => CheckpointsPastBreaks
  <2> SUFFICES ASSUME ChainInv, NEW c \in Checkpoints PROVE \E i \in Broken(log) : i < c
    BY Zenon DEF CheckpointsPastBreaks
  <2>1. PICK i \in Broken(log) : TRUE
    BY BreaksAreLegacy, Zenon DEF ChainInv, BreakFound, Checkpoints, TypeOK
  <2> QED
    BY <2>1, BreaksAreLegacy, Zenon DEF ChainInv, LegacyFirst
<1> QED
  BY <1>1, InitChain, NextChain, PTL DEF Spec

-----------------------------------------------------------------------------
(* A batch has no hole, and the cursor stands on an entry that was sent.     *)
StreamInv ==
  /\ cursor = 0 \/ cursor \in log
  /\ StreamMissesNothing
  /\ \A k \in Pumps :
       /\ batch[k] \subseteq log /\ from[k] <= cursor
       /\ \A i \in log, b \in batch[k] : i > from[k] /\ i <= b => i \in batch[k]
       /\ ppc[k] = "advance" => batch[k] \subseteq received

(* What commits lies past every entry already committed. *)
LEMMA CommitsAtTheEnd ==
  ASSUME ChainInv, [Next]_vars
  PROVE  log \subseteq log' /\ \A i \in log' \ log, j \in log : j < i
<1>1. ASSUME NEW t \in Txns, Commit(t) PROVE log \subseteq log' /\ \A i \in log' \ log, j \in log : j < i
  BY <1>1, Zenon DEF Commit, ChainInv, PendingFollows
<1>2. ASSUME NEW t \in Txns, Txn(t), ~Commit(t) PROVE log' = log
  BY <1>2, Zenon
  DEF Txn, Operate, DeclareCheckpoint, CountEntries, ChainLock, ReadHead, Insert, PublishFails,
      CommitAborted, RollBack
<1>3. ASSUME Export \/ (\E k \in Pumps : Pump(k)) \/ UNCHANGED vars PROVE log' = log
  BY <1>3, Zenon
  DEF Export, ExportVerify, UseCheckpoint, ExportVerifyFrom, ExportDone, Pump, StreamCursor, FetchAfter,
      Emit, EmitFails, Advance, AdvanceFails, vars, chain
<1> QED
  BY <1>1, <1>2, <1>3, Zenon DEF Next

(* Appends, failures and rival forwarders leave no entry behind the cursor.  *)
LEMMA NextStream == ChainInv /\ StreamInv /\ [Next]_vars => StreamInv'
<1> SUFFICES ASSUME ChainInv, StreamInv, [Next]_vars PROVE StreamInv'
  BY Zenon
<1>0. /\ log \subseteq Ids /\ Ids \subseteq Nat /\ cursor \in Nat /\ batch \in [Pumps -> SUBSET Ids]
      /\ ppc \in [Pumps -> {"idle", "fetch", "emit", "advance"}] /\ from \in [Pumps -> 0..MaxId]
      /\ MaxId \in Nat /\ received \subseteq Ids
  BY AuditAssumption DEF ChainInv, TypeOK, Ids
<1>1. ASSUME UNCHANGED stream PROVE StreamInv'
  <2>1. log \subseteq log' /\ \A i \in log' \ log, j \in log : j < i
    BY CommitsAtTheEnd, Zenon
  <2>2. log' \subseteq Ids
    BY NextChain, Zenon DEF ChainInv, TypeOK
  <2>3. \A i \in log' \ log, j \in log : ~(i <= j)
    BY <2>1, <2>2, <1>0
  <2>4. \A i \in log' : ~(i <= 0)
    BY <2>2, AuditAssumption DEF Ids
  <2>5. StreamMissesNothing'
    BY <1>1, <2>1, <2>3, <2>4, Zenon DEF stream, StreamInv, StreamMissesNothing
  <2> QED
    BY <1>1, <2>1, <2>3, <2>5, Zenon DEF stream, StreamInv
<1>2. ASSUME Export \/ (\E t \in Txns : Txn(t)) \/ UNCHANGED vars PROVE UNCHANGED stream
  BY <1>2, Zenon
  DEF Export, ExportVerify, UseCheckpoint, ExportVerifyFrom, ExportDone, Txn, Operate, DeclareCheckpoint,
      CountEntries, ChainLock, ReadHead, Insert, PublishFails, Commit, CommitAborted, RollBack, End, vars
<1>3. ASSUME NEW k \in Pumps, Pump(k) PROVE StreamInv'
  <2>0. log' = log
    BY <1>3, Zenon DEF Pump, StreamCursor, FetchAfter, Emit, EmitFails, Advance, AdvanceFails, chain
  <2>1. CASE StreamCursor(k)
    <3>1. /\ from' = [from EXCEPT ![k] = cursor] /\ ppc' = [ppc EXCEPT ![k] = "fetch"]
          /\ UNCHANGED <<cursor, received, batch>>
      BY <2>1, Zenon DEF StreamCursor, PMove
    <3>2. \A i \in log, b \in batch[k] : i > cursor => i > from[k]
      BY <1>0 DEF StreamInv
    <3> QED
      BY <2>0, <3>1, <3>2, <1>0 DEF StreamInv, StreamMissesNothing
  <2>2. CASE FetchAfter(k)
    <3>1. PICK B \in SUBSET {i \in log : i > from[k]} :
            /\ \A i \in log, b \in B : i > from[k] /\ i <= b => i \in B
            /\ batch' = [batch EXCEPT ![k] = B]
            /\ ppc' = [ppc EXCEPT ![k] = IF B = {} THEN "idle" ELSE "emit"]
      BY <2>2, Zenon DEF FetchAfter, PMove
    <3> QED
      BY <2>0, <2>2, <3>1, <1>0, Zenon DEF FetchAfter, StreamInv, StreamMissesNothing
  <2>3. CASE Emit(k)
    BY <2>0, <2>3, <1>0, Zenon DEF Emit, PMove, StreamInv, StreamMissesNothing
  <2>4. CASE EmitFails(k)
    BY <2>0, <2>4, <1>0, Zenon DEF EmitFails, PMove, StreamInv, StreamMissesNothing
  <2>5. CASE Advance(k)
    <3>1. PICK l \in batch[k] : IsHead(batch[k], l) /\ cursor' = IF cursor >= l THEN cursor ELSE l
      BY <2>5, Zenon DEF Advance
    <3>2. /\ batch' = [batch EXCEPT ![k] = {}] /\ ppc' = [ppc EXCEPT ![k] = "idle"]
          /\ received' = received /\ from' = from /\ batch[k] \subseteq received /\ l \in log
      BY <2>5, <3>1, Zenon DEF Advance, PMove, StreamInv
    <3>3. \A i \in log : i <= l => i \in received
      <4> SUFFICES ASSUME NEW i \in log, i <= l PROVE i \in received
        BY Zenon
      <4>1. CASE i > from[k]
        BY <4>1, <3>1, <3>2, Zenon DEF StreamInv
      <4>2. CASE ~(i > from[k])
        <5>1. i <= cursor
          BY <4>2, <1>0 DEF StreamInv
        <5> QED
          BY <5>1, Zenon DEF StreamInv, StreamMissesNothing
      <4> QED
        BY <4>1, <4>2, Zenon
    <3>4. cursor' >= cursor /\ (cursor' = 0 \/ cursor' \in log) /\ (cursor' = cursor \/ cursor' = l)
      BY <3>1, <3>2, <1>0 DEF StreamInv
    <3>5. StreamMissesNothing'
      BY <2>0, <3>2, <3>3, <3>4, Zenon DEF StreamInv, StreamMissesNothing
    <3>6. \A q \in Pumps : from[q] <= cursor'
      BY <3>4, <1>0, <3>1 DEF StreamInv
    <3> QED
      BY <2>0, <3>2, <3>4, <3>5, <3>6, <1>0, Zenon DEF StreamInv
  <2>6. CASE AdvanceFails(k)
    BY <2>0, <2>6, <1>0, Zenon DEF AdvanceFails, PMove, StreamInv, StreamMissesNothing
  <2> QED
    BY <1>3, <2>1, <2>2, <2>3, <2>4, <2>5, <2>6, Zenon DEF Pump
<1> QED
  BY <1>1, <1>2, <1>3, Zenon DEF Next

(* No entry is ever left behind the cursor unsent, because ids are handed    *)
(* out under the chain lock and so commit in order.                          *)
THEOREM NothingIsSkipped == Spec => []StreamMissesNothing
<1>1. Init => StreamInv
  BY LegacyPrefix, AuditAssumption DEF Init, StreamInv, StreamMissesNothing, Ids
<1>2. StreamInv => StreamMissesNothing
  BY Zenon DEF StreamInv
<1> QED
  BY <1>1, <1>2, InitChain, NextChain, NextStream, PTL DEF Spec

(* A forwarder that read the cursor long ago, or sends a batch again after a *)
(* rival did, never moves the cursor back (AdvanceStreamCursor's GREATEST).  *)
THEOREM CursorOnlyAdvances == Spec => CursorNeverRewinds
<1>1. ChainInv /\ [Next]_vars => [cursor' >= cursor]_vars
  <2> SUFFICES ASSUME ChainInv, Next PROVE cursor' >= cursor
    BY Zenon
  <2>0. cursor \in Nat /\ batch \in [Pumps -> SUBSET Ids] /\ Ids \subseteq Nat
    BY AuditAssumption DEF ChainInv, TypeOK, Ids
  <2>1. ASSUME cursor' = cursor PROVE cursor' >= cursor
    BY <2>0, <2>1
  <2>2. ASSUME Export \/ (\E t \in Txns : Txn(t)) PROVE cursor' = cursor
    BY <2>2, Zenon
    DEF Export, ExportVerify, UseCheckpoint, ExportVerifyFrom, ExportDone, Txn, Operate, DeclareCheckpoint,
        CountEntries, ChainLock, ReadHead, Insert, PublishFails, Commit, CommitAborted, RollBack, End, stream
  <2>3. ASSUME NEW k \in Pumps, Pump(k) PROVE cursor' >= cursor
    <3>1. CASE Advance(k)
      <4>1. PICK l \in batch[k] : cursor' = IF cursor >= l THEN cursor ELSE l
        BY <3>1, Zenon DEF Advance
      <4> QED
        BY <4>1, <2>0
    <3>2. CASE ~Advance(k)
      BY <2>1, <2>3, <3>2, Zenon DEF Pump, StreamCursor, FetchAfter, Emit, EmitFails, AdvanceFails
    <3> QED
      BY <3>1, <3>2
  <2> QED
    BY <2>1, <2>2, <2>3, Zenon DEF Next
<1> QED
  BY <1>1, InitChain, NextChain, PTL DEF Spec, CursorNeverRewinds

-----------------------------------------------------------------------------
(* What an export has learnt so far. *)
ExportInv ==
  /\ offered \subseteq Checkpoints
  /\ xpc = "broken?" => broken \in Legacy
  /\ xpc = "verifyFrom" => start \in Checkpoints
  /\ CheckpointRestoresExports

(* Checkpoints are never taken back. *)
LEMMA CheckpointsStay == ASSUME ChainInv, [Next]_vars PROVE Checkpoints \subseteq Checkpoints'
<1>1. ASSUME NEW t \in Txns, Insert(t) PROVE Checkpoints \subseteq Checkpoints'
  <2>1. \A i \in log : i # nextId
    BY AuditAssumption DEF ChainInv, TypeOK, Ids
  <2> QED
    BY <1>1, <2>1, Zenon DEF Insert, Checkpoints, ChainInv, TypeOK
<1>2. ASSUME NEW t \in Txns, Txn(t), ~Insert(t) PROVE skipped' = skipped
  BY <1>2, Zenon
  DEF Txn, Operate, DeclareCheckpoint, CountEntries, ChainLock, ReadHead, PublishFails, Commit,
      CommitAborted, RollBack, End
<1>3. ASSUME Export \/ (\E k \in Pumps : Pump(k)) \/ UNCHANGED vars PROVE skipped' = skipped
  BY <1>3, Zenon
  DEF Export, ExportVerify, UseCheckpoint, ExportVerifyFrom, ExportDone, Pump, StreamCursor, FetchAfter,
      Emit, EmitFails, Advance, AdvanceFails, vars, chain
<1>4. ASSUME skipped' = skipped PROVE Checkpoints \subseteq Checkpoints'
  BY <1>4, CommitsAtTheEnd, Zenon DEF Checkpoints
<1> QED
  BY <1>1, <1>2, <1>3, <1>4, Zenon DEF Next

(* An export that finds a historical break falls back on the checkpoint.     *)
LEMMA NextExport == ChainInv /\ ExportInv /\ [Next]_vars => ExportInv'
<1> SUFFICES ASSUME ChainInv, ExportInv, [Next]_vars PROVE ExportInv'
  BY Zenon
<1>0. Checkpoints \subseteq Checkpoints'
  BY CheckpointsStay, Zenon
<1>1. ASSUME UNCHANGED export PROVE ExportInv'
  BY <1>0, <1>1, Zenon DEF export, ExportInv, CheckpointRestoresExports
<1>2. ASSUME (\E t \in Txns : Txn(t)) \/ (\E k \in Pumps : Pump(k)) \/ UNCHANGED vars PROVE UNCHANGED export
  BY <1>2, Zenon
  DEF Txn, Operate, DeclareCheckpoint, CountEntries, ChainLock, ReadHead, Insert, PublishFails, Commit,
      CommitAborted, RollBack, End, Pump, StreamCursor, FetchAfter, Emit, EmitFails, Advance, AdvanceFails,
      vars
<1>3. CASE ExportVerify
  BY <1>0, <1>3, BreaksAreLegacy, Zenon DEF ExportVerify, ExportInv, CheckpointRestoresExports
<1>4. CASE UseCheckpoint
  <2>1. CASE \E c \in Checkpoints : start' = c
    <3>1. xpc = "broken?" /\ offered' = offered
          /\ xpc' \in {"verifyFrom", "broken"} /\ (broken < start' => xpc' = "verifyFrom")
      BY <1>4, <2>1, Zenon DEF UseCheckpoint
    <3>2. broken < start'
      BY <3>1, <2>1, BreaksAreLegacy, Zenon DEF ExportInv, ChainInv, LegacyFirst
    <3> QED
      BY <1>0, <2>1, <3>1, <3>2, Zenon DEF ExportInv, CheckpointRestoresExports
  <2>2. CASE Checkpoints = {} /\ xpc' = "broken" /\ offered' = offered
    BY <1>0, <2>2, Zenon DEF ExportInv, CheckpointRestoresExports
  <2> QED
    BY <1>4, <2>1, <2>2, Zenon DEF UseCheckpoint
<1>5. CASE ExportVerifyFrom
  <2>1. start \in Checkpoints /\ start \in Ids \ Legacy
    BY <1>5, BreaksAreLegacy, Zenon DEF ExportVerifyFrom, ExportInv
  <2>2. \A i \in Legacy : ~(i > start)
    BY <2>1, LegacyPrefix, AuditAssumption DEF Ids
  <2>3. BrokenAfter(log, start) = {}
    BY <2>2, Zenon DEF BrokenAfter, ChainInv, ChainNeverForks
  <2> QED
    BY <1>0, <1>5, <2>3, Zenon DEF ExportVerifyFrom, ExportInv, CheckpointRestoresExports
<1>6. CASE ExportDone
  BY <1>6, Zenon DEF ExportDone, ExportInv, CheckpointRestoresExports
<1> QED
  BY <1>1, <1>2, <1>3, <1>4, <1>5, <1>6, Zenon DEF Next, Export

(* Whatever is appended while it runs, an export that starts after a         *)
(* checkpoint verifies.                                                      *)
THEOREM CheckpointsWork == Spec => []CheckpointRestoresExports
<1>1. Init => ExportInv
  BY Zenon DEF Init, ExportInv, CheckpointRestoresExports
<1>2. ExportInv => CheckpointRestoresExports
  BY Zenon DEF ExportInv
<1> QED
  BY <1>1, <1>2, InitChain, NextChain, NextExport, PTL DEF Spec
=============================================================================
