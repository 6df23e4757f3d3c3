---------------------------- MODULE OutboxProofs ----------------------------
(* Proofs about Outbox for every number of rows and workers and every value  *)
(* of its limits, leases and timeouts.                                       *)
EXTENDS Outbox, FiniteSetTheorems, TLAPS

(* backoffFor is a number, whatever the attempts. *)
LEMMA BackoffType == ASSUME NEW a \in Nat PROVE Backoff(a) \in Nat
  BY OutboxAssumption DEF Backoff

(* A row that is not in the table yet has not been charged. *)
FreshUncharged == \A r \in Rows \ queued : attempts[r] = 0

(* DeliveredWasReceived is not inductive by itself: a worker records what it *)
(* remembers of a POST, so what the workers remember has to be true as well. *)
IInv == TypeOK /\ WorkersHonest /\ DeliveredWasReceived /\ FreshUncharged

(* Before anything is queued nothing is delivered and no worker holds a row. *)
LEMMA InitIInv == Init => IInv
<1> SUFFICES ASSUME Init PROVE IInv
  OBVIOUS
<1> USE DEF Init, NoPosts, Zeros
<1>1. setting \in Settings /\ late \in BOOLEAN
  BY Zenon
<1>2. age \in [Workers -> [Rows -> 0..HTTPTimeout]] /\ faults \in 0..MaxFaults
  BY OutboxAssumption
<1>3. /\ attempts \in [Rows -> Nat] /\ wait \in [Rows -> Nat]
      /\ seen \in [Workers -> [Rows -> Nat]]
  OBVIOUS
<1> QED
  BY <1>1, <1>2, <1>3, Zenon DEF IInv, TypeOK, WorkersHonest, DeliveredWasReceived, FreshUncharged

(* No step of a worker, no crash and no failed statement breaks IInv. *)
LEMMA NextIInv == IInv /\ [Next]_vars => IInv'
<1> SUFFICES ASSUME IInv, [Next]_vars PROVE IInv'
  BY Zenon
<1> USE OutboxAssumption DEF IInv, TypeOK, WorkersHonest, DeliveredWasReceived, FreshUncharged
<1>1. ASSUME NEW r \in Rows, Enqueue(r) PROVE IInv'
  BY <1>1, Zenon DEF Enqueue
<1>2. ASSUME NEW w \in Workers, NEW k \in Topics, ClaimSelect(w, k) PROVE IInv'
  BY <1>2, Zenon DEF ClaimSelect, Due, FirstRows, LockedByOthers
<1>3. ASSUME NEW w \in Workers, ClaimCommit(w) PROVE IInv'
  BY <1>3, Zenon DEF ClaimCommit, InHand
<1>4. ASSUME NEW w \in Workers, StatementFails(w) PROVE IInv'
  BY <1>4 DEF StatementFails, Drop, NoPosts, Zeros
<1>5. ASSUME NEW w \in Workers, Crash(w) PROVE IInv'
  BY <1>5 DEF Crash, Drop, NoPosts, Zeros
<1>6. ASSUME NEW w \in Workers, Restart(w) PROVE IInv'
  BY <1>6, Zenon DEF Restart
<1>7. ASSUME NEW w \in Workers, NEW r \in Rows, StartPost(w, r) PROVE IInv'
  BY <1>7, Zenon DEF StartPost
<1>8. ASSUME NEW w \in Workers, NEW r \in Rows, PostOK(w, r) PROVE IInv'
  BY <1>8 DEF PostOK
<1>9. ASSUME NEW w \in Workers, NEW r \in Rows, PostFailed(w, r) PROVE IInv'
  BY <1>9 DEF PostFailed
<1>10. ASSUME NEW w \in Workers, NEW r \in Rows, RecordDelivered(w, r) PROVE IInv'
  BY <1>10 DEF RecordDelivered, NextToRecord, Release, InHand
<1>11. ASSUME NEW w \in Workers, NEW r \in Rows, RecordFailed(w, r) PROVE IInv'
  BY <1>11, BackoffType DEF RecordFailed, NextToRecord, Release, InHand
<1>12. ASSUME NEW w \in Workers, NEW r \in Rows, RecordPanics(w, r) PROVE IInv'
  BY <1>12 DEF RecordPanics, Drop, NoPosts, Zeros
<1>13. ASSUME Tick PROVE IInv'
  BY <1>13 DEF Tick, InFlight
<1>14. ASSUME UNCHANGED vars PROVE IInv'
  BY <1>14, Zenon DEF vars
<1> QED
  BY <1>1, <1>2, <1>3, <1>4, <1>5, <1>6, <1>7, <1>8, <1>9, <1>10, <1>11, <1>12, <1>13, <1>14, Zenon DEF Next

(* The table and the workers stay well typed: in particular only rows that   *)
(* were inserted are ever delivered or received.                             *)
THEOREM TypeCorrect == Spec => []TypeOK
<1>1. IInv => TypeOK
  BY Zenon DEF IInv
<1> QED
  BY InitIInv, NextIInv, <1>1, PTL DEF Spec

(* A row has delivered_at set only if its receiver processed it, for any     *)
(* number of workers, crashes, failed statements and expired leases.         *)
THEOREM NeverFalselyDelivered == Spec => []DeliveredWasReceived
<1>1. IInv => DeliveredWasReceived
  BY Zenon DEF IInv
<1> QED
  BY InitIInv, NextIInv, <1>1, PTL DEF Spec

-----------------------------------------------------------------------------
(* How far attempts can overshoot. *)

Holders(r) == {w \in Workers : post[w][r] # "none"}

(* Each worker that still holds a row may charge it once more; a worker gets *)
(* hold of it only while attempts < MaxAttempts.                             *)
ChargesLeft ==
  \A r \in Rows :
    attempts[r] + Cardinality(Holders(r)) < MaxAttempts + Cardinality(Workers)

(* The holders of a row are finitely many, at most all the workers. *)
LEMMA HoldersBound ==
  ASSUME NEW S, S \subseteq Workers
  PROVE  IsFiniteSet(S) /\ Cardinality(S) \in Nat /\ Cardinality(S) <= Cardinality(Workers)
  BY OutboxAssumption, FS_Subset, FS_CardinalityType, Zenon

(* No step lets attempts and holders together pass the bound. *)
LEMMA NextChargesLeft == IInv /\ ChargesLeft /\ [Next]_vars => ChargesLeft'
<1> SUFFICES ASSUME IInv, ChargesLeft, [Next]_vars, NEW q \in Rows
             PROVE  (attempts[q] + Cardinality(Holders(q)) < MaxAttempts + Cardinality(Workers))'
  BY Zenon DEF ChargesLeft
<1> USE OutboxAssumption DEF IInv, TypeOK
<1>a. Cardinality(Workers) \in Nat /\ attempts[q] \in Nat
  BY FS_CardinalityType, Zenon
<1>b. Cardinality(Holders(q)) \in Nat /\ IsFiniteSet(Holders(q))
  BY HoldersBound, Zenon DEF Holders
<1>c. attempts[q] + Cardinality(Holders(q)) < MaxAttempts + Cardinality(Workers)
  BY Zenon DEF ChargesLeft
<1>d. Holders(q)' \subseteq Workers
  BY Zenon DEF Holders
<1>e. Cardinality(Holders(q)') \in Nat /\ Cardinality(Holders(q)') <= Cardinality(Workers)
  BY <1>d, HoldersBound, Zenon
\* Steps that charge nobody and give the row to nobody.
<1>1. ASSUME attempts'[q] = attempts[q], Holders(q)' \subseteq Holders(q)
      PROVE  (attempts[q] + Cardinality(Holders(q)) < MaxAttempts + Cardinality(Workers))'
  <2>1. Cardinality(Holders(q)') <= Cardinality(Holders(q))
    BY <1>1, <1>b, FS_Subset, Zenon
  <2> QED
    BY <1>1, <2>1, <1>a, <1>b, <1>c, <1>e
\* A claim takes a row that is still below the limit.
<1>2. ASSUME attempts'[q] = attempts[q], attempts[q] < MaxAttempts
      PROVE  (attempts[q] + Cardinality(Holders(q)) < MaxAttempts + Cardinality(Workers))'
  BY <1>2, <1>a, <1>e
<1>3. ASSUME NEW w \in Workers, NEW k \in Topics, ClaimSelect(w, k)
      PROVE  (attempts[q] + Cardinality(Holders(q)) < MaxAttempts + Cardinality(Workers))'
  <2> DEFINE take == FirstRows({r \in Due : TopicOf(r) = k} \ LockedByOthers(w), Batch)
  <2>1. CASE q \in take
    BY <2>1, <1>2, <1>3, Zenon DEF ClaimSelect, FirstRows, Due
  <2>2. CASE q \notin take
    BY <2>2, <1>1, <1>3, Zenon DEF ClaimSelect, Holders
  <2> QED
    BY <2>1, <2>2, Zenon
\* Recording a failure charges the row and lets go of it in the same step.
<1>4. ASSUME NEW w \in Workers, NEW r \in Rows, RecordFailed(w, r)
      PROVE  (attempts[q] + Cardinality(Holders(q)) < MaxAttempts + Cardinality(Workers))'
  <2>1. CASE q = r
    <3>1. w \in Holders(q) /\ Holders(q)' = Holders(q) \ {w}
      BY <2>1, <1>4, Zenon DEF RecordFailed, Release, Holders
    <3>2. Cardinality(Holders(q)') = Cardinality(Holders(q)) - 1
      <4> HIDE OutboxAssumption DEF IInv, TypeOK
      <4>1. Cardinality(Holders(q) \ {w}) = Cardinality(Holders(q)) - 1
        BY <3>1, <1>b, FS_RemoveElement, Zenon
      <4> QED
        BY <3>1, <4>1, Zenon
    <3>3. attempts'[q] = attempts[q] + 1
      BY <2>1, <1>4, Zenon DEF RecordFailed
    <3> QED
      BY <3>2, <3>3, <1>a, <1>b, <1>c
  <2>2. CASE q # r
    BY <2>2, <1>1, <1>4, Zenon DEF RecordFailed, Release, Holders
  <2> QED
    BY <2>1, <2>2, Zenon
<1>5. ASSUME NEW r \in Rows, Enqueue(r)
      PROVE  attempts' = attempts /\ Holders(q)' \subseteq Holders(q)
  BY <1>5, Zenon DEF Enqueue, Holders
<1>6. ASSUME NEW w \in Workers, ClaimCommit(w) \/ Restart(w)
      PROVE  attempts' = attempts /\ Holders(q)' \subseteq Holders(q)
  BY <1>6, Zenon DEF ClaimCommit, Restart, Holders
<1>7. ASSUME NEW w \in Workers, StatementFails(w) \/ Crash(w)
      PROVE  attempts' = attempts /\ Holders(q)' \subseteq Holders(q)
  BY <1>7 DEF StatementFails, Crash, Drop, NoPosts, Holders
<1>8. ASSUME NEW w \in Workers, NEW r \in Rows, StartPost(w, r) \/ PostOK(w, r) \/ PostFailed(w, r)
      PROVE  attempts' = attempts /\ Holders(q)' \subseteq Holders(q)
  <2>1. CASE StartPost(w, r)
    BY <2>1, Zenon DEF StartPost, Holders
  <2>2. CASE PostOK(w, r)
    BY <2>2, Zenon DEF PostOK, Holders
  <2>3. CASE PostFailed(w, r)
    BY <2>3, Zenon DEF PostFailed, Holders
  <2> QED
    BY <1>8, <2>1, <2>2, <2>3, Zenon
<1>9. ASSUME NEW w \in Workers, NEW r \in Rows, RecordDelivered(w, r)
      PROVE  attempts' = attempts /\ Holders(q)' \subseteq Holders(q)
  BY <1>9, Zenon DEF RecordDelivered, Release, Holders
<1>10. ASSUME NEW w \in Workers, NEW r \in Rows, RecordPanics(w, r)
       PROVE  attempts' = attempts /\ Holders(q)' \subseteq Holders(q)
  BY <1>10, Zenon DEF RecordPanics, Drop, NoPosts, Holders
<1>11. ASSUME Tick \/ UNCHANGED vars
       PROVE  attempts' = attempts /\ Holders(q)' \subseteq Holders(q)
  BY <1>11, Zenon DEF Tick, vars, Holders
<1> QED
  BY <1>1, <1>3, <1>4, <1>5, <1>6, <1>7, <1>8, <1>9, <1>10, <1>11, Zenon DEF Next

(* However many processes are suspended past their leases, a row is charged  *)
(* fewer than MaxAttempts plus the number of processes.                      *)
THEOREM Overshoot == Spec => []AttemptsBounded
<1>1. Init => ChargesLeft
  <2> SUFFICES ASSUME Init, NEW r \in Rows
               PROVE  attempts[r] + Cardinality(Holders(r)) < MaxAttempts + Cardinality(Workers)
    BY Zenon DEF ChargesLeft
  <2>1. attempts[r] = 0 /\ Holders(r) = {}
    BY Zenon DEF Init, Zeros, NoPosts, Holders
  <2> QED
    BY <2>1, FS_EmptySet, FS_CardinalityType, OutboxAssumption
<1>2. IInv /\ ChargesLeft => AttemptsBounded
  <2> SUFFICES ASSUME IInv, ChargesLeft, NEW r \in Rows
               PROVE  attempts[r] < MaxAttempts + Cardinality(Workers)
    BY Zenon DEF AttemptsBounded
  <2>1. Cardinality(Holders(r)) \in Nat
    BY HoldersBound, Zenon DEF Holders
  <2> QED
    <3>1. Cardinality(Workers) \in Nat /\ attempts[r] \in Nat /\ MaxAttempts \in Nat
      BY FS_CardinalityType, OutboxAssumption, Zenon DEF IInv, TypeOK
    <3>2. attempts[r] + Cardinality(Holders(r)) < MaxAttempts + Cardinality(Workers)
      BY Zenon DEF ChargesLeft
    <3> QED
      BY <2>1, <3>1, <3>2
<1> QED
  BY InitIInv, NextIInv, NextChargesLeft, <1>1, <1>2, PTL DEF Spec

-----------------------------------------------------------------------------
(* What a step may charge, and what the table promises. *)

(* A claim, a crash, an expired lease or a failed statement never charges a  *)
(* row: only the record of a POST that failed does, and by one.              *)
THEOREM ChargesAreFailures == Spec => ChargedOnlyForFailure
<1>1. IInv /\ [Next]_vars => [ChargesFailure]_vars
  <2> SUFFICES ASSUME IInv, Next PROVE ChargesFailure
    BY Zenon DEF vars
  <2>1. ASSUME NEW w \in Workers, NEW r \in Rows, RecordFailed(w, r) PROVE ChargesFailure
    BY <2>1, Zenon DEF ChargesFailure, RecordFailed, Release, IInv, TypeOK
  <2>2. ASSUME attempts' = attempts PROVE ChargesFailure
    BY <2>2, Zenon DEF ChargesFailure
  <2> QED
    BY <2>1, <2>2, Zenon DEF Next, Enqueue, ClaimSelect, ClaimCommit, StatementFails, Crash, Restart,
       StartPost, PostOK, PostFailed, RecordDelivered, RecordPanics, Tick
<1> QED
  BY InitIInv, NextIInv, <1>1, PTL DEF Spec, ChargedOnlyForFailure

(* The drains of any number of workers implement OutboxContract: a row is    *)
(* only ever inserted, received, parked, or marked delivered after it was    *)
(* received, and nothing undoes the last.                                    *)
THEOREM DrainsImplementContract == Spec => AtLeastOnce
<1>1. Init => Contract!Init
  BY Zenon DEF Init, Contract!Init, Status
<1>2. IInv /\ [Next]_vars => [Contract!Next]_<<Status, received>>
  <2> SUFFICES ASSUME IInv, [Next]_vars PROVE [Contract!Next]_<<Status, received>>
    BY Zenon
  <2> USE OutboxAssumption DEF IInv, TypeOK
  <2>1. ASSUME NEW r \in Rows, Enqueue(r) PROVE Contract!Insert(r)
    <3>1. r \notin queued /\ queued' = queued \cup {r} /\ attempts[r] = 0
      BY <2>1, Zenon DEF Enqueue, FreshUncharged
    <3>2. r \notin delivered /\ delivered' = delivered /\ attempts' = attempts /\ received' = received
      BY <2>1, <3>1, Zenon DEF Enqueue
    <3>3. ~(0 >= MaxAttempts)
      OBVIOUS
    <3>4. Status[r] = "absent" /\ Status' = [Status EXCEPT ![r] = "pending"]
      <4>1. Status[r] = "absent" /\ Status'[r] = "pending"
        BY <3>1, <3>2, <3>3, Zenon DEF Status
      <4>2. \A q \in Rows \ {r} : Status'[q] = Status[q]
        BY <3>1, <3>2, Zenon DEF Status
      <4> QED
        BY <4>1, <4>2, Zenon DEF Status
    <3> QED
      BY <3>2, <3>4, Zenon DEF Contract!Insert
  <2>2. ASSUME NEW w \in Workers, NEW r \in Rows, PostOK(w, r) PROVE Contract!Receive(r)
    BY <2>2, Zenon DEF PostOK, Contract!Receive, Status, WorkersHonest
  <2>3. ASSUME NEW w \in Workers, NEW r \in Rows, PostFailed(w, r)
        PROVE  Contract!Receive(r) \/ UNCHANGED <<Status, received>>
    BY <2>3, Zenon DEF PostFailed, Contract!Receive, Status, WorkersHonest
  <2>4. ASSUME NEW w \in Workers, NEW r \in Rows, RecordDelivered(w, r)
        PROVE  Contract!Deliver(r) \/ UNCHANGED <<Status, received>>
    BY <2>4, Zenon DEF RecordDelivered, NextToRecord, InHand, Contract!Deliver, Status, WorkersHonest
  <2>5. ASSUME NEW w \in Workers, NEW r \in Rows, RecordFailed(w, r)
        PROVE  Contract!Park(r) \/ UNCHANGED <<Status, received>>
    <3>1. /\ queued' = queued /\ delivered' = delivered /\ received' = received
          /\ attempts' = [attempts EXCEPT ![r] = attempts[r] + 1]
      BY <2>5, Zenon DEF RecordFailed
    <3>2. r \in queued
      BY <2>5, Zenon DEF RecordFailed, WorkersHonest
    <3>3. CASE r \notin delivered /\ attempts[r] + 1 = MaxAttempts
      <4>1. ~(attempts[r] >= MaxAttempts) /\ attempts'[r] >= MaxAttempts
        BY <3>1, <3>3
      <4>2. Status[r] = "pending" /\ Status' = [Status EXCEPT ![r] = "parked"]
        <5>1. Status[r] = "pending" /\ Status'[r] = "parked"
          BY <3>1, <3>2, <3>3, <4>1, Zenon DEF Status
        <5>2. \A q \in Rows \ {r} : Status'[q] = Status[q]
          BY <3>1, Zenon DEF Status
        <5> QED
          BY <5>1, <5>2, Zenon DEF Status
      <4> QED
        BY <3>1, <4>2, Zenon DEF Contract!Park
    <3>4. CASE r \in delivered \/ attempts[r] + 1 < MaxAttempts \/ attempts[r] >= MaxAttempts
      <4>1. \A q \in Rows : attempts[q] >= MaxAttempts => attempts'[q] >= MaxAttempts
        BY <3>1
      <4>2. \A q \in Rows : attempts'[q] >= MaxAttempts => attempts[q] >= MaxAttempts \/ q \in delivered
        BY <3>1, <3>4
      <4>3. \A q \in Rows : Status'[q] = Status[q]
        BY <3>1, <4>1, <4>2, Zenon DEF Status
      <4>4. Status' = Status
        BY <4>3, Zenon DEF Status
      <4> QED
        BY <3>1, <4>4, Zenon
    <3>5. \A a, m \in Nat : a + 1 = m \/ a + 1 < m \/ a >= m
      OBVIOUS
    <3>6. attempts[r] \in Nat /\ MaxAttempts \in Nat
      BY Zenon
    <3> QED
      BY <3>3, <3>4, <3>5, <3>6, Zenon
  <2>6. ASSUME UNCHANGED <<queued, delivered, attempts, received>>
        PROVE  UNCHANGED <<Status, received>>
    BY <2>6, Zenon DEF Status
  <2> QED
    BY <2>1, <2>2, <2>3, <2>4, <2>5, <2>6, Zenon
    DEF Next, vars, ClaimSelect, ClaimCommit, StatementFails, Crash, Restart, StartPost,
        RecordPanics, Tick, Contract!Next
<1> QED
  BY InitIInv, NextIInv, <1>1, <1>2, PTL DEF Spec, AtLeastOnce, Contract!Spec

-----------------------------------------------------------------------------
(* The lease outlasts the batch. *)

(* How many waves of Concurrency POSTs a batch takes. *)
Waves == (Batch + Concurrency - 1) \div Concurrency

(* The waves cover the batch and end before the lease does. *)
LEMMA WavesCover ==
  /\ Waves \in Nat \ {0} /\ Batch <= Concurrency * Waves
  /\ Waves * HTTPTimeout \in Nat /\ Waves * HTTPTimeout < ClaimLease
<1> DEFINE q == (Batch + Concurrency - 1) \div Concurrency
           m == (Batch + Concurrency - 1) % Concurrency
<1>1. q \in Nat
  BY OutboxAssumption
<1>2. Batch + Concurrency - 1 = Concurrency * q + m /\ m \in 0 .. Concurrency - 1
  BY OutboxAssumption
<1>3. Batch <= Concurrency * q
  BY <1>1, <1>2, OutboxAssumption
<1>4. q # 0
  BY <1>1, <1>3, OutboxAssumption
<1>5. q * HTTPTimeout \in Nat
  BY <1>1, OutboxAssumption
<1>6. q * HTTPTimeout < ClaimLease
  BY LeaseAssumption
<1> QED
  BY <1>1, <1>3, <1>4, <1>5, <1>6 DEF Waves

(* A claim takes at most Batch rows: rows are told apart by how many of the  *)
(* others precede them.                                                      *)
LEMMA FirstRowsBounded ==
  ASSUME NEW S, S \subseteq Rows, NEW n \in Nat
  PROVE  Cardinality(FirstRows(S, n)) <= n
<1> DEFINE before(r) == {q \in S : q < r}
           F == FirstRows(S, n)
           rank == [r \in F |-> Cardinality(before(r))]
<1>1. IsFiniteSet(S) /\ S \subseteq Nat
  BY OutboxAssumption, FS_Subset, Zenon
<1>2. \A r \in S : IsFiniteSet(before(r)) /\ Cardinality(before(r)) \in Nat
  <2> TAKE r \in S
  <2>1. before(r) \in SUBSET S
    BY Zenon
  <2> HIDE DEF before
  <2> QED
    BY <2>1, <1>1, FS_Subset, FS_CardinalityType, Zenon
<1>3. \A r, s \in S : r < s => Cardinality(before(r)) < Cardinality(before(s))
  <2> SUFFICES ASSUME NEW r \in S, NEW s \in S, r < s
               PROVE  Cardinality(before(r)) < Cardinality(before(s))
    BY Zenon
  <2>1. before(r) \subseteq before(s) /\ r \in before(s) /\ r \notin before(r)
    <3>1. \A a, b, c \in Nat : ~ a < a /\ (a < b /\ b < c => a < c)
      OBVIOUS
    <3> QED
      BY <3>1, <1>1, Zenon
  <2> HIDE DEF before
  <2>2. Cardinality(before(r)) <= Cardinality(before(s))
    BY <2>1, <1>2, FS_Subset, Zenon
  <2>3. Cardinality(before(s)) # Cardinality(before(r))
    BY <2>1, <1>2, FS_Subset, Zenon
  <2> QED
    BY <2>2, <2>3, <1>2
<1>4. F \subseteq S /\ \A r \in F : Cardinality(before(r)) < n
  BY Zenon DEF FirstRows
<1>5. /\ \A r \in F : Cardinality(before(r)) \in 0 .. n - 1
      /\ \A r, s \in F : r # s => Cardinality(before(r)) # Cardinality(before(s))
  <2> HIDE DEF before, F
  <2>1. \A r \in F : Cardinality(before(r)) \in 0 .. n - 1
    BY <1>2, <1>4
  <2>2. ASSUME NEW r \in F, NEW s \in F, r # s
        PROVE  Cardinality(before(r)) # Cardinality(before(s))
    <3>1. r \in S /\ s \in S /\ (r < s \/ s < r)
      BY <2>2, <1>1, <1>4
    <3>2. \A a, b \in Nat : a < b => a # b
      OBVIOUS
    <3> QED
      BY <3>1, <3>2, <1>2, <1>3, Zenon
  <2> QED
    BY <2>1, <2>2, Zenon
<1>6. /\ IsFiniteSet(0 .. n - 1) /\ Cardinality(0 .. n - 1) = n
      /\ IsFiniteSet(F) /\ Cardinality(F) \in Nat
  <2>1. IsFiniteSet(0 .. n - 1) /\ Cardinality(0 .. n - 1) = n
    BY FS_Interval
  <2> HIDE DEF F
  <2> QED
    BY <2>1, <1>1, <1>4, FS_Subset, FS_CardinalityType, Zenon
<1>7. rank \in [F -> 0 .. n - 1] /\ \A r, s \in F : r # s => rank[r] # rank[s]
  <2> HIDE DEF before, F
  <2> QED
    BY <1>5, Zenon
<1> HIDE DEF rank, F
<1>8. ~ Cardinality(0 .. n - 1) < Cardinality(F)
  BY <1>6, <1>7, FS_PigeonHole, Zenon
<1> QED
  BY <1>6, <1>8 DEF F

(***************************************************************************)
(* What a worker holds.  Whatever is suspended: at most a batch; nothing   *)
(* between batches; only rows to be posted while it claims.                *)
(***************************************************************************)
Holding(w) ==
  /\ Cardinality(InHand(w)) <= Batch
  /\ phase[w] \in {"idle", "down"} => InHand(w) = {}
  /\ phase[w] = "claiming" => \A r \in Rows : post[w][r] \in {"none", "todo"}
  /\ \A r \in Rows : post[w][r] # "inflight" => age[w][r] = 0

(* e after the claim: the rows of w whose POST began by the time wave k      *)
(* should have, (k - 1) * HTTPTimeout after the claim, and any that returned.*)
Begun(w, e, k) ==
  {r \in Rows : \/ post[w][r] \in {"ok", "failed"}
                \/ /\ post[w][r] = "inflight"
                   /\ e + HTTPTimeout <= age[w][r] + k * HTTPTimeout}

HasTodo(w) == \E r \in Rows : post[w][r] = "todo"

(***************************************************************************)
(* A batch claimed e ago is on schedule: its rows share what is left of    *)
(* the lease, a POST in flight began before the last wave was over, and as *)
(* long as rows are left to be posted, every wave k that should have begun *)
(* did: Concurrency * k rows are begun.                                    *)
(***************************************************************************)
OnSchedule(w, e) ==
  /\ \A r \in InHand(w) : wait[r] = ClaimLease - e
  /\ \A r \in InFlight(w) : e + HTTPTimeout <= age[w][r] + Waves * HTTPTimeout
  /\ HasTodo(w) => \A k \in Nat : k * HTTPTimeout < e + HTTPTimeout
                                    => Concurrency * k <= Cardinality(Begun(w, e, k))

(* No row is in two hands, and one that is in hand may still be charged and  *)
(* has not been delivered.                                                   *)
Alone ==
  /\ \A v, w \in Workers : v # w => InHand(v) \cap InHand(w) = {}
  /\ \A w \in Workers : \A r \in InHand(w) : attempts[r] < MaxAttempts /\ r \notin delivered

Scheduled(w) ==
  phase[w] = "draining" => \E e \in 0 .. Waves * HTTPTimeout : OnSchedule(w, e)

LeaseInv ==
  /\ \A w \in Workers : Holding(w)
  /\ ~late => Alone /\ \A w \in Workers : Scheduled(w)

(* Nothing is held at first. *)
LEMMA InitLease == Init => LeaseInv
<1> SUFFICES ASSUME Init PROVE LeaseInv
  OBVIOUS
<1>1. \A w \in Workers : /\ InHand(w) = {} /\ phase[w] = "idle"
                         /\ \A r \in Rows : age[w][r] = 0
  BY Zenon DEF Init, InHand, NoPosts, Zeros
<1>2. Cardinality({}) <= Batch
  BY FS_EmptySet, OutboxAssumption
<1>3. "idle" # "claiming" /\ "idle" # "draining"
  OBVIOUS
<1> QED
  BY <1>1, <1>2, <1>3, Zenon DEF LeaseInv, Holding, Alone, Scheduled

(* A row a worker holds until its lease ends is not due before. *)
LEMMA NotDue ==
  ASSUME IInv, LeaseInv, ~late, NEW w \in Workers, phase[w] = "draining", NEW r \in InHand(w)
  PROVE  wait[r] > 0
<1>1. PICK e \in 0 .. Waves * HTTPTimeout : OnSchedule(w, e)
  BY Zenon DEF LeaseInv, Scheduled
<1>2. wait[r] = ClaimLease - e
  BY <1>1, Zenon DEF OnSchedule
<1> QED
  BY <1>2, WavesCover, OutboxAssumption

(* A step that leaves a worker, its rows and their leases alone. *)
LEMMA Aside ==
  ASSUME NEW v \in Workers, Holding(v), phase'[v] = phase[v], post'[v] = post[v],
         age'[v] = age[v]
  PROVE  /\ Holding(v)' /\ InHand(v)' = InHand(v)
         /\ Scheduled(v) /\ (\A r \in InHand(v) : wait'[r] = wait[r]) => Scheduled(v)'
<1>1. InHand(v)' = InHand(v) /\ InFlight(v)' = InFlight(v) /\ HasTodo(v)' = HasTodo(v)
  BY Zenon DEF InHand, InFlight, HasTodo
<1>2. \A e, k : Begun(v, e, k)' = Begun(v, e, k)
  BY Zenon DEF Begun
<1>3. Holding(v)'
  BY <1>1, Zenon DEF Holding
<1>4. ASSUME Scheduled(v), \A r \in InHand(v) : wait'[r] = wait[r], phase'[v] = "draining"
      PROVE  \E e \in 0 .. Waves * HTTPTimeout : OnSchedule(v, e)'
  <2>1. PICK e \in 0 .. Waves * HTTPTimeout : OnSchedule(v, e)
    BY <1>4, Zenon DEF Scheduled
  <2>2. OnSchedule(v, e)'
    BY <1>1, <1>2, <1>4, <2>1, Zenon DEF OnSchedule, InFlight
  <2> QED
    BY <2>2, Zenon
<1> QED
  BY <1>1, <1>3, <1>4, Zenon DEF Scheduled

(* The rows in hand are finitely many. *)
LEMMA FiniteRows ==
  ASSUME NEW S, S \subseteq Rows
  PROVE  IsFiniteSet(S) /\ Cardinality(S) \in Nat
  BY OutboxAssumption, FS_Subset, FS_CardinalityType, Zenon

(* A step of one worker that gives it no row and writes to no other row than *)
(* its own, nor, unless it lets go of it, to attempts or delivered_at.       *)
LEMMA OwnRows ==
  ASSUME IInv, LeaseInv, NEW w \in Workers, late' = late,
         \A v \in Workers : v # w =>
            phase'[v] = phase[v] /\ post'[v] = post[v] /\ age'[v] = age[v],
         InHand(w)' \subseteq InHand(w), Holding(w)', ~late => Scheduled(w)',
         \A r \in Rows : r \notin InHand(w) \/ r \in InHand(w)' =>
            attempts'[r] = attempts[r] /\ (r \in delivered' => r \in delivered),
         \A r \in Rows : r \notin InHand(w) => wait'[r] = wait[r]
  PROVE  LeaseInv'
<1>1. \A v \in Workers : Holding(v)
  BY Zenon DEF LeaseInv
<1>2. \A v \in Workers : v # w => Holding(v)' /\ InHand(v)' = InHand(v)
  BY <1>1, Aside, Zenon
<1>3. \A v \in Workers : Holding(v)'
  BY <1>2, Zenon
<1>4. ASSUME ~late PROVE Alone' /\ \A v \in Workers : Scheduled(v)'
  <2>1. Alone /\ \A v \in Workers : Scheduled(v)
    BY <1>4, Zenon DEF LeaseInv
  <2>2. \A v \in Workers : v # w => \A r \in InHand(v) : r \in Rows /\ r \notin InHand(w)
    BY <2>1, Zenon DEF Alone, InHand
  <2>3. \A v \in Workers : v # w => Scheduled(v)'
    BY <1>1, <2>1, <2>2, Aside, Zenon
  <2>4. \A v, u \in Workers : v # u => InHand(v)' \cap InHand(u)' = {}
    <3>1. \A v \in Workers : InHand(v)' \subseteq InHand(v)
      BY <1>2, Zenon
    <3> QED
      BY <3>1, <2>1, Zenon DEF Alone
  <2>5. \A v \in Workers : \A r \in InHand(v)' : r \in Rows
    BY Zenon DEF InHand
  <2>6. \A v \in Workers : \A r \in InHand(v)' : attempts'[r] = attempts[r] /\ r \in InHand(v)
                                                 /\ (r \in delivered' => r \in delivered)
    BY <1>2, <2>2, <2>5, Zenon
  <2>7. \A v \in Workers : \A r \in InHand(v)' : attempts'[r] < MaxAttempts /\ r \notin delivered'
    BY <2>1, <2>6, Zenon DEF Alone
  <2> QED
    BY <1>4, <2>3, <2>4, <2>7, Zenon DEF Alone
<1> QED
  BY <1>3, <1>4, Zenon DEF LeaseInv

(* A worker that forgets what it holds. *)
LEMMA DropLease ==
  ASSUME IInv, LeaseInv, NEW w \in Workers, NEW p \in {"idle", "down"}, Drop(w, p),
         UNCHANGED <<delivered, attempts, wait, late>>
  PROVE  LeaseInv'
<1>1. /\ phase'[w] = p /\ post'[w] = NoPosts /\ age'[w] = Zeros
      /\ \A v \in Workers : v # w => phase'[v] = phase[v] /\ post'[v] = post[v] /\ age'[v] = age[v]
  BY Zenon DEF Drop, IInv, TypeOK
<1>2. InHand(w)' = {}
  BY <1>1, Zenon DEF InHand, NoPosts
<1>3. phase'[w] # "claiming" /\ phase'[w] # "draining"
  BY <1>1
<1>4. Cardinality({}) <= Batch
  BY FS_EmptySet, OutboxAssumption
<1>5. Holding(w)'
  BY <1>1, <1>2, <1>3, <1>4, Zenon DEF Holding, Zeros
<1>6. Scheduled(w)'
  BY <1>3, Zenon DEF Scheduled
<1> QED
  BY <1>1, <1>2, <1>5, <1>6, OwnRows, Zenon

(* Recording lets go of one row, when none is left to be posted or in flight.*)
LEMMA ReleaseLease ==
  ASSUME IInv, LeaseInv, NEW w \in Workers, NEW r \in Rows, NextToRecord(w, r), Release(w, r),
         UNCHANGED <<age, late>>,
         \A q \in Rows : q # r => attempts'[q] = attempts[q] /\ wait'[q] = wait[q]
                                  /\ (q \in delivered' => q \in delivered)
  PROVE  LeaseInv'
<1>1. /\ \A v \in Workers : v # w => phase'[v] = phase[v] /\ post'[v] = post[v] /\ age'[v] = age[v]
      /\ post'[w][r] = "none" /\ \A q \in Rows : q # r => post'[w][q] = post[w][q]
      /\ phase[w] = "draining" /\ phase'[w] = (IF InHand(w) = {r} THEN "idle" ELSE phase[w])
  BY Zenon DEF Release, NextToRecord, IInv, TypeOK
<1>2. r \in InHand(w) /\ InHand(w)' = InHand(w) \ {r}
  BY <1>1, Zenon DEF InHand, NextToRecord
<1>3. Holding(w)
  BY Zenon DEF LeaseInv
<1>4. Cardinality(InHand(w)') <= Batch
  <2>1. InHand(w) \subseteq Rows /\ InHand(w)' \subseteq InHand(w)
    BY <1>2, Zenon DEF InHand
  <2>2. Cardinality(InHand(w)') <= Cardinality(InHand(w)) /\ Cardinality(InHand(w)) <= Batch
    BY <2>1, <1>3, FiniteRows, FS_Subset, Zenon DEF Holding
  <2>3. Cardinality(InHand(w)') \in Nat /\ Cardinality(InHand(w)) \in Nat
    BY <2>1, FiniteRows, Zenon
  <2> QED
    BY <2>2, <2>3, OutboxAssumption
<1>5. \A q \in Rows : post[w][q] \in {"none", "ok", "failed"} /\ post'[w][q] \in {"none", "ok", "failed"}
  BY <1>1, Zenon DEF NextToRecord, AllReturned
<1>6. \A q \in Rows : post'[w][q] # "inflight" /\ post'[w][q] # "todo" /\ post[w][q] # "inflight"
  BY <1>5
<1>7. phase'[w] # "claiming" /\ phase'[w] # "down" /\ (phase'[w] = "idle" => InHand(w) = {r})
  BY <1>1
<1>8. Holding(w)'
  BY <1>2, <1>3, <1>4, <1>6, <1>7, Zenon DEF Holding
<1>9. ASSUME ~late PROVE Scheduled(w)'
  <2>1. PICK e \in 0 .. Waves * HTTPTimeout : OnSchedule(w, e)
    BY <1>1, <1>9, Zenon DEF LeaseInv, Scheduled
  <2>2. OnSchedule(w, e)'
    BY <2>1, <1>2, <1>6, Zenon DEF OnSchedule, InFlight, HasTodo, InHand
  <2> QED
    BY <2>2, Zenon DEF Scheduled
<1>10. \A q \in Rows : q \notin InHand(w) \/ q \in InHand(w)' => q # r
  BY <1>2, Zenon
<1> QED
  BY <1>1, <1>2, <1>8, <1>9, <1>10, OwnRows, Zenon

(* The claim commits: the lease begins, and no POST has. *)
LEMMA CommitLease ==
  ASSUME IInv, LeaseInv, NEW w \in Workers, ClaimCommit(w)
  PROVE  LeaseInv'
<1>1. /\ phase[w] = "claiming" /\ phase'[w] = "draining"
      /\ post' = post /\ age' = age /\ late' = late /\ attempts' = attempts /\ delivered' = delivered
      /\ \A v \in Workers : v # w => phase'[v] = phase[v]
      /\ \A r \in Rows : wait'[r] = IF r \in InHand(w) THEN ClaimLease ELSE wait[r]
  BY Zenon DEF ClaimCommit, IInv, TypeOK
<1>2. InHand(w)' = InHand(w) /\ \A r \in InHand(w) : r \in Rows
  BY <1>1, Zenon DEF InHand
<1>3. Holding(w)
  BY Zenon DEF LeaseInv
<1>4. phase'[w] # "claiming" /\ phase'[w] \notin {"idle", "down"}
  BY <1>1
<1>5. Holding(w)'
  BY <1>1, <1>2, <1>3, <1>4, Zenon DEF Holding
<1>6. OnSchedule(w, 0)'
  <2>1. \A r \in Rows : post[w][r] \in {"none", "todo"}
    BY <1>1, <1>3, Zenon DEF Holding
  <2>2. \A r \in Rows : post'[w][r] # "inflight"
    BY <1>1, <2>1
  <2>3. ClaimLease = ClaimLease - 0
    BY OutboxAssumption
  <2>4. \A r \in InHand(w)' : wait'[r] = ClaimLease - 0
    BY <1>1, <1>2, <2>3, Zenon
  <2>5. ASSUME NEW k \in Nat, k * HTTPTimeout < 0 + HTTPTimeout
        PROVE  Concurrency * k <= Cardinality(Begun(w, 0, k)')
    <3>1. k = 0
      BY <2>5, OutboxAssumption
    <3>2. Cardinality(Begun(w, 0, k)') \in Nat
      BY FiniteRows, Zenon DEF Begun
    <3> QED
      BY <3>1, <3>2, OutboxAssumption
  <2> QED
    BY <2>2, <2>4, <2>5, Zenon DEF OnSchedule, InFlight
<1>7. 0 \in 0 .. Waves * HTTPTimeout
  BY WavesCover
<1>8. Scheduled(w)'
  BY <1>6, <1>7, Zenon DEF Scheduled
<1> QED
  BY <1>1, <1>2, <1>5, <1>8, OwnRows, Zenon

(* A POST that returns counts as before. *)
LEMMA ReturnLease ==
  ASSUME IInv, LeaseInv, NEW w \in Workers, NEW r \in Rows, PostOK(w, r) \/ PostFailed(w, r)
  PROVE  LeaseInv'
<1>1. /\ phase' = phase /\ late' = late /\ attempts' = attempts /\ delivered' = delivered /\ wait' = wait
      /\ post[w][r] = "inflight" /\ post'[w][r] \in {"ok", "failed"} /\ age'[w][r] = 0
      /\ \A v \in Workers : v # w => post'[v] = post[v] /\ age'[v] = age[v]
      /\ \A q \in Rows : q # r => post'[w][q] = post[w][q] /\ age'[w][q] = age[w][q]
  <2>1. CASE PostOK(w, r)
    BY <2>1 DEF PostOK, IInv, TypeOK
  <2>2. CASE PostFailed(w, r)
    BY <2>2 DEF PostFailed, IInv, TypeOK
  <2> QED
    BY <2>1, <2>2, Zenon
<1>2. post'[w][r] \notin {"none", "todo", "inflight"} /\ post[w][r] \notin {"none", "todo", "ok", "failed"}
  BY <1>1
<1>3. InHand(w)' = InHand(w) /\ InFlight(w)' = InFlight(w) \ {r} /\ HasTodo(w)' = HasTodo(w)
  BY <1>1, <1>2, Zenon DEF InHand, InFlight, HasTodo
<1>4. Holding(w)
  BY Zenon DEF LeaseInv
<1>5. phase[w] # "claiming"
  BY <1>2, <1>4, Zenon DEF Holding
<1>6. Holding(w)'
  BY <1>1, <1>3, <1>4, <1>5, Zenon DEF Holding
<1>7. ASSUME ~late PROVE Scheduled(w)'
  <2>1. ASSUME phase'[w] = "draining"
        PROVE  \E e \in 0 .. Waves * HTTPTimeout : OnSchedule(w, e)'
    <3>1. PICK e \in 0 .. Waves * HTTPTimeout : OnSchedule(w, e)
      BY <1>1, <1>7, <2>1, Zenon DEF LeaseInv, Scheduled
    <3>2. \A k \in Nat : Begun(w, e, k) \subseteq Begun(w, e, k)' /\ Begun(w, e, k)' \subseteq Rows
      BY <1>1, Zenon DEF Begun
    <3>3. \A k \in Nat : Concurrency * k <= Cardinality(Begun(w, e, k))
                            => Concurrency * k <= Cardinality(Begun(w, e, k)')
      <4> TAKE k \in Nat
      <4>1. Cardinality(Begun(w, e, k)) <= Cardinality(Begun(w, e, k)')
        BY <3>2, FiniteRows, FS_Subset, Zenon
      <4>2. /\ Cardinality(Begun(w, e, k)) \in Nat /\ Cardinality(Begun(w, e, k)') \in Nat
            /\ Concurrency * k \in Nat
        <5>1. Begun(w, e, k) \subseteq Rows
          BY Zenon DEF Begun
        <5>2. Concurrency * k \in Nat
          BY OutboxAssumption
        <5> QED
          BY <3>2, <5>1, <5>2, FiniteRows, Zenon
      <4> QED
        BY <4>1, <4>2
    <3>4. \A q \in InFlight(w)' : q \in InFlight(w) /\ age'[w][q] = age[w][q]
      BY <1>1, <1>3, Zenon DEF InFlight
    <3>5. OnSchedule(w, e)'
      BY <1>1, <1>3, <3>1, <3>3, <3>4, Zenon DEF OnSchedule
    <3> QED
      BY <3>5, Zenon
  <2> QED
    BY <2>1, Zenon DEF Scheduled
<1> QED
  BY <1>1, <1>3, <1>6, <1>7, OwnRows, Zenon

(* A POST that begins, begins before the last wave should be over: by then   *)
(* all rows would have begun.                                                *)
LEMMA StartLease ==
  ASSUME IInv, LeaseInv, NEW w \in Workers, NEW r \in Rows, StartPost(w, r)
  PROVE  LeaseInv'
<1>1. /\ phase[w] = "draining" /\ phase' = phase /\ age' = age
      /\ late' = late /\ attempts' = attempts /\ delivered' = delivered /\ wait' = wait
      /\ post[w][r] = "todo" /\ post'[w][r] = "inflight"
      /\ \A v \in Workers : v # w => post'[v] = post[v]
      /\ \A q \in Rows : q # r => post'[w][q] = post[w][q]
  BY Zenon DEF StartPost, IInv, TypeOK
<1>2. "todo" \notin {"none", "inflight", "ok", "failed"} /\ "inflight" # "none" /\ "draining" \notin {"idle", "down", "claiming"}
  OBVIOUS
<1>3. InHand(w)' = InHand(w) /\ InFlight(w)' = InFlight(w) \cup {r} /\ HasTodo(w)
  BY <1>1, <1>2, Zenon DEF InHand, InFlight, HasTodo
<1>4. Holding(w) /\ age[w][r] = 0
  BY <1>1, <1>2, Zenon DEF LeaseInv, Holding
<1>5. Holding(w)'
  BY <1>1, <1>2, <1>3, <1>4, Zenon DEF Holding
<1>6. ASSUME ~late PROVE Scheduled(w)'
  <2>1. PICK e \in 0 .. Waves * HTTPTimeout : OnSchedule(w, e)
    BY <1>1, <1>6, Zenon DEF LeaseInv, Scheduled
  <2>2. \A k \in Nat : /\ Begun(w, e, k) \subseteq Begun(w, e, k)' /\ Begun(w, e, k)' \subseteq Rows
                       /\ Begun(w, e, k) \subseteq InHand(w) \ {r}
    <3>1. \A k \in Nat : Begun(w, e, k) \subseteq Begun(w, e, k)' /\ Begun(w, e, k)' \subseteq Rows
      BY <1>1, <1>2, Zenon DEF Begun
    <3>2. \A q \in Rows : post[w][q] \in {"ok", "failed", "inflight"} => post[w][q] # "none" /\ q # r
      BY <1>1
    <3>3. \A k \in Nat : \A q \in Begun(w, e, k) : q \in Rows /\ post[w][q] \in {"ok", "failed", "inflight"}
      BY Zenon DEF Begun
    <3> QED
      BY <3>1, <3>2, <3>3, Zenon DEF InHand
  <2>3. \A k \in Nat : Concurrency * k <= Cardinality(Begun(w, e, k))
                            => Concurrency * k <= Cardinality(Begun(w, e, k)')
    <3> TAKE k \in Nat
    <3>1. Cardinality(Begun(w, e, k)) <= Cardinality(Begun(w, e, k)')
      BY <2>2, FiniteRows, FS_Subset, Zenon
    <3>2. /\ Cardinality(Begun(w, e, k)) \in Nat /\ Cardinality(Begun(w, e, k)') \in Nat
          /\ Concurrency * k \in Nat
      <4>1. Begun(w, e, k) \subseteq Rows
        BY Zenon DEF Begun
      <4>2. Concurrency * k \in Nat
        BY OutboxAssumption
      <4> QED
        BY <2>2, <4>1, <4>2, FiniteRows, Zenon
    <3> QED
      BY <3>1, <3>2
  <2>4. e + HTTPTimeout <= 0 + Waves * HTTPTimeout
    <3> SUFFICES ASSUME Waves * HTTPTimeout < e + HTTPTimeout PROVE FALSE
      BY WavesCover, OutboxAssumption
    <3>1. Concurrency * Waves <= Cardinality(Begun(w, e, Waves))
      BY <2>1, <1>3, WavesCover, Zenon DEF OnSchedule
    <3>2. InHand(w) \subseteq Rows /\ r \in InHand(w)
      BY <1>1, <1>2, Zenon DEF InHand
    <3>3. Cardinality(InHand(w) \ {r}) = Cardinality(InHand(w)) - 1
      BY <3>2, FiniteRows, FS_RemoveElement, Zenon
    <3>4. Cardinality(Begun(w, e, Waves)) <= Cardinality(InHand(w) \ {r})
      <4>1. Begun(w, e, Waves) \subseteq InHand(w) \ {r} /\ InHand(w) \ {r} \subseteq Rows
        BY <2>2, <3>2, WavesCover, Zenon
      <4> QED
        BY <4>1, FiniteRows, FS_Subset, Zenon
    <3>5. Cardinality(InHand(w)) <= Batch /\ Cardinality(InHand(w)) \in Nat
      BY <1>4, <3>2, FiniteRows, Zenon DEF Holding
    <3>6. Cardinality(Begun(w, e, Waves)) \in Nat
      BY FiniteRows, Zenon DEF Begun
    <3>7. Concurrency * Waves \in Nat
      BY WavesCover, OutboxAssumption
    <3> QED
      BY <3>1, <3>3, <3>4, <3>5, <3>6, <3>7, WavesCover, OutboxAssumption
  <2>5. \A q \in InFlight(w)' : q \in InFlight(w) \/ age'[w][q] = 0
    BY <1>1, <1>3, <1>4, Zenon
  <2>6. OnSchedule(w, e)'
    BY <1>1, <1>3, <2>1, <2>3, <2>4, <2>5, Zenon DEF OnSchedule
  <2> QED
    BY <2>6, Zenon DEF Scheduled
<1> QED
  BY <1>1, <1>3, <1>5, <1>6, OwnRows, Zenon

(* A claim takes rows that nobody holds: those being claimed are locked, and *)
(* those being posted are not due before their lease ends.                   *)
LEMMA SelectLease ==
  ASSUME IInv, LeaseInv, NEW w \in Workers, NEW k \in Topics, ClaimSelect(w, k)
  PROVE  LeaseInv'
<1> DEFINE open == {r \in Due : TopicOf(r) = k} \ LockedByOthers(w)
           take == FirstRows(open, Batch)
<1>1. /\ phase[w] = "idle" /\ phase'[w] = "claiming"
      /\ age' = age /\ late' = late /\ attempts' = attempts /\ delivered' = delivered /\ wait' = wait
      /\ \A r \in Rows : post'[w][r] = IF r \in take THEN "todo" ELSE "none"
      /\ \A v \in Workers : v # w => phase'[v] = phase[v] /\ post'[v] = post[v]
  BY Zenon DEF ClaimSelect, IInv, TypeOK
<1>2. open \subseteq Rows /\ take \subseteq open
  BY Zenon DEF Due, FirstRows, IInv, TypeOK
<1>3. \A r \in take : /\ r \notin delivered /\ attempts[r] < MaxAttempts /\ wait[r] = 0
                      /\ r \notin LockedByOthers(w)
  BY Zenon DEF Due, FirstRows
<1>4. Cardinality(take) <= Batch
  <2> HIDE DEF open
  <2> QED
    BY <1>2, FirstRowsBounded, OutboxAssumption, Zenon
<1> HIDE DEF take, open
<1>5. \A v \in Workers : Holding(v)
  BY Zenon DEF LeaseInv
<1>6. "todo" # "none" /\ "todo" # "inflight" /\ "none" # "inflight" /\ "claiming" \notin {"idle", "down", "draining"}
  OBVIOUS
<1>7. InHand(w)' = take /\ \A r \in Rows : post'[w][r] \in {"none", "todo"}
  BY <1>1, <1>2, <1>6, Zenon DEF InHand
<1>8. \A r \in Rows : age[w][r] = 0
  <2>1. InHand(w) = {}
    BY <1>1, <1>5, Zenon DEF Holding
  <2>2. \A r \in Rows : post[w][r] = "none"
    BY <2>1, Zenon DEF InHand
  <2> QED
    BY <1>5, <1>6, <2>2, Zenon DEF Holding
<1>9. Holding(w)'
  BY <1>1, <1>4, <1>6, <1>7, <1>8, Zenon DEF Holding
<1>10. \A v \in Workers : v # w => Holding(v)' /\ InHand(v)' = InHand(v)
  BY <1>1, <1>5, Aside, Zenon
<1>11. ASSUME ~late PROVE Alone' /\ \A v \in Workers : Scheduled(v)'
  <2>1. Alone /\ \A v \in Workers : Scheduled(v)
    BY <1>11, Zenon DEF LeaseInv
  <2>2. \A v \in Workers : v # w => Scheduled(v)'
    BY <1>1, <1>5, <2>1, Aside, Zenon
  <2>3. Scheduled(w)'
    BY <1>1, <1>6, Zenon DEF Scheduled
  <2>4. ASSUME NEW v \in Workers, v # w PROVE InHand(v) \cap take = {}
    <3>1. CASE phase[v] = "claiming"
      BY <2>4, <3>1, <1>3, Zenon DEF LockedByOthers
    <3>2. CASE phase[v] = "draining"
      <4>1. \A r \in InHand(v) : wait[r] > 0
        BY <1>11, <3>2, NotDue, Zenon
      <4>2. ~ 0 > 0
        OBVIOUS
      <4> QED
        BY <4>1, <4>2, <1>3, Zenon
    <3>3. CASE phase[v] \in {"idle", "down"}
      BY <3>3, <1>5, Zenon DEF Holding
    <3>4. phase[v] \in {"down", "idle", "claiming", "draining"}
      BY Zenon DEF IInv, TypeOK
    <3> QED
      BY <3>1, <3>2, <3>3, <3>4, Zenon
  <2>5. \A u, v \in Workers : u # v => InHand(u)' \cap InHand(v)' = {}
    BY <1>7, <1>10, <2>1, <2>4, Zenon DEF Alone
  <2>6. \A v \in Workers : \A r \in InHand(v)' : attempts'[r] < MaxAttempts /\ r \notin delivered'
    BY <1>1, <1>3, <1>7, <1>10, <2>1, Zenon DEF Alone
  <2> QED
    BY <2>2, <2>3, <2>5, <2>6, Zenon DEF Alone
<1> QED
  BY <1>1, <1>9, <1>10, <1>11, Zenon DEF LeaseInv

(* Arithmetic of waves. *)
LEMMA WaveBefore ==
  ASSUME NEW k \in Nat, NEW e \in Nat, ~ k * HTTPTimeout < e + HTTPTimeout,
         k * HTTPTimeout < (e + 1) + HTTPTimeout
  PROVE  /\ k # 0 /\ k - 1 \in Nat /\ k * HTTPTimeout = e + HTTPTimeout
         /\ (k - 1) * HTTPTimeout = e
         /\ Concurrency * k = Concurrency * (k - 1) + Concurrency
         /\ Concurrency * (k - 1) \in Nat
<1>1. k * HTTPTimeout = e + HTTPTimeout
  <2>1. k * HTTPTimeout \in Nat
    BY OutboxAssumption
  <2> QED
    BY <2>1, OutboxAssumption
<1>2. k # 0
  BY <1>1, OutboxAssumption
<1>3. k - 1 \in Nat
  BY <1>2
<1>4. (k - 1) * HTTPTimeout = k * HTTPTimeout - HTTPTimeout
  BY OutboxAssumption
<1>5. Concurrency * k = Concurrency * (k - 1) + Concurrency /\ Concurrency * (k - 1) \in Nat
  BY <1>3, OutboxAssumption
<1> QED
  BY <1>1, <1>2, <1>3, <1>4, <1>5, OutboxAssumption

(* Time passes only while the POSTs of every batch are in flight, as many as *)
(* may be, and none has reached its timeout: when a wave should begin, all   *)
(* rows of the waves before it have returned, and Concurrency others are in  *)
(* flight.                                                                   *)
LEMMA TickSchedule ==
  ASSUME IInv, NEW w \in Workers, Holding(w), phase[w] = "draining", OnTime(w), Tick,
         NEW e \in 0 .. Waves * HTTPTimeout, OnSchedule(w, e)
  PROVE  e + 1 \in 0 .. Waves * HTTPTimeout /\ OnSchedule(w, e + 1)'
<1> DEFINE T == HTTPTimeout
<1>1. /\ phase' = phase /\ post' = post
      /\ \A r \in Rows : wait'[r] = IF wait[r] > 0 THEN wait[r] - 1 ELSE 0
      /\ \A r \in Rows : age'[w][r] = IF post[w][r] = "inflight" /\ age[w][r] < T
                                      THEN age[w][r] + 1 ELSE age[w][r]
  BY Zenon DEF Tick
<1>2. InHand(w)' = InHand(w) /\ InFlight(w)' = InFlight(w) /\ HasTodo(w)' = HasTodo(w)
  BY <1>1, Zenon DEF InHand, InFlight, HasTodo
<1>3. /\ \A r \in InFlight(w) : age[w][r] < T /\ age'[w][r] = age[w][r] + 1
      /\ \A r \in Rows : age[w][r] \in Nat
  <2>1. \A r \in Rows : age[w][r] \in Nat
    BY OutboxAssumption DEF IInv, TypeOK
  <2> QED
    BY <1>1, <2>1, Zenon DEF OnTime, InFlight
<1>4. InFlight(w) \subseteq Rows /\ InHand(w) \subseteq Rows /\ InFlight(w) \subseteq InHand(w)
  <2>1. "inflight" # "none"
    OBVIOUS
  <2> QED
    BY <2>1, Zenon DEF InFlight, InHand
<1>5. IsFiniteSet(InFlight(w)) /\ Cardinality(InFlight(w)) \in Nat
  BY <1>4, FiniteRows, Zenon
<1>6. HasTodo(w) => Concurrency <= Cardinality(InFlight(w))
  <2>1. HasTodo(w) => ~ Cardinality(InFlight(w)) < Concurrency
    BY Zenon DEF OnTime, Busy, HasTodo
  <2> QED
    BY <2>1, <1>5, OutboxAssumption
<1>7. InFlight(w) # {}
  <2>1. CASE HasTodo(w)
    <3>1. Cardinality(InFlight(w)) # 0
      BY <2>1, <1>5, <1>6, OutboxAssumption
    <3> QED
      BY <3>1, FS_EmptySet, Zenon
  <2>2. CASE ~HasTodo(w)
    <3>1. ~AllReturned(w)
      BY Zenon DEF OnTime, Busy
    <3>2. \A r \in Rows : post[w][r] \in {"none", "todo", "inflight", "ok", "failed"}
      BY Zenon DEF IInv, TypeOK
    <3> QED
      BY <2>2, <3>1, <3>2, Zenon DEF AllReturned, HasTodo, InFlight
  <2> QED
    BY <2>1, <2>2, Zenon
<1>8. e \in Nat /\ T \in Nat \ {0} /\ Waves * T \in Nat /\ Waves * T < ClaimLease /\ ClaimLease \in Nat
  BY WavesCover, OutboxAssumption
<1>9. \A r \in InFlight(w) : e + T <= age[w][r] + Waves * T
  BY Zenon DEF OnSchedule
<1> HIDE DEF T
<1>10. e + 1 \in 0 .. Waves * T
  <2>1. PICK r \in InFlight(w) : TRUE
    BY <1>7, Zenon
  <2>2. e + T <= age[w][r] + Waves * T /\ age[w][r] < T /\ age[w][r] \in Nat
    BY <1>3, <1>4, <1>9, Zenon
  <2> QED
    BY <1>8, <2>2
<1>11. \A r \in InHand(w)' : wait'[r] = ClaimLease - (e + 1)
  <2> SUFFICES ASSUME NEW r \in InHand(w) PROVE wait'[r] = ClaimLease - (e + 1)
    BY <1>2, Zenon
  <2>1. wait[r] = ClaimLease - e /\ wait'[r] = IF wait[r] > 0 THEN wait[r] - 1 ELSE 0
    BY <1>1, <1>4, Zenon DEF OnSchedule
  <2> QED
    BY <2>1, <1>8, <1>10
<1>12. \A r \in InFlight(w)' : (e + 1) + T <= age'[w][r] + Waves * T
  <2> SUFFICES ASSUME NEW r \in InFlight(w) PROVE (e + 1) + T <= age'[w][r] + Waves * T
    BY <1>2, Zenon
  <2>1. e + T <= age[w][r] + Waves * T /\ age[w][r] \in Nat /\ age'[w][r] = age[w][r] + 1
    BY <1>3, <1>4, <1>9, Zenon
  <2> QED
    BY <2>1, <1>8
<1>13. ASSUME HasTodo(w), NEW k \in Nat, k * T < (e + 1) + T
       PROVE  Concurrency * k <= Cardinality(Begun(w, e + 1, k)')
  <2> DEFINE Back == {r \in Rows : post[w][r] \in {"ok", "failed"}}
             Now  == Begun(w, e + 1, k)'
  <2>1. Now \subseteq Rows /\ IsFiniteSet(Now) /\ Cardinality(Now) \in Nat
    BY FiniteRows, Zenon DEF Begun
  <2>2. CASE k * T < e + T
    <3>1. Concurrency * k <= Cardinality(Begun(w, e, k))
      BY <1>13, <2>2, Zenon DEF OnSchedule, T
    <3>2. Begun(w, e, k) \subseteq Now
      <4> SUFFICES ASSUME NEW r \in Begun(w, e, k) PROVE r \in Now
        OBVIOUS
      <4>1. CASE post[w][r] \in {"ok", "failed"}
        BY <4>1, <1>1, Zenon DEF Begun
      <4>2. CASE r \in InFlight(w) /\ e + T <= age[w][r] + k * T
        <5>1. age'[w][r] = age[w][r] + 1 /\ age[w][r] \in Nat
          BY <4>2, <1>3, <1>4, Zenon
        <5>2. k * T \in Nat
          BY <1>8
        <5>3. (e + 1) + T <= age'[w][r] + k * T
          BY <4>2, <5>1, <5>2, <1>8
        <5> QED
          BY <4>2, <5>3, <1>1, Zenon DEF Begun, InFlight, T
      <4> QED
        BY <4>1, <4>2, Zenon DEF Begun, InFlight, T
    <3>3. Cardinality(Begun(w, e, k)) <= Cardinality(Now) /\ Cardinality(Begun(w, e, k)) \in Nat
      <4> HIDE DEF Now
      <4>1. Begun(w, e, k) \subseteq Rows
        BY Zenon DEF Begun
      <4> QED
        BY <2>1, <3>2, <4>1, FiniteRows, FS_Subset, Zenon
    <3>4. Concurrency * k \in Nat
      BY OutboxAssumption
    <3> HIDE DEF Now
    <3>5. Concurrency * k <= Cardinality(Now)
      BY <2>1, <3>1, <3>3, <3>4
    <3> QED
      BY <3>5 DEF Now
  <2>3. CASE ~ k * T < e + T
    <3>1. /\ k - 1 \in Nat /\ k * T = e + T /\ (k - 1) * T = e
          /\ Concurrency * k = Concurrency * (k - 1) + Concurrency
          /\ Concurrency * (k - 1) \in Nat
      BY <1>8, <1>13, <2>3, WaveBefore, Zenon DEF T
    <3>2. Concurrency * (k - 1) <= Cardinality(Begun(w, e, k - 1))
      <4>1. (k - 1) * T < e + T
        BY <3>1, <1>8
      <4> QED
        BY <4>1, <3>1, <1>13, Zenon DEF OnSchedule, T
    <3>3. Begun(w, e, k - 1) \subseteq Back
      <4> SUFFICES ASSUME NEW r \in InFlight(w), e + T <= age[w][r] + (k - 1) * T
                   PROVE  FALSE
        BY Zenon DEF Begun, InFlight, T
      <4>1. age[w][r] < T /\ age[w][r] \in Nat
        BY <1>3, <1>4, Zenon
      <4> QED
        BY <4>1, <3>1, <1>8
    <3>4. Back \cup InFlight(w) \subseteq Now
      <4>1. Back \subseteq Now
        BY <1>1, Zenon DEF Begun
      <4>2. ASSUME NEW r \in InFlight(w) PROVE r \in Now
        <5>1. age'[w][r] = age[w][r] + 1 /\ age[w][r] \in Nat
          BY <1>3, <1>4, Zenon
        <5>2. (e + 1) + T <= age'[w][r] + k * T
          BY <5>1, <3>1, <1>8
        <5> QED
          BY <5>2, <1>1, Zenon DEF Begun, InFlight, T
      <4> QED
        BY <4>1, <4>2, Zenon
    <3>5. Back \cap InFlight(w) = {} /\ Back \subseteq Rows
      <4>1. "inflight" \notin {"ok", "failed"}
        OBVIOUS
      <4> QED
        BY <4>1, Zenon DEF InFlight
    <3> HIDE DEF Back, Now
    <3>6. IsFiniteSet(Back) /\ Cardinality(Back) \in Nat
      BY <3>5, FiniteRows, Zenon
    <3>7. Cardinality(Begun(w, e, k - 1)) <= Cardinality(Back) /\ Cardinality(Begun(w, e, k - 1)) \in Nat
      <4>1. Begun(w, e, k - 1) \subseteq Rows
        BY Zenon DEF Begun
      <4> QED
        BY <3>3, <3>6, <4>1, FiniteRows, FS_Subset, Zenon
    <3>8. Cardinality(Back \cup InFlight(w)) = Cardinality(Back) + Cardinality(InFlight(w))
      <4>1. Cardinality(Back \cup InFlight(w))
              = Cardinality(Back) + Cardinality(InFlight(w)) - Cardinality(Back \cap InFlight(w))
        BY <3>6, <1>5, FS_Union, Zenon
      <4>2. Cardinality(Back \cap InFlight(w)) = 0
        BY <3>5, FS_EmptySet, Zenon
      <4> QED
        BY <4>1, <4>2, <3>6, <1>5
    <3>9. Cardinality(Back \cup InFlight(w)) <= Cardinality(Now)
      BY <3>4, <2>1, FS_Subset, Zenon
    <3>10. Concurrency * k <= Cardinality(Now)
      BY <3>1, <3>2, <3>6, <3>7, <3>8, <3>9, <2>1, <1>5, <1>6, <1>13, OutboxAssumption
    <3> QED
      BY <3>10 DEF Now
  <2> QED
    BY <2>2, <2>3, Zenon
<1> QED
  BY <1>2, <1>10, <1>11, <1>12, <1>13, Zenon DEF OnSchedule, T

(* Time passes: every batch stays on schedule, or a process was suspended. *)
LEMMA TickLease ==
  ASSUME IInv, LeaseInv, Tick
  PROVE  LeaseInv'
<1>1. /\ phase' = phase /\ post' = post /\ attempts' = attempts /\ delivered' = delivered
      /\ late' = (late \/ \E w \in Workers : ~OnTime(w))
      /\ \A w \in Workers : \A r \in Rows : post[w][r] # "inflight" => age'[w][r] = age[w][r]
  BY Zenon DEF Tick
<1>2. \A w \in Workers : InHand(w)' = InHand(w)
  BY <1>1, Zenon DEF InHand
<1>3. \A w \in Workers : Holding(w) /\ Holding(w)'
  BY <1>1, <1>2, Zenon DEF LeaseInv, Holding
<1>4. ASSUME ~late' PROVE Alone' /\ \A w \in Workers : Scheduled(w)'
  <2>1. ~late /\ \A w \in Workers : OnTime(w)
    BY <1>1, <1>4, Zenon
  <2>2. Alone /\ \A w \in Workers : Scheduled(w)
    BY <2>1, Zenon DEF LeaseInv
  <2>3. Alone'
    BY <1>1, <1>2, <2>2, Zenon DEF Alone
  <2>4. ASSUME NEW w \in Workers, phase'[w] = "draining"
        PROVE  \E e \in 0 .. Waves * HTTPTimeout : OnSchedule(w, e)'
    <3>1. PICK e \in 0 .. Waves * HTTPTimeout : OnSchedule(w, e)
      BY <1>1, <2>2, <2>4, Zenon DEF Scheduled
    <3>2. e + 1 \in 0 .. Waves * HTTPTimeout /\ OnSchedule(w, e + 1)'
      BY <1>1, <1>3, <2>1, <2>4, <3>1, TickSchedule, Zenon
    <3> QED
      BY <3>2, Zenon
  <2> QED
    BY <2>3, <2>4, Zenon DEF Scheduled
<1> QED
  BY <1>3, <1>4, Zenon DEF LeaseInv

(* No step breaks the schedule. *)
LEMMA NextLease == IInv /\ LeaseInv /\ [Next]_vars => LeaseInv'
<1> SUFFICES ASSUME IInv, LeaseInv, [Next]_vars PROVE LeaseInv'
  BY Zenon
<1>1. ASSUME UNCHANGED <<delivered, attempts, wait, phase, post, age, late>> PROVE LeaseInv'
  <2>1. \A w \in Workers : Holding(w)
    BY Zenon DEF LeaseInv
  <2>2. \A w \in Workers : Holding(w)' /\ InHand(w)' = InHand(w) /\ (Scheduled(w) => Scheduled(w)')
    BY <1>1, <2>1, Aside, Zenon
  <2>3. Alone => Alone'
    BY <1>1, <2>2, Zenon DEF Alone
  <2> QED
    BY <1>1, <2>2, <2>3, Zenon DEF LeaseInv
<1>2. ASSUME NEW r \in Rows, Enqueue(r) PROVE LeaseInv'
  BY <1>1, <1>2, Zenon DEF Enqueue
<1>3. ASSUME NEW w \in Workers, NEW k \in Topics, ClaimSelect(w, k) PROVE LeaseInv'
  BY <1>3, SelectLease, Zenon
<1>4. ASSUME NEW w \in Workers, ClaimCommit(w) PROVE LeaseInv'
  BY <1>4, CommitLease, Zenon
<1>5. ASSUME NEW w \in Workers, StatementFails(w) \/ Crash(w) PROVE LeaseInv'
  BY <1>5, DropLease, Zenon DEF StatementFails, Crash
<1>6. ASSUME NEW w \in Workers, Restart(w) PROVE LeaseInv'
  <2>1. /\ phase[w] = "down" /\ phase'[w] = "idle" /\ post' = post /\ age' = age /\ late' = late
        /\ attempts' = attempts /\ delivered' = delivered /\ wait' = wait
        /\ \A v \in Workers : v # w => phase'[v] = phase[v]
    BY <1>6, Zenon DEF Restart, IInv, TypeOK
  <2>2. InHand(w)' = InHand(w) /\ Holding(w)
    BY <2>1, Zenon DEF InHand, LeaseInv
  <2>3. phase'[w] # "claiming" /\ phase'[w] # "draining"
    BY <2>1
  <2>4. Holding(w)' /\ Scheduled(w)'
    BY <2>1, <2>2, <2>3, Zenon DEF Holding, Scheduled
  <2> QED
    BY <2>1, <2>2, <2>4, OwnRows, Zenon
<1>7. ASSUME NEW w \in Workers, NEW r \in Rows, StartPost(w, r) PROVE LeaseInv'
  BY <1>7, StartLease, Zenon
<1>8. ASSUME NEW w \in Workers, NEW r \in Rows, PostOK(w, r) \/ PostFailed(w, r) PROVE LeaseInv'
  BY <1>8, ReturnLease, Zenon
<1>9. ASSUME NEW w \in Workers, NEW r \in Rows, RecordDelivered(w, r) PROVE LeaseInv'
  BY <1>9, ReleaseLease, Zenon DEF RecordDelivered
<1>10. ASSUME NEW w \in Workers, NEW r \in Rows, RecordFailed(w, r) PROVE LeaseInv'
  <2>1. \A q \in Rows : q # r => attempts'[q] = attempts[q] /\ wait'[q] = wait[q]
    BY <1>10, Zenon DEF RecordFailed, IInv, TypeOK
  <2> QED
    BY <1>10, <2>1, ReleaseLease, Zenon DEF RecordFailed
<1>11. ASSUME NEW w \in Workers, NEW r \in Rows, RecordPanics(w, r) PROVE LeaseInv'
  BY <1>11, DropLease, Zenon DEF RecordPanics
<1>12. ASSUME Tick PROVE LeaseInv'
  BY <1>12, TickLease, Zenon
<1>13. ASSUME UNCHANGED vars PROVE LeaseInv'
  BY <1>1, <1>13, Zenon DEF vars
<1> QED
  BY <1>2, <1>3, <1>4, <1>5, <1>6, <1>7, <1>8, <1>9, <1>10, <1>11, <1>12, <1>13, Zenon DEF Next

(* A batch in flight is never picked up twice (claimLease, worker.go), for   *)
(* every batch size, concurrency, timeout and lease that LeaseAssumption     *)
(* allows and any number of processes, crashes and failed statements: until  *)
(* a process is suspended at work, no row is in two hands.                   *)
THEOREM LeaseOutlastsBatch == Spec => []NoRowClaimedTwice
<1>1. LeaseInv => NoRowClaimedTwice
  BY Zenon DEF LeaseInv, Alone, NoRowClaimedTwice
<1> QED
  BY InitIInv, NextIInv, InitLease, NextLease, <1>1, PTL DEF Spec

(* A row that is in one hand at a time is charged by that hand only, which   *)
(* found it below the limit: it is parked at exactly MaxAttempts.            *)
THEOREM ParksInTime == Spec => []ParkedAtMaxAttempts
<1> DEFINE Parked == \A r \in Rows : attempts[r] <= MaxAttempts
           PInv == ~late => Parked
<1>1. Init => PInv
  <2>1. 0 <= MaxAttempts
    BY OutboxAssumption
  <2> QED
    BY <2>1, Zenon DEF Init, Zeros
<1>2. IInv /\ LeaseInv /\ PInv /\ [Next]_vars => PInv'
  <2> SUFFICES ASSUME IInv, LeaseInv, PInv, [Next]_vars, ~late' PROVE Parked'
    OBVIOUS
  <2>1. ~late
    BY Zenon DEF Next, vars, Enqueue, ClaimSelect, ClaimCommit, StatementFails, Crash, Restart,
       StartPost, PostOK, PostFailed, RecordDelivered, RecordFailed, RecordPanics, Tick
  <2>2. ASSUME NEW w \in Workers, NEW r \in Rows, RecordFailed(w, r) PROVE Parked'
    <3>1. attempts[r] < MaxAttempts /\ attempts[r] \in Nat
      BY <2>1, <2>2, Zenon DEF LeaseInv, Alone, RecordFailed, NextToRecord, IInv, TypeOK
    <3>2. attempts'[r] = attempts[r] + 1 /\ \A q \in Rows : q # r => attempts'[q] = attempts[q]
      BY <2>2, Zenon DEF RecordFailed, IInv, TypeOK
    <3>3. attempts'[r] <= MaxAttempts
      BY <3>1, <3>2, OutboxAssumption
    <3> QED
      BY <2>1, <3>2, <3>3, Zenon
  <2>3. ASSUME attempts' = attempts PROVE Parked'
    BY <2>1, <2>3, Zenon
  <2> QED
    BY <2>2, <2>3, Zenon DEF Next, vars, Enqueue, ClaimSelect, ClaimCommit, StatementFails, Crash,
       Restart, StartPost, PostOK, PostFailed, RecordDelivered, RecordPanics, Tick
<1>3. PInv => ParkedAtMaxAttempts
  BY Zenon DEF ParkedAtMaxAttempts
<1> QED
  BY InitIInv, NextIInv, InitLease, NextLease, <1>1, <1>2, <1>3, PTL DEF Spec

(* Nor is a row posted again once it is recorded delivered: whoever holds it *)
(* claimed it after the last record and is alone with it.                    *)
THEOREM DeliveredStays == Spec => NoPostAfterDelivered
<1> DEFINE A == ~late => \A w \in Workers, r \in Rows :
                  post[w][r] = "todo" /\ post'[w][r] = "inflight" => r \notin delivered
<1>1. LeaseInv => A
  <2>1. "todo" # "none"
    OBVIOUS
  <2> QED
    BY <2>1, Zenon DEF LeaseInv, Alone, InHand
<1>2. LeaseInv /\ [Next]_vars => [A]_vars
  BY <1>1, Zenon
<1> QED
  BY InitIInv, NextIInv, InitLease, NextLease, <1>2, PTL DEF Spec, NoPostAfterDelivered
=============================================================================
