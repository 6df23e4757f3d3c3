------------------------------- MODULE Outbox -------------------------------
(* Topics of core.outbox and the workers that drain them: outbox/drain.go    *)
(* (drainTopic, claimTopic) and outbox/worker.go (Run, drainOnce).  Every    *)
(* engine process runs one worker, so several drain the same table.          *)
(*                                                                           *)
(* A drain has three phases: claim rows in a short transaction and push      *)
(* next_attempt_at forward by a lease; POST them with no transaction open;   *)
(* record each result in a statement of its own.  next_attempt_at is kept as *)
(* the time still to wait, so the model needs no absolute clock.             *)
EXTENDS Integers, FiniteSets

CONSTANTS Rows,            \* ids of the rows, in ORDER BY id order
          Workers,         \* engine processes
          MaxAttempts,     \* worker.go MaxAttempts
          Batch,           \* Worker.batch
          Concurrency,     \* deliveryConcurrency
          HTTPTimeout,     \* timeout of the worker's http.Client
          ClaimLease,      \* claimLease
          BackoffCap,      \* the 300 of backoffFor
          Topics,          \* the topics drained
          NoBackoff,       \* those whose drainSpec sets no backoff
          Settings,        \* the topic of each row, and whether processes may stall
          MaxFaults        \* bound on crashes and failed statements

ASSUME OutboxAssumption ==
  /\ Rows \subseteq Nat /\ IsFiniteSet(Rows)
  /\ Workers # {} /\ IsFiniteSet(Workers)
  /\ MaxAttempts \in Nat \ {0} /\ Batch \in Nat \ {0}
  /\ Concurrency \in Nat \ {0} /\ HTTPTimeout \in Nat \ {0}
  /\ ClaimLease \in Nat /\ BackoffCap \in Nat /\ MaxFaults \in Nat
  /\ NoBackoff \subseteq Topics
  /\ Settings \subseteq [topic : [Rows -> Topics], stalls : BOOLEAN]

(* A batch is posted in waves of Concurrency, each at most HTTPTimeout long; *)
(* the lease outlasts them (25 rows, 8 at a time, 10 s each, against 60 s).  *)
ASSUME LeaseAssumption ==
  ((Batch + Concurrency - 1) \div Concurrency) * HTTPTimeout < ClaimLease

VARIABLES setting,     \* topic column, and whether a process may be suspended at work
          queued,      \* rows some transaction has inserted
          delivered,   \* rows with delivered_at set
          attempts,    \* attempts column
          wait,        \* time until next_attempt_at, 0 once it has passed
          phase,       \* what each worker is doing
          post,        \* what each worker knows of each row it holds
          seen,        \* attempts as each worker's claim read it
          age,         \* how long each POST has been in flight
          received,    \* rows whose receiver has processed a POST
          faults,      \* crashes and failed statements so far
          late         \* whether a process was suspended while it worked

vars == <<setting, queued, delivered, attempts, wait, phase, post, seen, age, received, faults, late>>

TopicOf(r) == setting.topic[r]

NoPosts == [r \in Rows |-> "none"]
Zeros   == [r \in Rows |-> 0]

Init ==
  /\ setting \in Settings
  /\ queued = {} /\ delivered = {} /\ received = {}
  /\ attempts = Zeros /\ wait = Zeros
  /\ phase = [w \in Workers |-> "idle"]
  /\ post = [w \in Workers |-> NoPosts]
  /\ seen = [w \in Workers |-> Zeros]
  /\ age = [w \in Workers |-> Zeros]
  /\ faults = 0
  /\ late = FALSE

(* The rows a worker has claimed and not yet recorded. *)
InHand(w) == {r \in Rows : post[w][r] # "none"}

(* The row locks of the claim transactions still open (FOR UPDATE). *)
LockedByOthers(w) == UNION {InHand(v) : v \in {u \in Workers \ {w} : phase[u] = "claiming"}}

(* INSERT INTO core.outbox: attempts 0, next_attempt_at now(). *)
Enqueue(r) ==
  /\ r \notin queued
  /\ queued' = queued \cup {r}
  /\ UNCHANGED <<setting, delivered, attempts, wait, phase, post, seen, age, received, faults, late>>

-----------------------------------------------------------------------------
(* claimTopic *)

(* Mutants of the claim: retries beyond the limit, of delivered rows, or none. *)
DueNoLimit == {r \in queued : r \notin delivered /\ wait[r] = 0}
DueOneMore == {r \in queued : r \notin delivered /\ attempts[r] <= MaxAttempts /\ wait[r] = 0}
DueDelivered == {r \in queued : attempts[r] < MaxAttempts /\ wait[r] = 0}
DueOnce == {r \in queued : r \notin delivered /\ attempts[r] = 0 /\ wait[r] = 0}

Due == {r \in queued : r \notin delivered /\ attempts[r] < MaxAttempts /\ wait[r] = 0}

(* ORDER BY id LIMIT n *)
FirstRows(S, n) == {r \in S : Cardinality({q \in S : q < r}) < n}

ClaimSelect(w, k) ==
  LET take == FirstRows({r \in Due : TopicOf(r) = k} \ LockedByOthers(w), Batch)
  IN /\ phase[w] = "idle"
     /\ take # {}
     /\ phase' = [phase EXCEPT ![w] = "claiming"]
     /\ post' = [post EXCEPT ![w] = [r \in Rows |-> IF r \in take THEN "todo" ELSE "none"]]
     /\ seen' = [seen EXCEPT ![w] = [r \in Rows |-> IF r \in take THEN attempts[r] ELSE 0]]
     /\ UNCHANGED <<setting, queued, delivered, attempts, wait, age, received, faults, late>>

(* Mutant: the lease is not written. *)
ClaimCommitNoLease(w) ==
  /\ phase[w] = "claiming"
  /\ phase' = [phase EXCEPT ![w] = "draining"]
  /\ UNCHANGED <<setting, queued, delivered, attempts, wait, post, seen, age, received, faults, late>>

ClaimCommit(w) ==
  /\ phase[w] = "claiming"
  /\ phase' = [phase EXCEPT ![w] = "draining"]
  /\ wait' = [r \in Rows |-> IF r \in InHand(w) THEN ClaimLease ELSE wait[r]]
  /\ UNCHANGED <<setting, queued, delivered, attempts, post, seen, age, received, faults, late>>

-----------------------------------------------------------------------------
(* drainTopic: deliver *)

InFlight(w) == {r \in Rows : post[w][r] = "inflight"}

StartPost(w, r) ==
  /\ phase[w] = "draining"
  /\ post[w][r] = "todo"
  /\ Cardinality(InFlight(w)) < Concurrency
  /\ post' = [post EXCEPT ![w][r] = "inflight"]
  /\ UNCHANGED <<setting, queued, delivered, attempts, wait, phase, seen, age, received, faults, late>>

(* A 2xx answer. *)
PostOK(w, r) ==
  /\ post[w][r] = "inflight"
  /\ post' = [post EXCEPT ![w][r] = "ok"]
  /\ age' = [age EXCEPT ![w][r] = 0]
  /\ received' = received \cup {r}
  /\ UNCHANGED <<setting, queued, delivered, attempts, wait, phase, seen, faults, late>>

(* Any other answer, a refused connection or the timeout; the receiver may   *)
(* have acted on the request all the same.                                   *)
PostFailed(w, r) ==
  /\ post[w][r] = "inflight"
  /\ post' = [post EXCEPT ![w][r] = "failed"]
  /\ age' = [age EXCEPT ![w][r] = 0]
  /\ received' \in {received, received \cup {r}}
  /\ UNCHANGED <<setting, queued, delivered, attempts, wait, phase, seen, faults, late>>

-----------------------------------------------------------------------------
(* drainTopic: record, in batch order once every POST has returned *)

AllReturned(w) == \A r \in Rows : post[w][r] \in {"none", "ok", "failed"}

NextToRecord(w, r) ==
  /\ phase[w] = "draining" /\ AllReturned(w)
  /\ r \in InHand(w) /\ \A q \in InHand(w) : r <= q
  /\ r \notin LockedByOthers(w)

(* Worker w is done with row r, and with the batch when r was its last. *)
Release(w, r) ==
  /\ post' = [post EXCEPT ![w][r] = "none"]
  /\ seen' = [seen EXCEPT ![w][r] = 0]
  /\ phase' = [phase EXCEPT ![w] = IF InHand(w) = {r} THEN "idle" ELSE @]

(* Worker w forgets everything it holds and is left in phase p. *)
Drop(w, p) ==
  /\ phase' = [phase EXCEPT ![w] = p]
  /\ post' = [post EXCEPT ![w] = NoPosts]
  /\ seen' = [seen EXCEPT ![w] = Zeros]
  /\ age' = [age EXCEPT ![w] = Zeros]

RecordDelivered(w, r) ==
  /\ NextToRecord(w, r) /\ post[w][r] = "ok"
  /\ delivered' = delivered \cup {r}
  /\ Release(w, r)
  /\ UNCHANGED <<setting, queued, attempts, wait, age, received, faults, late>>

(* backoffFor *)
Backoff(a) == IF 2^a \in 0..BackoffCap THEN 2^a ELSE BackoffCap

(* Mutant: the last failed attempt closes the row instead of parking it. *)
RecordFailedGivesUp(w, r) ==
  /\ TopicOf(r) \notin NoBackoff
  /\ NextToRecord(w, r) /\ post[w][r] = "failed"
  /\ attempts' = [attempts EXCEPT ![r] = @ + 1]
  /\ delivered' = IF attempts'[r] >= MaxAttempts THEN delivered \cup {r} ELSE delivered
  /\ wait' = [wait EXCEPT ![r] = Backoff(seen[w][r])]
  /\ Release(w, r)
  /\ UNCHANGED <<setting, queued, age, received, faults, late>>

RecordFailed(w, r) ==
  /\ TopicOf(r) \notin NoBackoff
  /\ NextToRecord(w, r) /\ post[w][r] = "failed"
  /\ attempts' = [attempts EXCEPT ![r] = @ + 1]
  /\ wait' = [wait EXCEPT ![r] = Backoff(seen[w][r])]
  /\ Release(w, r)
  /\ UNCHANGED <<setting, queued, delivered, age, received, faults, late>>

(* spec.backoff is nil: calling it panics, no recover is installed, and the  *)
(* process ends before the failure is written.                               *)
RecordPanics(w, r) ==
  /\ TopicOf(r) \in NoBackoff
  /\ NextToRecord(w, r) /\ post[w][r] = "failed"
  /\ Drop(w, "down")
  /\ UNCHANGED <<setting, queued, delivered, attempts, wait, received, faults, late>>

-----------------------------------------------------------------------------
(* Faults *)

(* A statement of the claim or of the record fails: the claim rolls back, or *)
(* drainTopic returns with the rest of the batch unrecorded.                 *)
StatementFails(w) ==
  /\ faults < MaxFaults /\ faults' = faults + 1
  /\ \/ phase[w] = "claiming"
     \/ phase[w] = "draining" /\ AllReturned(w)
  /\ Drop(w, "idle")
  /\ UNCHANGED <<setting, queued, delivered, attempts, wait, received, late>>

Crash(w) ==
  /\ faults < MaxFaults /\ faults' = faults + 1
  /\ phase[w] # "down"
  /\ Drop(w, "down")
  /\ UNCHANGED <<setting, queued, delivered, attempts, wait, received, late>>

Restart(w) ==
  /\ phase[w] = "down"
  /\ phase' = [phase EXCEPT ![w] = "idle"]
  /\ UNCHANGED <<setting, queued, delivered, attempts, wait, post, seen, age, received, faults, late>>

-----------------------------------------------------------------------------
(* Time *)

(* Something worker w does without waiting for the network. *)
Busy(w) ==
  \/ phase[w] = "claiming"
  \/ /\ phase[w] = "draining"
     /\ \/ AllReturned(w)
        \/ /\ \E r \in Rows : post[w][r] = "todo"
           /\ Cardinality(InFlight(w)) < Concurrency

(* A process that is not suspended spends time only in its POSTs, and no     *)
(* POST outlasts the client's timeout.                                       *)
OnTime(w) == ~Busy(w) /\ \A r \in InFlight(w) : age[w][r] < HTTPTimeout

Tick ==
  /\ setting.stalls \/ \A w \in Workers : OnTime(w)
  /\ \/ \E r \in Rows : wait[r] > 0
     \/ \E w \in Workers : \E r \in InFlight(w) : age[w][r] < HTTPTimeout
  /\ wait' = [r \in Rows |-> IF wait[r] > 0 THEN wait[r] - 1 ELSE 0]
  /\ age' = [w \in Workers |-> [r \in Rows |->
               IF post[w][r] = "inflight" /\ age[w][r] < HTTPTimeout
               THEN age[w][r] + 1 ELSE age[w][r]]]
  /\ late' = (late \/ \E w \in Workers : ~OnTime(w))
  /\ UNCHANGED <<setting, queued, delivered, attempts, phase, post, seen, received, faults>>

-----------------------------------------------------------------------------
Next ==
  \/ \E r \in Rows : Enqueue(r)
  \/ \E w \in Workers, k \in Topics : ClaimSelect(w, k)
  \/ \E w \in Workers : ClaimCommit(w)
  \/ \E w \in Workers : StatementFails(w)
  \/ \E w \in Workers : Crash(w)
  \/ \E w \in Workers : Restart(w)
  \/ \E w \in Workers, r \in Rows : StartPost(w, r)
  \/ \E w \in Workers, r \in Rows : PostOK(w, r)
  \/ \E w \in Workers, r \in Rows : PostFailed(w, r)
  \/ \E w \in Workers, r \in Rows : RecordDelivered(w, r)
  \/ \E w \in Workers, r \in Rows : RecordFailed(w, r)
  \/ \E w \in Workers, r \in Rows : RecordPanics(w, r)
  \/ Tick

Spec == Init /\ [][Next]_vars

(* Run drains every topic on each of its ticks for as long as the process    *)
(* lives, so none waits for ever behind another (strong fairness); a POST    *)
(* always returns, a supervisor restarts a process that ended, time passes.  *)
Fairness ==
  /\ WF_vars(Tick)
  /\ \A w \in Workers :
       /\ \A k \in Topics : SF_vars(ClaimSelect(w, k))
       /\ WF_vars(ClaimCommit(w))
       /\ WF_vars(Restart(w))
       /\ \A r \in Rows :
            /\ WF_vars(StartPost(w, r))
            /\ WF_vars(PostOK(w, r) \/ PostFailed(w, r))
            /\ WF_vars(RecordDelivered(w, r) \/ RecordFailed(w, r) \/ RecordPanics(w, r))

FairSpec == Spec /\ Fairness

-----------------------------------------------------------------------------
(* Properties *)

(* The state of the table and of the workers. *)
TypeOK ==
  /\ queued \subseteq Rows /\ delivered \subseteq queued /\ received \subseteq queued
  /\ setting \in Settings
  /\ attempts \in [Rows -> Nat] /\ wait \in [Rows -> Nat]
  /\ phase \in [Workers -> {"down", "idle", "claiming", "draining"}]
  /\ post \in [Workers -> [Rows -> {"none", "todo", "inflight", "ok", "failed"}]]
  /\ seen \in [Workers -> [Rows -> Nat]]
  /\ age \in [Workers -> [Rows -> 0..HTTPTimeout]]
  /\ faults \in 0..MaxFaults
  /\ late \in BOOLEAN

(* A worker holds only rows that exist, and believes a POST succeeded only   *)
(* if its receiver processed it.                                             *)
WorkersHonest ==
  \A w \in Workers, r \in Rows :
    /\ post[w][r] # "none" => r \in queued
    /\ post[w][r] = "ok" => r \in received

(* A notice is marked delivered only if its receiver processed it, whatever  *)
(* crashes, expired leases and late results came in between (drain.go:92).   *)
DeliveredWasReceived == delivered \subseteq received

(* A batch in flight is never picked up twice (worker.go:143): until some    *)
(* process is suspended at work, no two workers hold the same row, because   *)
(* the lease outlasts the waves of a batch.                                  *)
NoRowClaimedTwice ==
  ~late => \A v, w \in Workers : v # w => InHand(v) \cap InHand(w) = {}

(* A notice is parked at exactly MaxAttempts (worker.go:39): until some      *)
(* process is suspended at work no row is charged beyond it, though the      *)
(* claim and the charge are apart in time.                                   *)
ParkedAtMaxAttempts == ~late => \A r \in Rows : attempts[r] <= MaxAttempts

(* With suspended processes and expired leases several workers may charge    *)
(* the same row; each of them but one can overshoot MaxAttempts by one.      *)
AttemptsBounded ==
  \A r \in Rows : attempts[r] < MaxAttempts + Cardinality(Workers)

ChargesFailure ==
  \A r \in Rows : attempts'[r] # attempts[r] =>
    /\ attempts'[r] = attempts[r] + 1
    /\ \E w \in Workers : post[w][r] = "failed" /\ post'[w][r] = "none"

(* attempts grows only by one, and only when a worker records a POST of that *)
(* row that failed: neither a claim nor a crash charges it (drain.go:120).   *)
ChargedOnlyForFailure == [][ChargesFailure]_vars

(* Once a row is recorded delivered no worker starts another POST of it,     *)
(* until some process is suspended at work.                                  *)
NoPostAfterDelivered ==
  [][~late => \A w \in Workers, r \in Rows :
       post[w][r] = "todo" /\ post'[w][r] = "inflight" => r \notin delivered]_vars

Settled(r) == r \in delivered \/ attempts[r] >= MaxAttempts

(* A crash between claiming and recording is a delay, not a loss             *)
(* (drain.go:41): every queued notice is delivered or parked in the end.     *)
EveryNoticeSettles == \A r \in Rows : r \in queued ~> Settled(r)

(* A failure in one topic must not stall the other (worker.go:118): every    *)
(* notice of a topic that backs off is delivered or parked in the end, even  *)
(* while failing pushes end process after process.                           *)
TopicsIndependent ==
  \A r \in Rows : r \in queued /\ TopicOf(r) \notin NoBackoff ~> Settled(r)

(* The row as the contract sees it. *)
Status == [r \in Rows |->
             IF r \notin queued THEN "absent"
             ELSE IF r \in delivered THEN "delivered"
             ELSE IF attempts[r] >= MaxAttempts THEN "parked" ELSE "pending"]

Contract == INSTANCE OutboxContract WITH status <- Status

(* The claim, deliver and record of several workers, with crashes, expired   *)
(* leases and late results, implement at-least-once delivery.                *)
AtLeastOnce == Contract!Spec
=============================================================================
