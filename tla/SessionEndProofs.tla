-------------------------- MODULE SessionEndProofs --------------------------
(* Proofs about SessionEnd, for any number of requests, users, sessions and  *)
(* relying parties.  The argument is about one call of TerminateSessions:    *)
(* whatever it set out to end is, statement by statement, already revoked,   *)
(* held by this transaction, or still in what it is about to lock; and what  *)
(* it holds it has queued notices for.                                       *)
EXTENDS SessionEnd, FiniteSetTheorems, TLAPS

InCall == {"snapshot", "events", "destroy", "lock"}

(* Where the sessions a transaction set out to end are. *)
Pending(p) ==
  IF pc[p] = "lock" THEN snap[p]
  ELSE IF pc[p] \in InCall THEN Match(target[p])
  ELSE {}

Reached(p) == \A s \in met[p] : s \in revoked \/ s \in mine[p] \/ s \in Pending(p)

Queued(p) ==
  \A x \in known[p] :
    /\ x \in touched /\ x[1] \in met[p]
    /\ (x[1] \in mine[p] \/ (x[1] \notin revoked /\ pc[p] \in {"events", "destroy", "lock"}))
         => (x[2] \in Backchannel => x \in tells[p])
    /\ (x[1] \in mine[p] \/ (x[1] \notin revoked /\ pc[p] \in {"destroy", "lock"}))
         => (x[2] \in Streams => x \in evs[p])

(* The presented session is dealt with before the limit is looked at. *)
OldEnds(p) ==
  old[p] # 0 =>
     /\ old[p] \in exist
     /\ \/ old[p] \in revoked \/ old[p] \in mine[p]
        \/ job[p] = "signin" /\ (old[p] \in todo[p] \/ old[p] \in Pending(p))

(* What a transaction holds are rows, and its request says what it is after. *)
Shape(p) ==
  /\ mine[p] \subseteq exist /\ snap[p] \subseteq exist
  /\ (job[p] \in {"signin", "limited"} \/ old[p] # 0) => new[p] \in SIDs
  /\ job[p] = "deactivate" => todo[p] \subseteq Users /\ (target[p] \in Users \/ todo[p] # {})

(* The inductive invariant of one request. *)
Good(q) == Reached(q) /\ Queued(q) /\ OldEnds(q)

TypeInv == TypeOK /\ \A p \in Procs : Shape(p)

EndInv ==
  /\ \A p \in Procs : Good(p)
  /\ KnownClientsTold /\ NeverBothLive

CutInv == cut \subseteq revoked

-----------------------------------------------------------------------------
(* Init establishes the shape of the state. *)
LEMMA InitType == Init => TypeInv
BY SessionAssumption DEF Init, TypeInv, TypeOK, TablesOK, RequestsOK, HistoryOK, Shape, SIDs, Pairs, AllJobs

(* What a commit makes visible is within it. *)
LEMMA PublishType ==
  ASSUME TypeInv, NEW p \in Procs, Publish(p)
  PROVE  /\ revoked' \subseteq exist /\ revoked \subseteq revoked'
         /\ told' \in [Pairs -> Nat] /\ evented' \subseteq Pairs
         /\ owed' \subseteq Pairs /\ atEnd' \subseteq Pairs
         /\ superseded' \subseteq SIDs \X SIDs
<1> USE DEF TypeInv, TypeOK, TablesOK, RequestsOK, HistoryOK
<1>1. revoked' \subseteq exist /\ revoked \subseteq revoked'
  BY Zenon DEF Publish, Shape
<1>2. told' \in [Pairs -> Nat]
  <2>1. \A x \in Pairs : told[x] + (IF x \in tells[p] THEN 1 ELSE 0) \in Nat
    OBVIOUS
  <2> QED
    BY <2>1, Zenon DEF Publish
<1>3. evented' \subseteq Pairs /\ owed' \subseteq Pairs /\ atEnd' \subseteq Pairs
  BY Zenon DEF Publish
<1>4. superseded' \subseteq SIDs \X SIDs
  <2>1. old[p] \in mine[p] => old[p] \in SIDs /\ old[p] # 0 /\ new[p] \in SIDs
    BY DEF Shape, SIDs
  <2> QED
    BY <2>1 DEF Publish
<1> QED
  BY <1>1, <1>2, <1>3, <1>4, Zenon

(* A request starts within it. *)
LEMMA StartType ==
  ASSUME TypeInv, NEW p \in Procs, NEW j \in {"signin", "logout", "logoutAll", "deactivate", "sweep"},
         NEW T, NEW n \in 0..MaxSid, NEW o \in 0..MaxSid, Start(p, j, T, n, o),
         nextSid' \in 1..(MaxSid + 1), T \subseteq (Users \cup SIDs),
         (j = "signin" \/ o # 0) => n \in SIDs,
         j = "deactivate" => T \subseteq Users /\ T # {}
  PROVE  TypeInv'
<1> USE DEF TypeInv, Start, tables, hist
<1>1. TypeOK'
  BY Zenon DEF TypeOK, TablesOK, RequestsOK, HistoryOK, AllJobs
<1>2. \A q \in Procs : Shape(q)'
  BY Zenon DEF Shape, TypeOK, TablesOK, RequestsOK
<1> QED
  BY <1>1, <1>2, Zenon

(* Each statement runs within it. *)
LEMMA NextType == TypeInv /\ [Next]_vars => TypeInv'
<1> SUFFICES ASSUME TypeInv, [Next]_vars PROVE TypeInv'
  BY Zenon
<1> USE SessionAssumption DEF TypeInv, TypeOK, TablesOK, RequestsOK, HistoryOK, Shape, SIDs, Pairs, AllJobs
<1>2. ASSUME NEW p \in Procs, SignIn(p) PROVE TypeInv'
  <2>1. PICK o \in {0} \cup exist : Start(p, "signin", {o} \cap (exist \ revoked), nextSid, o)
    BY <1>2, Zenon DEF SignIn
  <2>2. nextSid \in 1..MaxSid /\ nextSid' = nextSid + 1
    BY <1>2, Zenon DEF SignIn
  <2>3. nextSid' \in 1..(MaxSid + 1) /\ o \in 0..MaxSid /\ nextSid \in 0..MaxSid
    BY <2>2
  <2>4. ({o} \cap (exist \ revoked)) \subseteq (Users \cup SIDs)
    BY Zenon
  <2> QED
    BY <2>1, <2>2, <2>3, <2>4, StartType, Zenon
<1>3. ASSUME NEW p \in Procs, Logout(p) PROVE TypeInv'
  <2>1. PICK s \in exist : Start(p, "logout", {s}, 0, 0) /\ nextSid' = nextSid
    BY <1>3, Zenon DEF Logout
  <2>2. {s} \subseteq Users \cup SIDs /\ 0 \in 0..MaxSid
    OBVIOUS
  <2> QED
    BY <2>1, <2>2, StartType, Zenon
<1>4. ASSUME NEW p \in Procs, LogoutAll(p) PROVE TypeInv'
  <2>1. PICK u \in Users : Start(p, "logoutAll", {u}, 0, 0) /\ nextSid' = nextSid
    BY <1>4, Zenon DEF LogoutAll
  <2>2. {u} \subseteq Users \cup SIDs /\ 0 \in 0..MaxSid
    OBVIOUS
  <2> QED
    BY <2>1, <2>2, StartType, Zenon
<1>5. ASSUME NEW p \in Procs, Deactivate(p) PROVE TypeInv'
  <2>1. PICK u \in Users : Start(p, "deactivate", {u}, 0, 0) /\ nextSid' = nextSid
    BY <1>5, Zenon DEF Deactivate
  <2>2. {u} \subseteq Users \cup SIDs /\ 0 \in 0..MaxSid /\ {u} # {} /\ {u} \subseteq Users
    OBVIOUS
  <2> QED
    BY <2>1, <2>2, StartType, Zenon
<1>6. ASSUME NEW p \in Procs, Sweep(p) PROVE TypeInv'
  <2> DEFINE T == FirstOf((exist \ revoked) \cap expired, SweepBatch)
  <2>1. Start(p, "sweep", T, 0, 0) /\ nextSid' = nextSid
    BY <1>6, Zenon DEF Sweep
  <2>2. T \subseteq exist
    BY Zenon DEF FirstOf
  <2> HIDE DEF T
  <2>3. T \subseteq Users \cup SIDs /\ 0 \in 0..MaxSid
    BY <2>2
  <2> QED
    BY <2>1, <2>3, StartType, Zenon
<1>7. ASSUME NEW p \in Procs, Call(p) PROVE TypeInv'
  <2>0. PICK t \in todo[p] :
          /\ target' = [target EXCEPT ![p] = t]
          /\ todo' = [todo EXCEPT ![p] = @ \ {t}]
          /\ known' = [known EXCEPT ![p] = @ \cup {x \in touched : x[1] \in Unrevoked(p, Match(t))}]
          /\ met' = [met EXCEPT ![p] = @ \cup Match(t)]
    BY <1>7, Zenon DEF Call
  <2>1. TypeOK'
    <3>0. todo[p] \subseteq Users \cup SIDs /\ exist \subseteq SIDs
      BY Zenon
    <3>a. Match(t) \subseteq SIDs
      BY <3>0, Zenon DEF Match
    <3>b. t \in Users \/ t \in 1..MaxSid
      BY <3>0, Zenon
    <3>1. t \in Users \cup (0..MaxSid) /\ Match(t) \subseteq SIDs
      BY <3>a, <3>b
    <3>2. RequestsOK'
      BY <1>7, <2>0, <3>1, Zenon DEF Call, Stay
    <3>3. TablesOK' /\ HistoryOK'
      BY <1>7, Zenon DEF Call, tables, hist
    <3> QED
      BY <3>2, <3>3, Zenon
  <2>2. \A q \in Procs : Shape(q)'
    BY <1>7 DEF Call, Stay, Match, Unrevoked, tables, hist
  <2> QED
    BY <2>1, <2>2, Zenon
<1>8. ASSUME NEW p \in Procs, Snapshot(p) PROVE TypeInv'
  BY <1>8, Zenon DEF Snapshot, Stay, tables, hist
<1>9. ASSUME NEW p \in Procs, QueueEvents(p) PROVE TypeInv'
  BY <1>9, Zenon DEF QueueEvents, Stay, tables, hist
<1>10. ASSUME NEW p \in Procs, Destroy(p) PROVE TypeInv'
  <2>1. /\ pc' = [pc EXCEPT ![p] = "lock"] /\ snap' = [snap EXCEPT ![p] = Unrevoked(p, Match(target[p]))]
        /\ Unrevoked(p, Match(target[p])) \subseteq exist
        /\ UNCHANGED <<tables, nextSid, job, target, todo, tells, evs, mine, new, old, known, met,
                       authorizing, hist>>
    BY <1>10, Zenon DEF Destroy, Stay, Match, Unrevoked
  <2>2. TablesOK' /\ HistoryOK'
    BY <2>1, Zenon DEF tables, hist
  <2>3. RequestsOK'
    BY <2>1, Zenon
  <2>4. \A q \in Procs : Shape(q)'
    BY <2>1, ZenonT(30) DEF tables
  <2> QED
    BY <2>2, <2>3, <2>4, Zenon
<1>11. ASSUME NEW p \in Procs, LockRows(p) PROVE TypeInv'
  <2>1. /\ pc' = [pc EXCEPT ![p] = "next"] /\ snap' = [snap EXCEPT ![p] = {}]
        /\ mine' = [mine EXCEPT ![p] = @ \cup (snap[p] \ revoked)]
        /\ UNCHANGED <<tables, nextSid, job, target, todo, tells, evs, new, old, known, met,
                       authorizing, hist>>
    BY <1>11, Zenon DEF LockRows, Stay
  <2>2. TablesOK' /\ HistoryOK'
    BY <2>1, Zenon DEF tables, hist
  <2>3. RequestsOK'
    BY <2>1, Zenon
  <2>4. \A q \in Procs : Shape(q)'
    BY <2>1, ZenonT(30) DEF tables
  <2> QED
    BY <2>2, <2>3, <2>4, Zenon
<1>12. ASSUME NEW p \in Procs, EnforceSessionLimit(p) PROVE TypeInv'
  <2>0. PICK T \in SUBSET SIDs : todo' = [todo EXCEPT ![p] = T]
    <3>1. LiveOf(OwnerOf[new[p]], p) \subseteq SIDs
      BY Zenon DEF LiveOf, Unrevoked, Match
    <3>2. todo' = todo => todo' = [todo EXCEPT ![p] = {}]
      BY <1>12 DEF EnforceSessionLimit
    <3> QED
      BY <1>12, <3>1, <3>2, Zenon DEF EnforceSessionLimit, FirstOf
  <2>a. /\ job' = [job EXCEPT ![p] = "limited"] /\ job[p] = "signin"
        /\ UNCHANGED <<tables, nextSid, target, tells, evs, snap, mine, new, old, known, met, authorizing, hist>>
    BY <1>12, Zenon DEF EnforceSessionLimit
  <2>b. pc' \in [Procs -> {"idle", "next", "snapshot", "events", "destroy", "lock", "refuse"}]
    <3>1. Stay(p, "next") \/ Stay(p, "refuse")
      BY <1>12, Zenon DEF EnforceSessionLimit
    <3> QED
      BY <3>1, Zenon DEF Stay
  <2>1. TypeOK'
    <3>1. TablesOK' /\ HistoryOK'
      BY <2>a, Zenon DEF tables, hist
    <3>2. RequestsOK'
      BY <2>0, <2>a, <2>b, Zenon
    <3> QED
      BY <3>1, <3>2, Zenon
  <2>2. \A q \in Procs : Shape(q)'
    BY <2>0, <2>a, Zenon DEF tables
  <2> QED
    BY <2>1, <2>2, Zenon
<1>13. ASSUME NEW p \in Procs, Commit(p) PROVE TypeInv'
  <2>0. Publish(p) /\ Clear(p) /\ mine[p] \subseteq exist
    BY <1>13, Zenon DEF Commit
  <2>1. TypeOK'
    <3>0. exist \subseteq exist' /\ exist' \subseteq SIDs
      BY <1>13, Zenon DEF Commit
    <3>a. /\ revoked' \subseteq exist /\ told' \in [Pairs -> Nat] /\ evented' \subseteq Pairs
          /\ owed' \subseteq Pairs /\ atEnd' \subseteq Pairs /\ superseded' \subseteq SIDs \X SIDs
      BY <2>0, PublishType, Zenon
    <3>b. UNCHANGED <<expired, disabled, touched, cut, nextSid, authorizing>>
      BY <1>13, <2>0, Zenon DEF Commit, Clear
    <3>c. presented' \subseteq SIDs \X SIDs
      <4>1. job[p] = "limited" /\ old[p] # 0 => old[p] \in SIDs /\ new[p] \in SIDs
        OBVIOUS
      <4> QED
        BY <1>13, <4>1 DEF Commit
    <3>1. TablesOK'
      BY <3>0, <3>a, <3>b, Zenon
    <3>2. RequestsOK'
      BY <2>0 DEF Clear
    <3>3. HistoryOK'
      BY <3>a, <3>b, <3>c, Zenon
    <3> QED
      BY <3>1, <3>2, <3>3, Zenon
  <2>2. \A q \in Procs : Shape(q)'
    BY <1>13 DEF Commit, Publish, Clear
  <2> QED
    BY <2>1, <2>2, Zenon
<1>14. ASSUME NEW p \in Procs, CommitDeactivation(p) PROVE TypeInv'
  <2>0. Publish(p) /\ Clear(p) /\ mine[p] \subseteq exist
    BY <1>14, Zenon DEF CommitDeactivation
  <2>1. TypeOK'
    <3>a. /\ revoked' \subseteq exist /\ told' \in [Pairs -> Nat] /\ evented' \subseteq Pairs
      BY <2>0, PublishType, Zenon
    <3>b. UNCHANGED <<exist, expired, touched, nextSid, authorizing>>
      BY <1>14, <2>0, Zenon DEF CommitDeactivation, Clear
    <3>c. disabled' \subseteq Users
      BY <1>14, Zenon DEF CommitDeactivation
    <3>1. TablesOK'
      BY <3>a, <3>b, <3>c, Zenon
    <3>2. RequestsOK'
      BY <2>0 DEF Clear
    <3>3. HistoryOK'
      BY <1>14, <2>0, PublishType, Zenon DEF CommitDeactivation
    <3> QED
      BY <3>1, <3>2, <3>3, Zenon
  <2>2. \A q \in Procs : Shape(q)'
    BY <1>14 DEF CommitDeactivation, Publish, Clear
  <2> QED
    BY <2>1, <2>2, Zenon
<1>15. ASSUME NEW p \in Procs, RefuseSignIn(p) PROVE TypeInv'
  <2>0. Publish(p) /\ Clear(p) /\ mine[p] \subseteq exist
    BY <1>15, Zenon DEF RefuseSignIn
  <2>1. TypeOK'
    <3>a. /\ revoked' \subseteq exist /\ told' \in [Pairs -> Nat] /\ evented' \subseteq Pairs
      BY <2>0, PublishType, Zenon
    <3>b. UNCHANGED <<exist, expired, disabled, touched, nextSid, authorizing>>
      BY <1>15, <2>0, Zenon DEF RefuseSignIn, Clear
    <3>1. TablesOK'
      BY <3>a, <3>b, Zenon
    <3>2. RequestsOK'
      BY <2>0 DEF Clear
    <3>3. HistoryOK'
      BY <1>15, <2>0, PublishType, Zenon DEF RefuseSignIn
    <3> QED
      BY <3>1, <3>2, <3>3, Zenon
  <2>2. \A q \in Procs : Shape(q)'
    BY <1>15 DEF RefuseSignIn, Publish, Clear
  <2> QED
    BY <2>1, <2>2, Zenon
<1>16. ASSUME NEW p \in Procs, RollBack(p) PROVE TypeInv'
  <2>1. Clear(p) /\ UNCHANGED <<tables, hist>>
    BY <1>16, Zenon DEF RollBack
  <2>2. TablesOK'
    BY <2>1, Zenon DEF Clear, tables
  <2>3. RequestsOK'
    BY <2>1 DEF Clear
  <2>4. HistoryOK'
    BY <2>1, Zenon DEF hist
  <2>5. \A q \in Procs : Shape(q)'
    BY <2>1 DEF Clear, tables
  <2> QED
    BY <2>2, <2>3, <2>4, <2>5, Zenon
<1>17. ASSUME NEW x \in Pairs, Authorize(x) \/ TouchSessionClient(x) PROVE TypeInv'
  <2>1. /\ UNCHANGED <<exist, revoked, expired, disabled, told, evented, others, hist>>
        /\ touched' \subseteq Pairs /\ authorizing' \subseteq Pairs
    BY <1>17 DEF Authorize, TouchSessionClient, tables
  <2> QED
    BY <2>1, Zenon DEF others, hist, txn
<1>18. ASSUME NEW s \in SIDs, Expire(s) PROVE TypeInv'
  BY <1>18, Zenon DEF Expire, hist, others, txn
<1>19. ASSUME NEW u \in Users, DeactivateQuietly(u) PROVE TypeInv'
  BY <1>19, Zenon DEF DeactivateQuietly, Match, others, txn
<1>20. ASSUME NEW u \in Users, DeactivateStatusOnly(u) \/ Reactivate(u) PROVE TypeInv'
  <2>1. /\ disabled' \subseteq Users /\ cut' \subseteq SIDs
        /\ UNCHANGED <<exist, revoked, expired, touched, told, evented, owed, atEnd, presented,
                       superseded, others, authorizing>>
    BY <1>20, Zenon DEF DeactivateStatusOnly, Reactivate, Match, hist
  <2> QED
    BY <2>1, Zenon DEF others, txn
<1>21. CASE UNCHANGED vars
  BY <1>21, Zenon DEF vars, tables, hist, txn
<1> HIDE DEF TypeInv
<1> QED
  BY <1>2, <1>3, <1>4, <1>5, <1>6, <1>7, <1>8, <1>9, <1>10, <1>11, <1>12, <1>13, <1>14, <1>15,
     <1>16, <1>17, <1>18, <1>19, <1>20, <1>21, Zenon DEF Next, Step

(* Every value of every variable is of its type (SessionEnd's tables, the    *)
(* transactions under way and the history).                                  *)
THEOREM TypeCorrect == Spec => []TypeOK
<1>1. TypeInv => TypeOK
  BY Zenon DEF TypeInv
<1> QED
  BY InitType, NextType, <1>1, PTL DEF Spec

-----------------------------------------------------------------------------
(* What one request needs of the tables only grows. *)
Own(q) == <<pc[q], job[q], target[q], todo[q], tells[q], evs[q], snap[q], mine[q],
            new[q], old[q], known[q], met[q]>>

Grows == exist \subseteq exist' /\ revoked \subseteq revoked' /\ touched \subseteq touched'

(* A request is not disturbed by a step that leaves its own variables alone. *)
LEMMA Undisturbed ==
  ASSUME NEW q \in Procs, Good(q), Grows, Own(q)' = Own(q)
  PROVE  Good(q)'
<1> USE DEF Own, Grows
<1>1. \A s \in Pending(q) : s \in Pending(q)'
  BY Zenon DEF Pending, Match
<1>2. Reached(q)'
  BY <1>1, Zenon DEF Good, Reached
<1>3. Queued(q)'
  BY Zenon DEF Good, Queued
<1>4. OldEnds(q)'
  BY <1>1, Zenon DEF Good, OldEnds
<1> QED
  BY <1>2, <1>3, <1>4, Zenon DEF Good

(* A request that has ended holds nothing. *)
LEMMA Ended ==
  ASSUME TypeInv, NEW p \in Procs, Clear(p)
  PROVE  Good(p)'
BY Zenon DEF Good, Reached, Queued, OldEnds, Clear, TypeInv, TypeOK, RequestsOK

(* A request just started has ended nothing, and has the presented session   *)
(* still to do.                                                              *)
LEMMA Started ==
  ASSUME TypeInv, NEW p \in Procs, NEW j, NEW T, NEW n, NEW o, Start(p, j, T, n, o), Good(p),
         o # 0 => o \in exist /\ j = "signin" /\ (o \in revoked \/ o \in T)
  PROVE  Good(p)'
<1> USE DEF Start, Good, TypeInv, TypeOK, RequestsOK, tables
<1>1. Reached(p)'
  BY Zenon DEF Reached, Pending, InCall
<1>2. Queued(p)'
  BY Zenon DEF Queued
<1>3. OldEnds(p)'
  BY Zenon DEF OldEnds
<1> QED
  BY <1>1, <1>2, <1>3, Zenon

(* The five statements of TerminateSessions, for the request that runs them. *)
LEMMA Statements ==
  ASSUME TypeInv, NEW p \in Procs, Good(p),
         Call(p) \/ Snapshot(p) \/ QueueEvents(p) \/ Destroy(p) \/ LockRows(p)
  PROVE  Good(p)'
<1> USE DEF Good, TypeInv, TypeOK, RequestsOK, tables, Stay, InCall
<1>1. CASE Call(p)
  <2>0. PICK t \in todo[p] :
          /\ target' = [target EXCEPT ![p] = t]
          /\ todo' = [todo EXCEPT ![p] = @ \ {t}]
          /\ known' = [known EXCEPT ![p] = @ \cup {x \in touched : x[1] \in Unrevoked(p, Match(t))}]
          /\ met' = [met EXCEPT ![p] = @ \cup Match(t)]
    BY <1>1, Zenon DEF Call
  <2>1. Pending(p) = {} /\ Pending(p)' = Match(t)
    BY <1>1, <2>0, Zenon DEF Call, Pending, Match
  <2>2. Reached(p)'
    BY <1>1, <2>0, <2>1 DEF Call, Reached
  <2>3. Queued(p)'
    BY <1>1, <2>0, Zenon DEF Call, Queued, Unrevoked
  <2>4. OldEnds(p)'
    BY <1>1, <2>0, <2>1 DEF Call, OldEnds, Match
  <2> QED
    BY <2>2, <2>3, <2>4, Zenon
<1>2. CASE Snapshot(p)
  <2>1. Pending(p) = Match(target[p]) /\ Pending(p)' = Pending(p)
    BY <1>2, Zenon DEF Snapshot, Pending, Match
  <2>2. Reached(p)' /\ OldEnds(p)'
    BY <1>2, <2>1, Zenon DEF Snapshot, Reached, OldEnds
  <2>3. Queued(p)'
    BY <1>2, <2>1 DEF Snapshot, Queued, Reached, Unrevoked
  <2> QED
    BY <2>2, <2>3, Zenon
<1>3. CASE QueueEvents(p)
  <2>1. Pending(p) = Match(target[p]) /\ Pending(p)' = Pending(p)
    BY <1>3, Zenon DEF QueueEvents, Pending, Match
  <2>2. Reached(p)' /\ OldEnds(p)'
    BY <1>3, <2>1, Zenon DEF QueueEvents, Reached, OldEnds
  <2>3. Queued(p)'
    BY <1>3, <2>1 DEF QueueEvents, Queued, Reached, Unrevoked
  <2> QED
    BY <2>2, <2>3, Zenon
<1>4. CASE Destroy(p)
  <2>1. Pending(p) = Match(target[p]) /\ Pending(p)' = Match(target[p]) \ (revoked \cup mine[p])
    BY <1>4, Zenon DEF Destroy, Pending, Unrevoked
  <2>2. Reached(p)' /\ OldEnds(p)'
    BY <1>4, <2>1, Zenon DEF Destroy, Reached, OldEnds
  <2>3. Queued(p)'
    BY <1>4, Zenon DEF Destroy, Queued
  <2> QED
    BY <2>2, <2>3, Zenon
<1>5. CASE LockRows(p)
  <2>1. Pending(p) = snap[p] /\ Pending(p)' = {} /\ mine'[p] = mine[p] \cup (snap[p] \ revoked)
    BY <1>5, Zenon DEF LockRows, Pending
  <2>2. Reached(p)' /\ OldEnds(p)'
    BY <1>5, <2>1 DEF LockRows, Reached, OldEnds
  <2>3. Queued(p)'
    BY <1>5, <2>1, Zenon DEF LockRows, Queued
  <2> QED
    BY <2>2, <2>3, Zenon
<1> QED
  BY <1>1, <1>2, <1>3, <1>4, <1>5, Zenon

(* The limit is looked at when the presented session has ended. *)
LEMMA Limited ==
  ASSUME TypeInv, NEW p \in Procs, Good(p), EnforceSessionLimit(p)
  PROVE  Good(p)'
<1> USE DEF Good, TypeInv, TypeOK, RequestsOK, tables, Stay, InCall, EnforceSessionLimit
<1>1. Pending(p) = {} /\ Pending(p)' = {}
  BY Zenon DEF Pending
<1>2. Reached(p)'
  BY <1>1, Zenon DEF Reached
<1>3. Queued(p)'
  BY Zenon DEF Queued
<1>4. OldEnds(p)'
  BY <1>1, Zenon DEF OldEnds
<1> QED
  BY <1>2, <1>3, <1>4, Zenon

(* A commit makes the notices visible with the revocations they belong to. *)
LEMMA PublishTells ==
  ASSUME TypeInv, NEW p \in Procs, Good(p), KnownClientsTold, Publish(p)
  PROVE  KnownClientsTold'
<1> USE DEF TypeInv, TypeOK, TablesOK, RequestsOK, HistoryOK
<1> SUFFICES ASSUME NEW x \in owed'
             PROVE  /\ x[2] \in Backchannel => told'[x] > 0
                    /\ x[2] \in Streams => x \in evented'
  BY Zenon DEF KnownClientsTold
<1>0. /\ owed' = owed \cup {y \in known[p] : y[1] \in mine[p]}
      /\ told' = [y \in Pairs |-> told[y] + IF y \in tells[p] THEN 1 ELSE 0]
      /\ evented' = evented \cup evs[p]
  BY Zenon DEF Publish
<1>1. CASE x \in owed
  <2>1. x \in Pairs /\ told[x] \in Nat
    BY <1>1, Zenon
  <2>2. told'[x] >= told[x]
    BY <1>0, <2>1
  <2>3. x[2] \in Backchannel => told'[x] > 0
    BY <1>1, <2>1, <2>2, <1>0 DEF KnownClientsTold
  <2> QED
    BY <1>0, <1>1, <2>3, Zenon DEF KnownClientsTold
<1>2. CASE x \in known[p] /\ x[1] \in mine[p]
  <2>1. x \in Pairs /\ told[x] \in Nat
    BY <1>2, Zenon
  <2>2. x[2] \in Backchannel => x \in tells[p]
    BY <1>2, Zenon DEF Good, Queued
  <2>3. x[2] \in Streams => x \in evs[p]
    BY <1>2, Zenon DEF Good, Queued
  <2> QED
    BY <1>0, <2>1, <2>2, <2>3
<1> QED
  BY <1>0, <1>1, <1>2, Zenon

-----------------------------------------------------------------------------
LEMMA InitEnd == Init => EndInv /\ CutInv
BY Zenon DEF Init, EndInv, CutInv, Good, Reached, Queued, OldEnds, KnownClientsTold, NeverBothLive

(* A step of a request that is neither a commit nor a rollback. *)
LEMMA WorkEnd ==
  ASSUME TypeInv, EndInv, NEW p \in Procs, Good(p)', UNCHANGED <<tables, hist>>,
         \A q \in Procs \ {p} : Own(q)' = Own(q)
  PROVE  EndInv'
<1>1. \A q \in Procs : Good(q)'
  BY Undisturbed, Zenon DEF EndInv, Grows, tables
<1>2. KnownClientsTold' /\ NeverBothLive'
  BY Zenon DEF EndInv, KnownClientsTold, NeverBothLive, tables, hist
<1> QED
  BY <1>1, <1>2, Zenon DEF EndInv

(* The end of a transaction. *)
LEMMA ClearEnd ==
  ASSUME TypeInv, EndInv, NEW p \in Procs, Clear(p), Grows, KnownClientsTold', NeverBothLive'
  PROVE  EndInv'
<1>1. Good(p)'
  BY Ended, Zenon
<1>2. \A q \in Procs \ {p} : Own(q)' = Own(q)
  BY Zenon DEF Clear, Own, TypeInv, TypeOK, RequestsOK
<1>3. \A q \in Procs : Good(q)'
  BY <1>1, <1>2, Undisturbed, Zenon DEF EndInv
<1> QED
  BY <1>3, Zenon DEF EndInv

(* A step of anybody else. *)
LEMMA OtherEnd ==
  ASSUME EndInv, UNCHANGED others, Grows, UNCHANGED <<told, evented, owed, presented>>
  PROVE  EndInv'
<1>1. \A q \in Procs : Own(q)' = Own(q)
  BY Zenon DEF Own, others, txn
<1>2. \A q \in Procs : Good(q)'
  BY <1>1, Undisturbed, Zenon DEF EndInv
<1>3. KnownClientsTold' /\ NeverBothLive'
  BY Zenon DEF EndInv, KnownClientsTold, NeverBothLive, Grows
<1> QED
  BY <1>2, <1>3, Zenon DEF EndInv

(* Every step keeps what requests have queued in line with what they end. *)
LEMMA NextEnd == TypeInv /\ EndInv /\ [Next]_vars => EndInv'
<1> SUFFICES ASSUME TypeInv, EndInv, [Next]_vars PROVE EndInv'
  BY Zenon
<1> USE DEF TypeInv, TypeOK, RequestsOK
<1>0. \A p \in Procs : Good(p)
  BY Zenon DEF EndInv
<1>1. ASSUME NEW p \in Procs, NEW j, NEW T, NEW n, NEW o, Start(p, j, T, n, o),
             o # 0 => o \in exist /\ j = "signin" /\ (o \in revoked \/ o \in T)
      PROVE  EndInv'
  <2>1. Good(p)'
    BY <1>0, <1>1, Started, Zenon
  <2>2. UNCHANGED <<tables, hist>> /\ \A q \in Procs \ {p} : Own(q)' = Own(q)
    BY <1>1, Zenon DEF Start, Own
  <2> QED
    BY <2>1, <2>2, WorkEnd, Zenon
<1>2. ASSUME NEW p \in Procs, SignIn(p) PROVE EndInv'
  <2>1. PICK o \in {0} \cup exist : Start(p, "signin", {o} \cap (exist \ revoked), nextSid, o)
    BY <1>2, Zenon DEF SignIn
  <2>2. o # 0 => o \in exist /\ (o \in revoked \/ o \in {o} \cap (exist \ revoked))
    BY Zenon
  <2> QED
    BY <1>1, <2>1, <2>2, Zenon
<1>3. ASSUME NEW p \in Procs, Logout(p) \/ LogoutAll(p) \/ Deactivate(p) \/ Sweep(p) PROVE EndInv'
  <2>1. \E j, T : Start(p, j, T, 0, 0)
    BY <1>3, Zenon DEF Logout, LogoutAll, Deactivate, Sweep
  <2> QED
    BY <1>1, <2>1, Zenon
<1>4. ASSUME NEW p \in Procs,
             Call(p) \/ Snapshot(p) \/ QueueEvents(p) \/ Destroy(p) \/ LockRows(p)
      PROVE  EndInv'
  <2>1. Good(p)'
    BY <1>0, <1>4, Statements, Zenon
  <2>2. UNCHANGED <<tables, hist>>
    BY <1>4, Zenon DEF Call, Snapshot, QueueEvents, Destroy, LockRows
  <2>3. \A q \in Procs \ {p} : Own(q)' = Own(q)
    BY <1>4 DEF Call, Snapshot, QueueEvents, Destroy, LockRows, Stay, Own
  <2> QED
    BY <2>1, <2>2, <2>3, WorkEnd, Zenon
<1>5. ASSUME NEW p \in Procs, EnforceSessionLimit(p) PROVE EndInv'
  <2>1. Good(p)'
    BY <1>0, <1>5, Limited, Zenon
  <2>2. UNCHANGED <<tables, hist>> /\ \A q \in Procs \ {p} : Own(q)' = Own(q)
    BY <1>5, Zenon DEF EnforceSessionLimit, Stay, Own
  <2> QED
    BY <2>1, <2>2, WorkEnd, Zenon
<1>6. ASSUME NEW p \in Procs, Commit(p) PROVE EndInv'
  <2>1. Publish(p) /\ Clear(p)
    BY <1>6, Zenon DEF Commit
  <2>2. KnownClientsTold'
    BY <1>0, <2>1, PublishTells, Zenon DEF EndInv
  <2>3. NeverBothLive'
    <3>1. job[p] = "limited" /\ old[p] # 0 => old[p] \in revoked \/ old[p] \in mine[p]
      BY <1>0, <1>6, Zenon DEF Good, OldEnds
    <3>2. revoked' = revoked \cup mine[p]
      BY <2>1, Zenon DEF Publish
    <3>3. \A x \in presented' : x \in presented \/ (job[p] = "limited" /\ old[p] # 0 /\ x[1] = old[p])
      BY <1>6 DEF Commit
    <3> QED
      BY <3>1, <3>2, <3>3, Zenon DEF EndInv, NeverBothLive
  <2>4. Grows
    BY <1>6, <2>1, Zenon DEF Commit, Publish, Grows
  <2> QED
    BY <2>1, <2>2, <2>3, <2>4, ClearEnd, Zenon
<1>7. ASSUME NEW p \in Procs, CommitDeactivation(p) \/ RefuseSignIn(p) PROVE EndInv'
  <2>1. Publish(p) /\ Clear(p) /\ UNCHANGED <<exist, touched, presented>>
    BY <1>7, Zenon DEF CommitDeactivation, RefuseSignIn
  <2>2. KnownClientsTold'
    BY <1>0, <2>1, PublishTells, Zenon DEF EndInv
  <2>3. NeverBothLive' /\ Grows
    BY <2>1, Zenon DEF EndInv, NeverBothLive, Publish, Grows
  <2> QED
    BY <2>1, <2>2, <2>3, ClearEnd, Zenon
<1>8. ASSUME NEW p \in Procs, RollBack(p) PROVE EndInv'
  <2>1. Clear(p) /\ Grows /\ KnownClientsTold' /\ NeverBothLive'
    BY <1>8, Zenon DEF RollBack, Grows, EndInv, KnownClientsTold, NeverBothLive, tables, hist
  <2> QED
    BY <2>1, ClearEnd, Zenon
<1>9. ASSUME NEW x \in Pairs, Authorize(x) \/ TouchSessionClient(x) PROVE EndInv'
  BY <1>9, OtherEnd, Zenon DEF Authorize, TouchSessionClient, tables, hist, Grows
<1>10. ASSUME NEW s \in SIDs, Expire(s) PROVE EndInv'
  BY <1>10, OtherEnd, Zenon DEF Expire, hist, Grows
<1>11. ASSUME NEW u \in Users,
              DeactivateQuietly(u) \/ DeactivateStatusOnly(u) \/ Reactivate(u)
       PROVE  EndInv'
  BY <1>11, OtherEnd, Zenon DEF DeactivateQuietly, DeactivateStatusOnly, Reactivate, hist, Grows
<1>12. CASE UNCHANGED vars
  BY <1>12, OtherEnd, Zenon DEF vars, tables, hist, others, Grows
<1> QED
  BY <1>2, <1>3, <1>4, <1>5, <1>6, <1>7, <1>8, <1>9, <1>10, <1>11, <1>12, Zenon DEF Next, Step

(* A deactivation that ends sessions leaves none of those it found unrevoked. *)
LEMMA NextCut == TypeInv /\ EndInv /\ CutInv /\ [Next]_vars => CutInv'
<1> SUFFICES ASSUME TypeInv, EndInv, cut \subseteq revoked, [Next]_vars
             PROVE  cut' \subseteq revoked'
  BY Zenon DEF CutInv
<1>1. ASSUME NEW p \in Procs, CommitDeactivation(p) PROVE cut' \subseteq revoked'
  <2>1. Reached(p) /\ Pending(p) = {}
    BY <1>1, Zenon DEF EndInv, Good, CommitDeactivation, Pending, InCall
  <2> QED
    BY <1>1, <2>1, Zenon DEF CommitDeactivation, Publish, Reached
<1>2. ASSUME NEW p \in Procs, Commit(p) \/ RefuseSignIn(p) PROVE cut' \subseteq revoked'
  BY <1>2, Zenon DEF Commit, RefuseSignIn, Publish
<1>3. ASSUME NEW u \in Users, DeactivateQuietly(u) PROVE cut' \subseteq revoked'
  BY <1>3, Zenon DEF DeactivateQuietly
<1>4. CASE UNCHANGED <<revoked, cut>>
  BY <1>4, Zenon
<1>5. \/ \E p \in Procs : CommitDeactivation(p) \/ Commit(p) \/ RefuseSignIn(p)
      \/ \E u \in Users : DeactivateQuietly(u)
      \/ UNCHANGED <<revoked, cut>>
  <2>1. ASSUME NEW p \in Procs, SignIn(p) \/ Logout(p) \/ LogoutAll(p) \/ Deactivate(p) \/ Sweep(p)
        PROVE  UNCHANGED <<revoked, cut>>
    BY <2>1, Zenon DEF SignIn, Logout, LogoutAll, Deactivate, Sweep, Start, tables, hist
  <2>2. ASSUME NEW p \in Procs,
               \/ Call(p) \/ Snapshot(p) \/ QueueEvents(p) \/ Destroy(p) \/ LockRows(p)
               \/ EnforceSessionLimit(p) \/ RollBack(p)
        PROVE  UNCHANGED <<revoked, cut>>
    BY <2>2, Zenon DEF Call, Snapshot, QueueEvents, Destroy, LockRows, EnforceSessionLimit, RollBack, tables, hist
  <2>3. ASSUME NEW x \in Pairs, Authorize(x) \/ TouchSessionClient(x)
        PROVE  UNCHANGED <<revoked, cut>>
    BY <2>3, Zenon DEF Authorize, TouchSessionClient, tables, hist
  <2>4. ASSUME NEW s \in SIDs, Expire(s) PROVE UNCHANGED <<revoked, cut>>
    BY <2>4, Zenon DEF Expire, hist
  <2>5. ASSUME NEW u \in Users, DeactivateStatusOnly(u) \/ Reactivate(u)
        PROVE  UNCHANGED <<revoked, cut>>
    BY <2>5, Zenon DEF DeactivateStatusOnly, Reactivate, hist
  <2>6. CASE UNCHANGED vars
    BY <2>6, Zenon DEF vars, tables, hist
  <2> QED
    BY <2>1, <2>2, <2>3, <2>4, <2>5, <2>6, Zenon DEF Next, Step
<1> QED
  BY <1>1, <1>2, <1>3, <1>4, <1>5, Zenon

-----------------------------------------------------------------------------
(* However terminations race and roll back, a relying party that had seen a  *)
(* live session when the call that ended it began has its notice and its     *)
(* event queued (store/sessions.go TerminateSessions).                       *)
THEOREM NoticesPrecedeRevocation == Spec => []KnownClientsTold
<1>1. EndInv => KnownClientsTold
  BY Zenon DEF EndInv
<1> QED
  BY InitType, NextType, InitEnd, NextEnd, <1>1, PTL DEF Spec

(* A committed sign-in has ended the session its browser presented           *)
(* (httpapi/flow.go completeSignIn).                                         *)
THEOREM ReauthenticationReplaces == Spec => []NeverBothLive
<1>1. EndInv => NeverBothLive
  BY Zenon DEF EndInv
<1> QED
  BY InitType, NextType, InitEnd, NextEnd, <1>1, PTL DEF Spec

(* A session open when its user was deactivated by a writer that ends        *)
(* sessions never works again, whatever the other writers of the status do   *)
(* before, meanwhile and afterwards (adminapi/users.go, directory/apply.go,  *)
(* store/scimsource.go PatchSCIMUser).                                       *)
THEOREM DeactivationEndsSessions == Spec => []DeactivationIsFinal
<1>1. CutInv => DeactivationIsFinal
  BY Zenon DEF CutInv, DeactivationIsFinal, Usable, Live
<1> QED
  BY InitType, NextType, InitEnd, NextEnd, NextCut, <1>1, PTL DEF Spec

-----------------------------------------------------------------------------
(* The session limit.  From EnforceSessionLimit on, the sessions a sign-in   *)
(* leaves beside the new one are fewer than the limit, those it chose to     *)
(* evict being still to do, pending, held or revoked; but every sign-in that *)
(* was past the limit before it may yet add one.                             *)

(* The sessions there are are finitely many. *)
LEMMA FiniteSessions ==
  ASSUME NEW S, S \subseteq SIDs
  PROVE  IsFiniteSet(S) /\ Cardinality(S) \in Nat /\ S \subseteq Nat
<1>1. IsFiniteSet(SIDs) /\ SIDs \subseteq Nat
  BY FS_Interval, SessionAssumption DEF SIDs
<1> QED
  BY <1>1, FS_Subset, FS_CardinalityType, Zenon

(* Of the sessions of a set, all but the n first are as many as are left:    *)
(* they are told apart by how many precede them, which are n or more and not *)
(* all.                                                                      *)
LEMMA FirstOfLeaves ==
  ASSUME NEW S, S \subseteq SIDs, NEW n \in Nat, n <= Cardinality(S)
  PROVE  Cardinality(S \ FirstOf(S, n)) <= Cardinality(S) - n
<1> DEFINE c == Cardinality(S)
           before(s) == {r \in S : r < s}
           rest == S \ FirstOf(S, n)
           rank == [s \in rest |-> Cardinality(before(s))]
<1>1. IsFiniteSet(S) /\ c \in Nat /\ S \subseteq Nat
  BY FiniteSessions, Zenon
<1>2. \A a, b, d \in Nat : ~ a < a /\ (a < b /\ b < d => a < d)
  OBVIOUS
<1>3. \A s \in S : IsFiniteSet(before(s)) /\ Cardinality(before(s)) \in Nat /\ Cardinality(before(s)) < c
  <2> TAKE s \in S
  <2>1. before(s) \in SUBSET S /\ before(s) # S
    BY <1>1, <1>2, Zenon
  <2> HIDE DEF before
  <2>2. /\ IsFiniteSet(before(s)) /\ Cardinality(before(s)) \in Nat
        /\ Cardinality(before(s)) <= c /\ Cardinality(before(s)) # c
    BY <2>1, <1>1, FS_Subset, FS_CardinalityType, Zenon
  <2> HIDE DEF c
  <2> QED
    BY <2>2, <1>1
<1>4. \A r, s \in S : r < s => Cardinality(before(r)) < Cardinality(before(s))
  <2> SUFFICES ASSUME NEW r \in S, NEW s \in S, r < s
               PROVE  Cardinality(before(r)) < Cardinality(before(s))
    BY Zenon
  <2>1. before(r) \subseteq before(s) /\ r \in before(s) /\ r \notin before(r)
    BY <1>1, <1>2, Zenon
  <2> HIDE DEF before
  <2>2. Cardinality(before(r)) <= Cardinality(before(s)) /\ Cardinality(before(s)) # Cardinality(before(r))
    BY <2>1, <1>3, FS_Subset, Zenon
  <2> QED
    BY <2>2, <1>3
<1>5. rest \subseteq S /\ \A s \in rest : ~ Cardinality(before(s)) < n
  BY Zenon DEF FirstOf
<1>6. /\ \A s \in rest : Cardinality(before(s)) \in n .. c - 1
      /\ \A r, s \in rest : r # s => Cardinality(before(r)) # Cardinality(before(s))
  <2> HIDE DEF before, rest, c
  <2>1. \A s \in rest : Cardinality(before(s)) \in n .. c - 1
    BY <1>1, <1>3, <1>5
  <2>2. ASSUME NEW r \in rest, NEW s \in rest, r # s
        PROVE  Cardinality(before(r)) # Cardinality(before(s))
    <3>1. r \in S /\ s \in S /\ (r < s \/ s < r)
      BY <2>2, <1>1, <1>5
    <3>2. \A a, b \in Nat : a < b => a # b
      OBVIOUS
    <3> QED
      BY <3>1, <3>2, <1>3, <1>4, Zenon
  <2> QED
    BY <2>1, <2>2, Zenon
<1>7. /\ IsFiniteSet(n .. c - 1) /\ Cardinality(n .. c - 1) = c - n
      /\ IsFiniteSet(rest) /\ Cardinality(rest) \in Nat
  <2> HIDE DEF rest
  <2>1. IsFiniteSet(rest) /\ Cardinality(rest) \in Nat
    BY <1>1, <1>5, FS_Subset, FS_CardinalityType, Zenon
  <2> HIDE DEF c
  <2>2. n <= c
    BY DEF c
  <2>3. n \in Int /\ c - 1 \in Int
    BY <1>1
  <2>4. /\ IsFiniteSet(n .. c - 1)
        /\ Cardinality(n .. c - 1) = IF n > c - 1 THEN 0 ELSE c - 1 - n + 1
    BY <2>3, FS_Interval, Zenon
  <2>5. (IF n > c - 1 THEN 0 ELSE c - 1 - n + 1) = c - n
    BY <2>2, <1>1
  <2>6. Cardinality(n .. c - 1) = c - n
    BY <2>4, <2>5
  <2> QED
    BY <2>1, <2>4, <2>6, Zenon
<1>8. rank \in [rest -> n .. c - 1] /\ \A r, s \in rest : r # s => rank[r] # rank[s]
  <2> HIDE DEF before, rest, c
  <2> QED
    BY <1>6, Zenon
<1> HIDE DEF rank, rest
<1>9. ~ Cardinality(n .. c - 1) < Cardinality(rest)
  BY <1>7, <1>8, FS_PigeonHole, Zenon
<1> HIDE DEF c
<1>10. Cardinality(rest) <= c - n
  BY <1>1, <1>7, <1>9
<1> QED
  BY <1>10 DEF rest, c

(* The live sessions that will be left, beside the new one, when a sign-in   *)
(* that is past the limit commits.                                           *)
Left(p) == Live(OwnerOf[new[p]]) \ (mine[p] \cup todo[p] \cup Pending(p))

SigningIn == {q \in Procs : new[q] # 0}
PastLimit == {q \in Procs : job[q] = "limited"}

(* The bound on the sign-ins under way. *)
Few == IsFiniteSet(SigningIn) /\ Cardinality(SigningIn) <= SignIns

(* a[p] holds the sign-ins still past the limit that were so before p: the   *)
(* order in which they counted.                                              *)
Ordered(a) ==
  /\ \A p \in Procs : a[p] \subseteq PastLimit \ {p}
  /\ \A p, q \in PastLimit : /\ p # q => p \in a[q] \/ q \in a[p]
                             /\ p \in a[q] => a[p] \subseteq a[q]

(* With one session for each of them, those left are few enough. *)
Room(a, p) ==
  job[p] = "limited" /\ pc[p] # "refuse" /\ Limit # 0
    => Cardinality(Left(p)) + Cardinality(a[p]) < Limit + SignIns - 1

Roomy(a) == Ordered(a) /\ \A p \in Procs : Room(a, p)

LimitInv == Few /\ \E a \in [Procs -> SUBSET Procs] : Roomy(a)

(* Live sessions are sessions. *)
LEMMA LiveFinite ==
  ASSUME TypeInv, NEW u
  PROVE  Live(u) \subseteq SIDs /\ IsFiniteSet(Live(u)) /\ Cardinality(Live(u)) \in Nat
<1>1. Live(u) \subseteq SIDs
  BY Zenon DEF TypeInv, TypeOK, TablesOK, Live, Match
<1> QED
  BY <1>1, FiniteSessions, Zenon

(* Those past the limit are signing in, and few. *)
LEMMA PastFinite ==
  ASSUME TypeInv, Few
  PROVE  /\ PastLimit \subseteq SigningIn
         /\ \A S \in SUBSET PastLimit : IsFiniteSet(S) /\ Cardinality(S) \in Nat
<1>1. 0 \notin SIDs
  BY DEF SIDs
<1>2. PastLimit \subseteq SigningIn
  BY <1>1, Zenon DEF PastLimit, SigningIn, TypeInv, Shape
<1> QED
  BY <1>2, FS_Subset, FS_CardinalityType, Zenon DEF Few

LEMMA AheadFinite ==
  ASSUME TypeInv, Few, NEW a, Ordered(a), NEW p \in Procs
  PROVE  a[p] \subseteq PastLimit /\ IsFiniteSet(a[p]) /\ Cardinality(a[p]) \in Nat
<1>1. a[p] \in SUBSET PastLimit
  BY Zenon DEF Ordered
<1> QED
  BY <1>1, PastFinite, Zenon

LEMMA LeftFinite ==
  ASSUME TypeInv, NEW p \in Procs
  PROVE  Left(p) \subseteq SIDs /\ IsFiniteSet(Left(p)) /\ Cardinality(Left(p)) \in Nat
<1>1. Left(p) \subseteq SIDs
  BY LiveFinite, Zenon DEF Left
<1> QED
  BY <1>1, FiniteSessions, Zenon

(* Fewer left, and fewer before, is as good. *)
LEMMA FewerLeft ==
  ASSUME TypeInv, TypeInv', Few, NEW a, NEW b, Ordered(a), NEW p \in Procs, Room(a, p),
         Left(p)' \subseteq Left(p), b[p] \subseteq a[p],
         job'[p] = "limited" => job[p] = "limited" /\ pc[p] # "refuse"
  PROVE  Room(b, p)'
<1> SUFFICES ASSUME job'[p] = "limited", Limit # 0
             PROVE  Cardinality(Left(p)') + Cardinality(b[p]) < Limit + SignIns - 1
  BY Zenon DEF Room
<1>1. Cardinality(Left(p)) + Cardinality(a[p]) < Limit + SignIns - 1
  BY Zenon DEF Room
<1>2. /\ Cardinality(Left(p)') <= Cardinality(Left(p))
      /\ Cardinality(Left(p)') \in Nat /\ Cardinality(Left(p)) \in Nat
  BY LeftFinite, FiniteSessions, FS_Subset, FS_CardinalityType, Zenon
<1>3. /\ Cardinality(b[p]) <= Cardinality(a[p])
      /\ Cardinality(b[p]) \in Nat /\ Cardinality(a[p]) \in Nat
  BY AheadFinite, FS_Subset, FS_CardinalityType, Zenon
<1> QED
  BY <1>1, <1>2, <1>3, SessionAssumption

(* What becomes of the tables unless a sign-in commits. *)
Ebbs == exist' = exist /\ revoked \subseteq revoked' /\ expired \subseteq expired'

LEMMA LiveEbbs == ASSUME Ebbs, NEW u PROVE Live(u)' \subseteq Live(u)
  BY Zenon DEF Ebbs, Live, Match

(* A request that does not act. *)
LEMMA RoomAside ==
  ASSUME TypeInv, TypeInv', Few, NEW a, NEW b, Ordered(a), NEW q \in Procs, Room(a, q),
         b[q] \subseteq a[q], Ebbs, Own(q)' = Own(q)
  PROVE  Room(b, q)'
<1>1. /\ pc'[q] = pc[q] /\ job'[q] = job[q] /\ mine'[q] = mine[q] /\ todo'[q] = todo[q]
      /\ new'[q] = new[q] /\ snap'[q] = snap[q] /\ target'[q] = target[q]
  BY Zenon DEF Own
<1>2. Pending(q)' = Pending(q)
  BY <1>1, Zenon DEF Pending, Match, Ebbs
<1>3. Left(q)' \subseteq Left(q)
  BY <1>1, <1>2, LiveEbbs, Zenon DEF Left
<1>4. CASE job[q] = "limited" /\ pc[q] # "refuse"
  BY <1>1, <1>3, <1>4, FewerLeft, Zenon
<1>5. CASE ~(job[q] = "limited" /\ pc[q] # "refuse")
  BY <1>1, <1>5, Zenon DEF Room
<1> QED
  BY <1>4, <1>5, Zenon

(* The statements of a call only bring nearer what was chosen to end. *)
LEMMA RoomCall ==
  ASSUME TypeInv, TypeInv', Few, NEW a, Ordered(a), NEW p \in Procs, Room(a, p),
         Call(p) \/ Snapshot(p) \/ QueueEvents(p) \/ Destroy(p) \/ LockRows(p)
  PROVE  Room(a, p)'
<1> USE DEF TypeInv, TypeOK, TablesOK, RequestsOK
<1>0. /\ UNCHANGED <<exist, revoked, expired, new, job>> /\ pc[p] # "refuse"
      /\ \A u : Live(u)' = Live(u)
  <2>1. UNCHANGED <<exist, revoked, expired, new, job>> /\ pc[p] # "refuse"
    BY Zenon DEF Call, Snapshot, QueueEvents, Destroy, LockRows, tables
  <2> QED
    BY <2>1, Zenon DEF Live, Match
<1> DEFINE u == OwnerOf[new[p]]
<1>1. CASE Call(p)
  <2>1. PICK t \in todo[p] : target' = [target EXCEPT ![p] = t] /\ todo' = [todo EXCEPT ![p] = @ \ {t}]
    BY <1>1, Zenon DEF Call
  <2>2. /\ pc[p] = "next" /\ pc'[p] = "snapshot" /\ mine' = mine /\ target'[p] = t
        /\ todo'[p] = todo[p] \ {t}
    BY <1>1, <2>1, ZenonT(30) DEF Call, Stay
  <2>3. Pending(p) = {} /\ Pending(p)' = Match(t)
    BY <1>0, <2>2, Zenon DEF Pending, InCall, Match
  <2>4. \A s \in Live(u) : s = t => s \in Match(t)
    BY Zenon DEF Live, Match
  <2>5. Left(p)' \subseteq Left(p)
    <3>1. Left(p) = Live(u) \ (mine[p] \cup todo[p])
      BY <2>3, Zenon DEF Left
    <3>2. Left(p)' = Live(u) \ (mine[p] \cup (todo[p] \ {t}) \cup Match(t))
      BY <1>0, <2>2, <2>3, Zenon DEF Left
    <3> HIDE DEF u
    <3> QED
      BY <3>1, <3>2, <2>4, Zenon
  <2> QED
    BY <1>0, <2>5, FewerLeft, Zenon
<1>2. CASE Snapshot(p) \/ QueueEvents(p)
  <2>1. /\ UNCHANGED <<target, todo, mine>> /\ pc[p] \in {"snapshot", "events"}
        /\ pc'[p] \in {"events", "destroy"}
    BY <1>2, Zenon DEF Snapshot, QueueEvents, Stay
  <2>2. Pending(p)' = Pending(p)
    BY <1>0, <2>1 DEF Pending, InCall, Match
  <2> QED
    BY <1>0, <2>1, <2>2, FewerLeft, Zenon DEF Left
<1>3. CASE Destroy(p)
  <2>1. /\ UNCHANGED <<target, todo, mine>> /\ pc[p] = "destroy" /\ pc'[p] = "lock"
        /\ snap'[p] = Unrevoked(p, Match(target[p]))
    BY <1>3, Zenon DEF Destroy, Stay
  <2>2. Pending(p) = Match(target[p]) /\ Pending(p)' = Match(target[p]) \ (revoked \cup mine[p])
    BY <2>1, Zenon DEF Pending, InCall, Unrevoked
  <2>3. \A s \in Live(u) : s \notin revoked
    BY Zenon DEF Live
  <2> QED
    BY <1>0, <2>1, <2>2, <2>3, FewerLeft, Zenon DEF Left
<1>4. CASE LockRows(p)
  <2>1. /\ UNCHANGED <<target, todo>> /\ pc[p] = "lock" /\ pc'[p] = "next"
        /\ mine'[p] = mine[p] \cup (snap[p] \ revoked)
    BY <1>4, ZenonT(30) DEF LockRows, Stay
  <2>2. Pending(p) = snap[p] /\ Pending(p)' = {}
    BY <2>1, Zenon DEF Pending, InCall
  <2>3. \A s \in Live(u) : s \notin revoked
    BY Zenon DEF Live
  <2> QED
    BY <1>0, <2>1, <2>2, <2>3, FewerLeft, Zenon DEF Left
<1> QED
  BY <1>1, <1>2, <1>3, <1>4, Zenon

(* EnforceSessionLimit refuses the sign-in or makes room for it. *)
LEMMA RoomMade ==
  ASSUME TypeInv, NEW p \in Procs, EnforceSessionLimit(p), pc'[p] # "refuse", Limit # 0
  PROVE  Cardinality(Left(p)') \in Nat /\ Cardinality(Left(p)') < Limit
<1> DEFINE u == OwnerOf[new[p]]
           live == LiveOf(u, p)
           c == Cardinality(live)
<1>0. /\ UNCHANGED <<exist, revoked, expired, new, mine>> /\ pc[p] = "next" /\ todo[p] = {}
      /\ \A v : Live(v)' = Live(v)
  <2>1. UNCHANGED <<exist, revoked, expired, new, mine>> /\ pc[p] = "next" /\ todo[p] = {}
    BY Zenon DEF EnforceSessionLimit, tables
  <2> QED
    BY <2>1, Zenon DEF Live, Match
<1>1. live \subseteq SIDs /\ Live(u) \ mine[p] = live
  BY Zenon DEF TypeInv, TypeOK, TablesOK, LiveOf, Live, Unrevoked, Match
<1>2. IsFiniteSet(live) /\ c \in Nat
  BY <1>1, FiniteSessions, Zenon
<1>3. /\ pc'[p] = "next"
      /\ \/ ~ c >= Limit /\ todo' = todo
         \/ c >= Limit /\ todo'[p] = FirstOf(live, c - Limit + 1)
  BY Zenon DEF EnforceSessionLimit, Stay, TypeInv, TypeOK, RequestsOK
<1>4. Left(p)' = live \ todo'[p]
  <2>1. Pending(p)' = {}
    BY <1>3, Zenon DEF Pending, InCall
  <2> QED
    BY <2>1, <1>0, <1>1, Zenon DEF Left
<1> HIDE DEF live, c
<1>5. Limit \in Nat /\ Limit > 0
  BY SessionAssumption
<1>6. CASE ~ c >= Limit /\ todo' = todo
  <2>1. Left(p)' = live
    BY <1>0, <1>4, <1>6, Zenon
  <2> QED
    BY <2>1, <1>2, <1>5, <1>6 DEF c
<1>7. CASE c >= Limit /\ todo'[p] = FirstOf(live, c - Limit + 1)
  <2>1. c - Limit + 1 \in Nat /\ c - Limit + 1 <= c
    BY <1>2, <1>5, <1>7
  <2>2. Cardinality(live \ FirstOf(live, c - Limit + 1)) <= c - (c - Limit + 1)
    BY <2>1, <1>1, FirstOfLeaves, Zenon DEF c
  <2>3. Cardinality(Left(p)') \in Nat
    BY <1>1, <1>4, FiniteSessions, Zenon
  <2>4. Cardinality(Left(p)') <= c - (c - Limit + 1)
    BY <2>2, <1>4, <1>7, Zenon
  <2> QED
    BY <2>3, <2>4, <1>2, <1>5
<1> QED
  BY <1>3, <1>6, <1>7, Zenon

(* Steps that concern one request. *)
LEMMA ApartCall ==
  ASSUME TypeInv, NEW p \in Procs,
         Call(p) \/ Snapshot(p) \/ QueueEvents(p) \/ Destroy(p) \/ LockRows(p),
         NEW q \in Procs \ {p}
  PROVE  Own(q)' = Own(q)
<1> USE DEF Stay, Own, TypeInv, TypeOK, RequestsOK
<1>1. CASE Call(p)
  BY <1>1 DEF Call
<1>2. CASE Snapshot(p)
  BY <1>2 DEF Snapshot
<1>3. CASE QueueEvents(p)
  BY <1>3 DEF QueueEvents
<1>4. CASE Destroy(p)
  BY <1>4 DEF Destroy
<1>5. CASE LockRows(p)
  BY <1>5 DEF LockRows
<1> QED
  BY <1>1, <1>2, <1>3, <1>4, <1>5, Zenon

LEMMA ApartLimit ==
  ASSUME TypeInv, NEW p \in Procs, EnforceSessionLimit(p), NEW q \in Procs \ {p}
  PROVE  Own(q)' = Own(q)
BY Zenon DEF EnforceSessionLimit, Stay, Own, TypeInv, TypeOK, RequestsOK

LEMMA ApartClear ==
  ASSUME TypeInv, NEW p \in Procs, Clear(p)
  PROVE  /\ \A q \in Procs \ {p} : Own(q)' = Own(q)
         /\ job'[p] = "none" /\ new'[p] = 0
<1>1. \A q \in Procs \ {p} : Own(q)' = Own(q)
  BY Zenon DEF Clear, Own, TypeInv, TypeOK, RequestsOK
<1>2. job'[p] = "none" /\ new'[p] = 0
  BY Zenon DEF Clear, TypeInv, TypeOK, RequestsOK
<1> QED
  BY <1>1, <1>2, Zenon

(* A sign-in counts: it comes after all that have. *)
LEMMA OrderedCount ==
  ASSUME TypeInv, NEW a \in [Procs -> SUBSET Procs], Ordered(a), NEW p \in Procs,
         EnforceSessionLimit(p),
         NEW c, c[p] = PastLimit, \A q \in Procs \ {p} : c[q] = a[q]
  PROVE  Ordered(c)'
<1>2. PastLimit' = PastLimit \cup {p} /\ p \notin PastLimit
  <2>1. job' = [job EXCEPT ![p] = "limited"] /\ job[p] = "signin"
    BY Zenon DEF EnforceSessionLimit
  <2>2. job'[p] = "limited" /\ \A q \in Procs \ {p} : job'[q] = job[q]
    BY <2>1, Zenon DEF TypeInv, TypeOK, RequestsOK
  <2> QED
    BY <2>1, <2>2 DEF PastLimit
<1>3. PastLimit \subseteq Procs
  BY Zenon DEF PastLimit
<1>1. /\ \A q \in Procs : a[q] \subseteq PastLimit \ {q}
      /\ \A r, q \in PastLimit : /\ r # q => r \in a[q] \/ q \in a[r]
                                 /\ r \in a[q] => a[r] \subseteq a[q]
  BY Zenon DEF Ordered
<1>4. \A q \in Procs : c[q] \subseteq PastLimit' \ {q}
  BY <1>1, <1>2, Zenon
<1>5. ASSUME NEW r \in PastLimit', NEW q \in PastLimit'
      PROVE  (r # q => r \in c[q] \/ q \in c[r]) /\ (r \in c[q] => c[r] \subseteq c[q])
  <2>1. CASE r # p /\ q # p
    BY <1>1, <1>2, <1>3, <2>1, <1>5, Zenon
  <2>2. CASE q = p
    BY <1>1, <1>2, <1>3, <2>2, <1>5, Zenon
  <2>3. CASE r = p /\ q # p
    BY <1>1, <1>2, <1>3, <2>3, <1>5, Zenon
  <2> QED
    BY <2>1, <2>2, <2>3, Zenon
<1> QED
  BY <1>4, <1>5, Zenon DEF Ordered

(* A request ends: the rest keep their order. *)
Without(a, p) == [q \in Procs |-> IF q = p THEN {} ELSE a[q] \ {p}]

LEMMA OrderedEnd ==
  ASSUME TypeInv, NEW a \in [Procs -> SUBSET Procs], Ordered(a), NEW p \in Procs,
         job'[p] # "limited", \A q \in Procs \ {p} : job'[q] = job[q]
  PROVE  /\ Without(a, p) \in [Procs -> SUBSET Procs]
         /\ \A q \in Procs : Without(a, p)[q] \subseteq a[q]
         /\ Ordered(Without(a, p))'
<1>1. /\ Without(a, p) \in [Procs -> SUBSET Procs]
      /\ \A q \in Procs : Without(a, p)[q] = IF q = p THEN {} ELSE a[q] \ {p}
  BY Zenon DEF Without
<1>2. PastLimit' = PastLimit \ {p} /\ PastLimit \subseteq Procs
  BY Zenon DEF PastLimit
<1>3. /\ \A q \in Procs : a[q] \subseteq PastLimit \ {q}
      /\ \A r, q \in PastLimit : /\ r # q => r \in a[q] \/ q \in a[r]
                                 /\ r \in a[q] => a[r] \subseteq a[q]
  BY Zenon DEF Ordered
<1> SUFFICES ASSUME NEW c, \A q \in Procs : c[q] = IF q = p THEN {} ELSE a[q] \ {p}
             PROVE  Ordered(c)' /\ \A q \in Procs : c[q] \subseteq a[q]
  BY <1>1, Zenon
<1>4. \A q \in Procs : c[q] \subseteq a[q] /\ c[q] \subseteq PastLimit' \ {q}
  <2> TAKE q \in Procs
  <2>1. CASE q = p
    BY <2>1, Zenon
  <2>2. CASE q # p
    <3>1. c[q] = a[q] \ {p}
      BY <2>2, Zenon
    <3> QED
      BY <1>2, <1>3, <3>1, Zenon
  <2> QED
    BY <2>1, <2>2, Zenon
<1>5. ASSUME NEW r \in PastLimit', NEW q \in PastLimit'
      PROVE  (r # q => r \in c[q] \/ q \in c[r]) /\ (r \in c[q] => c[r] \subseteq c[q])
  <2>1. c[r] = a[r] \ {p} /\ c[q] = a[q] \ {p} /\ r \in PastLimit \ {p} /\ q \in PastLimit \ {p}
    BY <1>2, <1>5, Zenon
  <2> QED
    BY <1>3, <2>1, Zenon
<1> QED
  BY <1>4, <1>5, Zenon DEF Ordered

(* Nobody's place changes. *)
LEMMA OrderedAside ==
  ASSUME NEW a, Ordered(a), PastLimit' = PastLimit
  PROVE  Ordered(a)'
BY Zenon DEF Ordered

(* What the commit of a sign-in adds. *)
LEMMA SignInAdds ==
  ASSUME TypeInv, NEW p \in Procs, Commit(p), job[p] = "limited", NEW u \in Users
  PROVE  /\ Live(u)' \subseteq Live(u) \cup {new[p]}
         /\ OwnerOf[new[p]] # u => Live(u)' \subseteq Live(u)
         /\ OwnerOf[new[p]] = u => Live(u)' \subseteq Left(p) \cup {new[p]}
<1>1. /\ pc[p] = "next" /\ todo[p] = {} /\ expired' = expired
      /\ exist' = exist \cup {new[p]} /\ revoked' = revoked \cup mine[p]
  BY Zenon DEF Commit, Publish
<1>2. new[p] # u
  <2>1. new[p] \in SIDs
    BY Zenon DEF TypeInv, Shape
  <2> QED
    BY <2>1, SessionAssumption DEF SIDs
<1>3. Pending(p) = {}
  BY <1>1, Zenon DEF Pending, InCall
<1> QED
  BY <1>1, <1>2, <1>3, Zenon DEF Live, Match, Left

(* One more in a finite set. *)
LEMMA OneMore ==
  ASSUME NEW S, NEW T, NEW x, IsFiniteSet(S), T \subseteq S \cup {x}
  PROVE  Cardinality(T) \in Nat /\ Cardinality(S) \in Nat /\ Cardinality(T) <= Cardinality(S) + 1
<1>1. /\ IsFiniteSet(S \cup {x}) /\ Cardinality(S) \in Nat
      /\ \/ Cardinality(S \cup {x}) = Cardinality(S)
         \/ Cardinality(S \cup {x}) = Cardinality(S) + 1
  BY FS_AddElement, FS_CardinalityType, Zenon
<1>2. Cardinality(T) \in Nat /\ Cardinality(T) <= Cardinality(S \cup {x})
  BY <1>1, FS_Subset, FS_CardinalityType, Zenon
<1> QED
  BY <1>1, <1>2

(* The commit of a sign-in leaves every other its room: it was counted on,   *)
(* or it had room for the other when it counted.                             *)
LEMMA RoomBeside ==
  ASSUME TypeInv, TypeInv', Few, NEW a \in [Procs -> SUBSET Procs], Roomy(a), NEW r \in Procs,
         Commit(r), job[r] = "limited", NEW p \in Procs \ {r}, NEW b, b[p] = a[p] \ {r}
  PROVE  Room(b, p)'
<1>0. Ordered(a) /\ Room(a, p) /\ Room(a, r)
  BY Zenon DEF Roomy
<1>1. Own(p)' = Own(p)
  BY ApartClear, Zenon DEF Commit
<1>2. /\ pc'[p] = pc[p] /\ job'[p] = job[p] /\ mine'[p] = mine[p] /\ todo'[p] = todo[p]
      /\ new'[p] = new[p] /\ snap'[p] = snap[p] /\ target'[p] = target[p]
  BY <1>1, Zenon DEF Own
<1> SUFFICES ASSUME job[p] = "limited", pc[p] # "refuse", Limit # 0
             PROVE  Cardinality(Left(p)') + Cardinality(b[p]) < Limit + SignIns - 1
  BY <1>2, Zenon DEF Room
<1>3. /\ Cardinality(Left(p)) + Cardinality(a[p]) < Limit + SignIns - 1
      /\ Cardinality(Left(r)) + Cardinality(a[r]) < Limit + SignIns - 1
  BY <1>0, Zenon DEF Room, Commit
<1>4. /\ IsFiniteSet(Left(p)) /\ Cardinality(Left(p)) \in Nat
      /\ IsFiniteSet(Left(r)) /\ Cardinality(Left(r)) \in Nat
      /\ IsFiniteSet(a[p]) /\ Cardinality(a[p]) \in Nat
      /\ IsFiniteSet(a[r]) /\ Cardinality(a[r]) \in Nat
  BY <1>0, LeftFinite, AheadFinite, Zenon
<1>5. Pending(p) \subseteq Pending(p)'
  BY <1>2, Zenon DEF Pending, Match, Commit
<1>u. PICK u \in Users : u = OwnerOf[new[p]]
  BY SessionAssumption, Zenon DEF TypeInv, Shape
<1>6. Left(p)' \subseteq Live(u)'
  BY <1>2, <1>u, Zenon DEF Left
<1>7. Left(p)' \subseteq Left(p) \cup {new[r]} /\ (OwnerOf[new[r]] # u => Left(p)' \subseteq Left(p))
  <2>1. Live(u)' \subseteq Live(u) \cup {new[r]} /\ (OwnerOf[new[r]] # u => Live(u)' \subseteq Live(u))
    BY SignInAdds, Zenon
  <2>2. /\ Left(p) = Live(u) \ (mine[p] \cup todo[p] \cup Pending(p))
        /\ Left(p)' = Live(u)' \ (mine[p] \cup todo[p] \cup Pending(p)')
    BY <1>2, <1>u, Zenon DEF Left
  <2> QED
    BY <1>5, <2>1, <2>2, Zenon
<1>8. CASE r \in a[p]
  <2>1. Cardinality(Left(p)') \in Nat /\ Cardinality(Left(p)') <= Cardinality(Left(p)) + 1
    BY <1>4, <1>7, OneMore, Zenon
  <2>2. Cardinality(b[p]) = Cardinality(a[p]) - 1 /\ Cardinality(b[p]) \in Nat
    <3>1. IsFiniteSet(a[p] \ {r}) /\ Cardinality(a[p] \ {r}) = Cardinality(a[p]) - 1
      BY <1>4, <1>8, FS_RemoveElement, Zenon
    <3> QED
      BY <3>1, FS_CardinalityType, Zenon
  <2>3. \A k, l, m, n \in Nat : /\ m + n < Limit + SignIns - 1 /\ k <= m + 1 /\ l = n - 1
                               => k + l < Limit + SignIns - 1
    BY SessionAssumption
  <2> QED
    BY <2>1, <2>2, <2>3, <1>3, <1>4, Zenon
<1>9. CASE r \notin a[p]
  <2>1. b[p] = a[p]
    BY <1>9, Zenon
  <2>2. CASE OwnerOf[new[r]] # u
    <3>1. Cardinality(Left(p)') \in Nat /\ Cardinality(Left(p)') <= Cardinality(Left(p))
      BY <2>2, <1>4, <1>7, FS_Subset, FS_CardinalityType, Zenon
    <3>2. \A k, m, n \in Nat : m + n < Limit + SignIns - 1 /\ k <= m => k + n < Limit + SignIns - 1
      BY SessionAssumption
    <3> QED
      BY <2>1, <3>1, <3>2, <1>3, <1>4, Zenon
  <2>3. CASE OwnerOf[new[r]] = u
    <3>1. Left(p)' \subseteq Left(r) \cup {new[r]}
      BY <2>3, <1>6, SignInAdds, Zenon
    <3>2. Cardinality(Left(p)') \in Nat /\ Cardinality(Left(p)') <= Cardinality(Left(r)) + 1
      BY <3>1, <1>4, OneMore, Zenon
    <3>3. p \in a[r] /\ a[p] \subseteq a[r] \ {p}
      BY <1>0, <1>9, Zenon DEF Ordered, PastLimit
    <3>4. IsFiniteSet(a[r] \ {p}) /\ Cardinality(a[r] \ {p}) = Cardinality(a[r]) - 1
      BY <3>3, <1>4, FS_RemoveElement, Zenon
    <3>5. Cardinality(a[p]) <= Cardinality(a[r] \ {p})
      BY <3>3, <3>4, FS_Subset, Zenon
    <3>6. \A k, l, m, n \in Nat : /\ m + n < Limit + SignIns - 1 /\ k <= m + 1 /\ l <= n - 1
                                 => k + l < Limit + SignIns - 1
      BY SessionAssumption
    <3> QED
      BY <2>1, <3>2, <3>4, <3>5, <3>6, <1>3, <1>4, Zenon
  <2> QED
    BY <2>2, <2>3, Zenon
<1> QED
  BY <1>8, <1>9, Zenon

(* The guard of SignIn. *)
LEMMA SignInFew ==
  ASSUME TypeInv, Few, NEW p \in Procs, SignIn(p)
  PROVE  Few'
<1>1. new' = [new EXCEPT ![p] = nextSid] /\ new \in [Procs -> 0..MaxSid]
  BY Zenon DEF SignIn, Start, TypeInv, TypeOK, RequestsOK
<1>2. \A q \in Procs : q # p => new'[q] = new[q]
  BY <1>1, Zenon
<1>3. SigningIn' \subseteq SigningIn \cup {p}
  BY <1>2, Zenon DEF SigningIn
<1>4. IsFiniteSet(SigningIn) /\ Cardinality(SigningIn) < SignIns
  BY Zenon DEF Few, SignIn, SigningIn
<1>5. /\ Cardinality(SigningIn') \in Nat /\ Cardinality(SigningIn) \in Nat
      /\ Cardinality(SigningIn') <= Cardinality(SigningIn) + 1
  BY <1>3, <1>4, OneMore, Zenon
<1>6. IsFiniteSet(SigningIn')
  BY <1>3, <1>4, FS_AddElement, FS_Subset, Zenon
<1>7. Cardinality(SigningIn') <= SignIns
  BY <1>4, <1>5, SessionAssumption
<1> QED
  BY <1>6, <1>7, Zenon DEF Few

LEMMA StillFew ==
  ASSUME Few, \A q \in Procs : new'[q] # 0 => new[q] # 0
  PROVE  Few'
<1>1. SigningIn' \subseteq SigningIn
  BY Zenon DEF SigningIn
<1>2. /\ IsFiniteSet(SigningIn') /\ Cardinality(SigningIn') \in Nat /\ Cardinality(SigningIn) \in Nat
      /\ Cardinality(SigningIn') <= Cardinality(SigningIn)
  BY <1>1, FS_Subset, FS_CardinalityType, Zenon DEF Few
<1>3. Cardinality(SigningIn) <= SignIns
  BY Zenon DEF Few
<1>4. Cardinality(SigningIn') <= SignIns
  BY <1>2, <1>3, SessionAssumption
<1> QED
  BY <1>2, <1>4, Zenon DEF Few

(* Every step keeps the room a sign-in has been given. *)
LEMMA NextLimit == TypeInv /\ TypeInv' /\ LimitInv /\ [Next]_vars => LimitInv'
<1> SUFFICES ASSUME TypeInv, TypeInv', Few, [Next]_vars,
                    NEW a \in [Procs -> SUBSET Procs], Roomy(a)
             PROVE  LimitInv'
  BY Zenon DEF LimitInv
<1>0. Ordered(a) /\ \A q \in Procs : Room(a, q)
  BY Zenon DEF Roomy
<1>1. ASSUME NEW b \in [Procs -> SUBSET Procs], Few', Ordered(b)', \A q \in Procs : Room(b, q)'
      PROVE  LimitInv'
  BY <1>1, Zenon DEF LimitInv, Roomy
<1>2. ASSUME NEW p \in Procs, Ebbs, Few', job'[p] # "limited", \A q \in Procs \ {p} : Own(q)' = Own(q)
      PROVE  LimitInv'
  <2>1. \A q \in Procs \ {p} : job'[q] = job[q]
    BY <1>2, Zenon DEF Own
  <2>2. PICK b \in [Procs -> SUBSET Procs] : Ordered(b)' /\ \A q \in Procs : b[q] \subseteq a[q]
    BY <1>0, <1>2, <2>1, OrderedEnd, Zenon
  <2>3. \A q \in Procs \ {p} : Room(b, q)'
    BY <1>0, <1>2, <2>2, RoomAside, Zenon
  <2>4. Room(b, p)'
    BY <1>2, Zenon DEF Room
  <2> QED
    BY <1>1, <1>2, <2>2, <2>3, <2>4, Zenon
<1>3. ASSUME NEW p \in Procs, NEW j, NEW T, NEW n, NEW o, Start(p, j, T, n, o), Few' PROVE LimitInv'
  <2>1. Ebbs /\ \A q \in Procs \ {p} : Own(q)' = Own(q)
    BY <1>3, Zenon DEF Start, tables, Ebbs, Own, TypeInv, TypeOK, RequestsOK
  <2>2. job'[p] # "limited"
    <3>1. j \in AllJobs /\ job'[p] = j
      BY <1>3, SessionAssumption, Zenon DEF Start, TypeInv, TypeOK, RequestsOK
    <3> QED
      BY <3>1 DEF AllJobs
  <2> QED
    BY <1>2, <1>3, <2>1, <2>2, Zenon
<1>4. ASSUME NEW p \in Procs, SignIn(p) PROVE LimitInv'
  <2>1. \E T, n, o : Start(p, "signin", T, n, o)
    BY <1>4, Zenon DEF SignIn
  <2> QED
    BY <1>3, <1>4, <2>1, SignInFew, Zenon
<1>5. ASSUME NEW p \in Procs, Logout(p) \/ LogoutAll(p) \/ Deactivate(p) \/ Sweep(p) PROVE LimitInv'
  <2>1. PICK j, T : Start(p, j, T, 0, 0)
    BY <1>5, Zenon DEF Logout, LogoutAll, Deactivate, Sweep
  <2>2. new' = [new EXCEPT ![p] = 0] /\ new \in [Procs -> 0..MaxSid]
    BY <2>1, Zenon DEF Start, TypeInv, TypeOK, RequestsOK
  <2>3. \A q \in Procs : new'[q] # 0 => new[q] # 0
    BY <2>2, Zenon
  <2> QED
    BY <1>3, <2>1, <2>3, StillFew, Zenon
<1>6. ASSUME NEW p \in Procs,
             Call(p) \/ Snapshot(p) \/ QueueEvents(p) \/ Destroy(p) \/ LockRows(p)
      PROVE  LimitInv'
  <2>1. Room(a, p)'
    BY <1>0, <1>6, RoomCall, Zenon
  <2>2. Ebbs /\ new' = new /\ job' = job
    BY <1>6, Zenon DEF Call, Snapshot, QueueEvents, Destroy, LockRows, tables, Ebbs
  <2>3. \A q \in Procs \ {p} : Own(q)' = Own(q)
    BY <1>6, ApartCall, Zenon
  <2>4. Few' /\ Ordered(a)'
    BY <1>0, <2>2, StillFew, OrderedAside, Zenon DEF PastLimit
  <2>5. \A q \in Procs \ {p} : Room(a, q)'
    BY <1>0, <2>2, <2>3, RoomAside, Zenon
  <2> QED
    BY <1>1, <2>1, <2>4, <2>5, Zenon
<1>7. ASSUME NEW p \in Procs, EnforceSessionLimit(p) PROVE LimitInv'
  <2>0. PICK b \in [Procs -> SUBSET Procs] : b[p] = PastLimit /\ \A q \in Procs \ {p} : b[q] = a[q]
    <3>1. PastLimit \subseteq Procs
      BY Zenon DEF PastLimit
    <3>2. /\ [a EXCEPT ![p] = PastLimit] \in [Procs -> SUBSET Procs]
          /\ [a EXCEPT ![p] = PastLimit][p] = PastLimit
          /\ \A q \in Procs \ {p} : [a EXCEPT ![p] = PastLimit][q] = a[q]
      BY <3>1, Zenon
    <3> QED
      BY <3>2, Zenon
  <2>1. Ordered(b)'
    BY <1>0, <1>7, <2>0, OrderedCount, Zenon
  <2>2. Ebbs /\ new' = new /\ job[p] = "signin"
    BY <1>7, Zenon DEF EnforceSessionLimit, tables, Ebbs
  <2>3. \A q \in Procs \ {p} : Own(q)' = Own(q) /\ b[q] = a[q]
    BY <1>7, <2>0, ApartLimit, Zenon
  <2>4. \A q \in Procs \ {p} : Room(b, q)'
    BY <1>0, <2>2, <2>3, RoomAside, Zenon
  <2>5. ASSUME pc'[p] # "refuse", Limit # 0
        PROVE  Cardinality(Left(p)') + Cardinality(b[p]) < Limit + SignIns - 1
    <3>1. Cardinality(Left(p)') \in Nat /\ Cardinality(Left(p)') < Limit
      BY <1>7, <2>5, RoomMade, Zenon
    <3>2. p \in SigningIn /\ p \notin PastLimit
      <4>1. new[p] \in SIDs
        BY <2>2, Zenon DEF TypeInv, Shape
      <4>2. new[p] # 0
        BY <4>1 DEF SIDs
      <4> QED
        BY <2>2, <4>2 DEF SigningIn, PastLimit
    <3>3. b[p] = PastLimit /\ PastLimit \subseteq SigningIn \ {p} /\ Cardinality(PastLimit) \in Nat
      BY <2>0, <3>2, PastFinite, Zenon
    <3>4. /\ IsFiniteSet(SigningIn \ {p}) /\ Cardinality(SigningIn \ {p}) = Cardinality(SigningIn) - 1
          /\ Cardinality(SigningIn) \in Nat
      BY <3>2, FS_RemoveElement, FS_CardinalityType, Zenon DEF Few
    <3>5. Cardinality(PastLimit) <= Cardinality(SigningIn \ {p})
      BY <3>3, <3>4, FS_Subset, Zenon
    <3>6. Cardinality(SigningIn) <= SignIns
      BY Zenon DEF Few
    <3> QED
      BY <3>1, <3>3, <3>4, <3>5, <3>6, SessionAssumption
  <2>6. Few'
    BY <2>2, StillFew, Zenon
  <2> QED
    BY <1>1, <2>1, <2>4, <2>5, <2>6, Zenon DEF Room
<1>8. ASSUME NEW p \in Procs, Clear(p)
      PROVE  Few' /\ job'[p] # "limited" /\ \A q \in Procs \ {p} : Own(q)' = Own(q)
  <2>1. (\A q \in Procs \ {p} : Own(q)' = Own(q)) /\ job'[p] = "none" /\ new'[p] = 0
    BY <1>8, ApartClear, Zenon
  <2>2. \A q \in Procs : new'[q] # 0 => new[q] # 0
    BY <2>1, Zenon DEF Own
  <2> QED
    BY <2>1, <2>2, StillFew, Zenon
<1>9. ASSUME NEW p \in Procs, Commit(p) PROVE LimitInv'
  <2>1. Clear(p) /\ Publish(p) /\ expired' = expired
    BY <1>9, Zenon DEF Commit
  <2>2. CASE job[p] # "limited"
    <3>1. Ebbs
      BY <1>9, <2>1, <2>2, Zenon DEF Commit, Publish, Ebbs
    <3> QED
      BY <1>2, <1>8, <2>1, <3>1, Zenon
  <2>3. CASE job[p] = "limited"
    <3>1. Few' /\ job'[p] # "limited" /\ \A q \in Procs \ {p} : job'[q] = job[q]
      BY <1>8, <2>1, Zenon DEF Own
    <3>2. /\ Without(a, p) \in [Procs -> SUBSET Procs] /\ Ordered(Without(a, p))'
      BY <1>0, <3>1, OrderedEnd, Zenon
    <3>3. PICK b \in [Procs -> SUBSET Procs] : b = Without(a, p) /\ Ordered(b)'
      BY <3>2, Zenon
    <3>4. \A q \in Procs \ {p} : b[q] = a[q] \ {p}
      BY <3>3, Zenon DEF Without
    <3>5. \A q \in Procs \ {p} : Room(b, q)'
      BY <1>9, <2>3, <3>4, RoomBeside, Zenon
    <3>6. Room(b, p)'
      BY <3>1, Zenon DEF Room
    <3>7. \A q \in Procs : Room(b, q)'
      BY <3>5, <3>6, Zenon
    <3>8. Ordered(b)' /\ Few'
      BY <3>1, <3>3, Zenon
    <3> QED
      BY <1>1, <3>7, <3>8, Zenon
  <2> QED
    BY <2>2, <2>3, Zenon
<1>10. ASSUME NEW p \in Procs, CommitDeactivation(p) \/ RefuseSignIn(p) \/ RollBack(p) PROVE LimitInv'
  <2>1. Clear(p) /\ Ebbs
    BY <1>10, Zenon DEF CommitDeactivation, RefuseSignIn, RollBack, Publish, Ebbs, tables
  <2> QED
    BY <1>2, <1>8, <2>1, Zenon
<1>11. ASSUME UNCHANGED others, Ebbs PROVE LimitInv'
  <2>1. \A q \in Procs : Own(q)' = Own(q)
    BY <1>11, Zenon DEF Own, others, txn
  <2>2. new' = new /\ job' = job
    BY <1>11, Zenon DEF others, txn
  <2>3. Few' /\ Ordered(a)'
    BY <1>0, <2>2, StillFew, OrderedAside, Zenon DEF PastLimit
  <2>4. \A q \in Procs : Room(a, q)'
    BY <1>0, <1>11, <2>1, RoomAside, Zenon
  <2> QED
    BY <1>1, <2>3, <2>4, Zenon
<1>12. ASSUME NEW x \in Pairs, Authorize(x) \/ TouchSessionClient(x) PROVE LimitInv'
  BY <1>11, <1>12, Zenon DEF Authorize, TouchSessionClient, tables, Ebbs
<1>13. ASSUME NEW s \in SIDs, Expire(s) PROVE LimitInv'
  BY <1>11, <1>13, Zenon DEF Expire, Ebbs
<1>14. ASSUME NEW u \in Users,
              DeactivateQuietly(u) \/ DeactivateStatusOnly(u) \/ Reactivate(u)
       PROVE  LimitInv'
  BY <1>11, <1>14, Zenon DEF DeactivateQuietly, DeactivateStatusOnly, Reactivate, Ebbs
<1>15. ASSUME UNCHANGED vars PROVE LimitInv'
  BY <1>11, <1>15, Zenon DEF vars, tables, others, Ebbs
<1> QED
  BY <1>4, <1>5, <1>6, <1>7, <1>9, <1>10, <1>12, <1>13, <1>14, <1>15, Zenon DEF Next, Step

(* Only the commit of a sign-in adds to the live sessions. *)
LEMMA OnlySignInsAdd ==
  ASSUME TypeInv, [Next]_vars
  PROVE  Ebbs \/ \E p \in Procs : Commit(p) /\ job[p] = "limited"
<1>1. ASSUME NEW p \in Procs, SignIn(p) \/ Logout(p) \/ LogoutAll(p) \/ Deactivate(p) \/ Sweep(p)
      PROVE  Ebbs
  BY <1>1, Zenon DEF SignIn, Logout, LogoutAll, Deactivate, Sweep, Start, tables, Ebbs
<1>2. ASSUME NEW p \in Procs,
             \/ Call(p) \/ Snapshot(p) \/ QueueEvents(p) \/ Destroy(p) \/ LockRows(p)
             \/ EnforceSessionLimit(p)
      PROVE  Ebbs
  BY <1>2, Zenon DEF Call, Snapshot, QueueEvents, Destroy, LockRows, EnforceSessionLimit, tables, Ebbs
<1>3. ASSUME NEW p \in Procs, CommitDeactivation(p) \/ RefuseSignIn(p) \/ RollBack(p) PROVE Ebbs
  BY <1>3, Zenon DEF CommitDeactivation, RefuseSignIn, RollBack, Publish, Ebbs, tables
<1>4. ASSUME NEW p \in Procs, Commit(p), job[p] # "limited" PROVE Ebbs
  BY <1>4, Zenon DEF Commit, Publish, Ebbs
<1>5. ASSUME NEW x \in Pairs, Authorize(x) \/ TouchSessionClient(x) PROVE Ebbs
  BY <1>5, Zenon DEF Authorize, TouchSessionClient, tables, Ebbs
<1>6. ASSUME NEW s \in SIDs, Expire(s) PROVE Ebbs
  BY <1>6, Zenon DEF Expire, Ebbs
<1>7. ASSUME NEW u \in Users,
             DeactivateQuietly(u) \/ DeactivateStatusOnly(u) \/ Reactivate(u)
      PROVE  Ebbs
  BY <1>7, Zenon DEF DeactivateQuietly, DeactivateStatusOnly, Reactivate, Ebbs
<1>8. CASE UNCHANGED vars
  BY <1>8, Zenon DEF vars, tables, Ebbs
<1> HIDE DEF Ebbs
<1> QED
  BY <1>1, <1>2, <1>3, <1>4, <1>5, <1>6, <1>7, <1>8, Zenon DEF Next, Step

(* A sign-in that commits finds the room it was given. *)
LEMMA StepLimit ==
  ASSUME TypeInv, TypeInv', LimitInv, [Next]_vars, NEW u \in Users,
         Cardinality(Live(u)') > Cardinality(Live(u)), Limit # 0
  PROVE  Cardinality(Live(u)') <= Limit + SignIns - 1
<1>0. /\ IsFiniteSet(Live(u)) /\ Cardinality(Live(u)) \in Nat
      /\ IsFiniteSet(Live(u)') /\ Cardinality(Live(u)') \in Nat
  <2>1. Live(u)' \subseteq SIDs
    BY Zenon DEF TypeInv, TypeOK, TablesOK, Live, Match
  <2> QED
    BY <2>1, LiveFinite, FiniteSessions, Zenon
<1>1. ~ Live(u)' \subseteq Live(u)
  <2>1. SUFFICES ASSUME Live(u)' \subseteq Live(u) PROVE FALSE
    BY Zenon
  <2>2. Cardinality(Live(u)') <= Cardinality(Live(u))
    BY <2>1, <1>0, FS_Subset, Zenon
  <2> QED
    BY <2>2, <1>0
<1>2. PICK p \in Procs : Commit(p) /\ job[p] = "limited"
  BY <1>1, OnlySignInsAdd, LiveEbbs, Zenon
<1>3. Live(u)' \subseteq Left(p) \cup {new[p]}
  BY <1>1, <1>2, SignInAdds, Zenon
<1>4. PICK a : Ordered(a) /\ Room(a, p)
  BY Zenon DEF LimitInv, Roomy
<1>5. Cardinality(Left(p)) + Cardinality(a[p]) < Limit + SignIns - 1
  BY <1>2, <1>4, Zenon DEF Room, Commit
<1>6. IsFiniteSet(Left(p)) /\ Cardinality(Left(p)) \in Nat /\ Cardinality(a[p]) \in Nat
  BY <1>4, LeftFinite, AheadFinite, Zenon DEF LimitInv
<1>7. Cardinality(Live(u)') <= Cardinality(Left(p)) + 1
  BY <1>3, <1>6, OneMore, Zenon
<1> QED
  BY <1>0, <1>5, <1>6, <1>7, SessionAssumption

(* At the start nobody is signing in. *)
LEMMA InitLimit == Init => LimitInv
<1> SUFFICES ASSUME Init PROVE LimitInv
  BY Zenon
<1>1. PastLimit = {} /\ SigningIn = {}
  BY DEF Init, PastLimit, SigningIn
<1>2. IsFiniteSet({}) /\ Cardinality({}) = 0
  BY FS_EmptySet, Zenon
<1>3. Few
  BY <1>1, <1>2, SessionAssumption DEF Few
<1> DEFINE a == [p \in Procs |-> {}]
<1>4. a \in [Procs -> SUBSET Procs] /\ Ordered(a)
  BY <1>1, Zenon DEF Ordered
<1>5. \A p \in Procs : Room(a, p)
  BY <1>1, Zenon DEF Room, PastLimit
<1> QED
  BY <1>3, <1>4, <1>5, Zenon DEF LimitInv, Roomy

(* However sign-ins overlap, none takes a user's live sessions more than one *)
(* past the limit for each other that may be under way, whatever expires or  *)
(* is ended around them and whichever of refusing and evicting each finds    *)
(* set (store/sessionlimit.go EnforceSessionLimit).                          *)
THEOREM LimitKept == Spec => OvershootIsBounded
<1> DEFINE A == \A u \in Users : Cardinality(Live(u)') > Cardinality(Live(u))
                                  => Limit = 0 \/ Cardinality(Live(u)') <= Limit + SignIns - 1
<1>1. TypeInv /\ TypeInv' /\ LimitInv /\ [Next]_vars => A
  BY StepLimit, Zenon
<1>2. TypeInv /\ TypeInv' /\ LimitInv /\ [Next]_vars => [A]_vars
  BY <1>1, Zenon
<1> QED
  BY InitType, NextType, InitLimit, NextLimit, <1>2, PTL DEF Spec, OvershootIsBounded
=============================================================================
