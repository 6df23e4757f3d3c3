----------------------------- MODULE SessionEnd -----------------------------
(* How sessions begin and end: signing in under a session limit              *)
(* (httpapi/flow.go completeSignIn, store/sessionlimit.go), the termination  *)
(* path that queues a notice for every relying party before it revokes       *)
(* (store/sessions.go), the sweep of expired sessions, and the writers of    *)
(* users.status.  The refresh-family statement of the same path is in        *)
(* Grants, and the delivery of what is queued here in Outbox.                *)
(*                                                                           *)
(* A process is one request or janitor pass, in one transaction at READ      *)
(* COMMITTED: each statement sees what is committed when it starts and what  *)
(* its own transaction has written; an UPDATE then waits for the rows that   *)
(* other transactions hold and looks at each again.                          *)
(*                                                                           *)
(* Sessions are numbered in the order their sign-ins begin, which is the     *)
(* order of auth_time and of not_after.                                      *)
EXTENDS Integers, FiniteSets

CONSTANTS Procs,
          Users, OwnerOf,   \* the user of each session
          Open,             \* sessions open at the start
          MaxSid,           \* bound on the sessions of a behaviour
          Clients, Backchannel, Streams,
                            \* relying parties; those with a logout URI, with an event stream
          Limit,            \* max_concurrent_sessions, 0 for none
          Behaviours,       \* what session_limit_behaviour may be set to
          SignIns,          \* bound on sign-ins under way at once
          SweepBatch,       \* sessions per janitor pass
          Jobs              \* what arrives

SIDs == 1..MaxSid
Pairs == SIDs \X Clients
AllJobs == {"signin", "authorize", "logout", "logoutAll", "expire", "sweep",
            "deactivate", "reactivate", "quiet", "statusOnly"}

ASSUME SessionAssumption ==
  /\ MaxSid \in Nat /\ Open \in 0..MaxSid /\ Limit \in Nat /\ SweepBatch \in Nat \ {0}
  /\ SignIns \in Nat /\ Behaviours \subseteq {"deny", "evict_oldest"} /\ Jobs \subseteq AllJobs
  /\ OwnerOf \in [SIDs -> Users] /\ \A u \in Users : \A s \in 0..MaxSid : u # s
  /\ Backchannel \subseteq Clients /\ Streams \subseteq Clients

VARIABLES
  \* the tables
  exist, revoked,    \* rows of sessions; those with revoked_at set
  expired,           \* those past not_after
  disabled,          \* users whose status is not active
  touched,           \* session_clients
  told,              \* back-channel notices queued for each session and client
  evented,           \* sessions and clients with a CAEP event queued
  nextSid,
  \* the processes
  pc, job, target, todo,   \* step, request, session or user being ended, sessions still to end
  tells, evs, snap, mine,  \* notices and events it has queued, rows it found and rows it revoked
  new, old,                \* the session being created, and the one the browser presented
  known, met,              \* history: the clients of the live sessions it is to end, and all its
                           \* sessions, when each call began
  authorizing,             \* authorization requests past their session check
  \* history
  owed,         \* clients of a revoked session when the call that revoked it began
  atEnd,        \* clients of a revoked session when its revocation committed
  presented,    \* <<old, new>> of every sign-in that presented a session
  superseded,   \* those whose old session it revoked
  cut           \* sessions open when a deactivation of their user that ends them began

tables == <<exist, revoked, expired, disabled, touched, told, evented>>
txn == <<job, target, todo, tells, evs, snap, mine, new, old, known, met>>
hist == <<owed, atEnd, presented, superseded, cut>>
vars == <<tables, nextSid, pc, txn, authorizing, hist>>

Init ==
  /\ exist = 1..Open /\ revoked = {} /\ expired = {} /\ disabled = {}
  /\ touched \in SUBSET ((1..Open) \X Clients)
  /\ told = [x \in Pairs |-> 0] /\ evented = {}
  /\ nextSid = Open + 1
  /\ pc = [p \in Procs |-> "idle"] /\ job = [p \in Procs |-> "none"]
  /\ target = [p \in Procs |-> 0] /\ todo = [p \in Procs |-> {}]
  /\ tells = [p \in Procs |-> {}] /\ evs = [p \in Procs |-> {}]
  /\ snap = [p \in Procs |-> {}] /\ mine = [p \in Procs |-> {}]
  /\ new = [p \in Procs |-> 0] /\ old = [p \in Procs |-> 0]
  /\ known = [p \in Procs |-> {}] /\ met = [p \in Procs |-> {}] /\ authorizing = {}
  /\ owed = {} /\ atEnd = {} /\ presented = {} /\ superseded = {} /\ cut = {}

-----------------------------------------------------------------------------
(* Reads *)

(* The rows TerminateSessions(t) is about: one session, or all of a user's. *)
Match(t) == {s \in exist : s = t \/ OwnerOf[s] = t}

(* revoked_at IS NULL, as transaction p sees it. *)
Unrevoked(p, S) == S \ (revoked \cup mine[p])

(* What the session limit counts, as p sees it. *)
LiveOf(u, p) == Unrevoked(p, Match(u)) \ expired

Live(u) == (Match(u) \ revoked) \ expired

Usable(s) == s \in Live(OwnerOf[s]) /\ OwnerOf[s] \notin disabled

(* The n first of a set of sessions. *)
FirstOf(S, n) == {s \in S : Cardinality({r \in S : r < s}) < n}

Locked(s, p) == \E q \in Procs \ {p} : s \in mine[q]

-----------------------------------------------------------------------------
(* Requests arrive *)

Start(p, j, T, n, o) ==
  /\ j \in Jobs /\ pc[p] = "idle"
  /\ pc' = [pc EXCEPT ![p] = "next"]
  /\ job' = [job EXCEPT ![p] = j]
  /\ todo' = [todo EXCEPT ![p] = T]
  /\ new' = [new EXCEPT ![p] = n]
  /\ old' = [old EXCEPT ![p] = o]
  /\ UNCHANGED <<tables, target, tells, evs, snap, mine, known, met, authorizing, hist>>

(* completeSignIn once the flow allows a session: the session the browser    *)
(* presented, whoever it belongs to, is looked up and is to end.             *)
SignIn(p) ==
  /\ nextSid \in SIDs /\ OwnerOf[nextSid] \notin disabled
  /\ Cardinality({q \in Procs : new[q] # 0}) < SignIns
  /\ \E o \in {0} \cup exist : Start(p, "signin", {o} \cap (exist \ revoked), nextSid, o)
  /\ nextSid' = nextSid + 1

(* terminateOwnSession and the other callers that name one session. *)
Logout(p) == \E s \in exist : Start(p, "logout", {s}, 0, 0) /\ UNCHANGED nextSid

(* Password change, MFA reset, shared signal, an administrator. *)
LogoutAll(p) == \E u \in Users : Start(p, "logoutAll", {u}, 0, 0) /\ UNCHANGED nextSid

(* The administrator's deactivation. *)
Deactivate(p) == \E u \in Users : Start(p, "deactivate", {u}, 0, 0) /\ UNCHANGED nextSid

(* Mutant: sessions that have already ended are picked again. *)
SweepAgain(p) ==
  LET T == FirstOf(exist \cap expired, SweepBatch)
  IN /\ T # {} /\ \A q \in Procs : job[q] # "sweep"
     /\ Start(p, "sweep", T, 0, 0)
     /\ UNCHANGED nextSid

(* SweepExpiredSessions, under the janitor's try-lock. *)
Sweep(p) ==
  LET T == FirstOf((exist \ revoked) \cap expired, SweepBatch)
  IN /\ T # {} /\ \A q \in Procs : job[q] # "sweep"
     /\ Start(p, "sweep", T, 0, 0)
     /\ UNCHANGED nextSid

-----------------------------------------------------------------------------
(* TerminateSessions: five statements *)

Stay(p, l) == pc' = [pc EXCEPT ![p] = l]

(* A call begins. *)
Call(p) ==
  /\ pc[p] = "next"
  /\ \E t \in todo[p] :
       /\ target' = [target EXCEPT ![p] = t]
       /\ todo' = [todo EXCEPT ![p] = @ \ {t}]
       /\ known' = [known EXCEPT ![p] = @ \cup {x \in touched : x[1] \in Unrevoked(p, Match(t))}]
       /\ met' = [met EXCEPT ![p] = @ \cup Match(t)]
  /\ Stay(p, "snapshot")
  /\ UNCHANGED <<tables, nextSid, job, tells, evs, snap, mine, new, old, authorizing, hist>>

(* Mutant: nothing is looked at but the sessions addressed by sid. *)
SnapshotBySid(p) ==
  /\ pc[p] = "snapshot"
  /\ tells' = [tells EXCEPT ![p] = @ \cup {x \in touched : /\ x[1] \in Unrevoked(p, exist \cap {target[p]})
                                                          /\ x[2] \in Backchannel}]
  /\ Stay(p, "events")
  /\ UNCHANGED <<tables, nextSid, job, target, todo, evs, snap, mine, new, old, known, met, authorizing, hist>>

(* 1 and 2: the live sessions and their clients, and a notice for each. *)
Snapshot(p) ==
  /\ pc[p] = "snapshot"
  /\ tells' = [tells EXCEPT ![p] = @ \cup {x \in touched : /\ x[1] \in Unrevoked(p, Match(target[p]))
                                                          /\ x[2] \in Backchannel}]
  /\ Stay(p, "events")
  /\ UNCHANGED <<tables, nextSid, job, target, todo, evs, snap, mine, new, old, known, met, authorizing, hist>>

(* 2b and 2c: a CAEP event for each stream, pushed or polled. *)
QueueEvents(p) ==
  /\ pc[p] = "events"
  /\ evs' = [evs EXCEPT ![p] = @ \cup {x \in touched : /\ x[1] \in Unrevoked(p, Match(target[p]))
                                                      /\ x[2] \in Streams}]
  /\ Stay(p, "destroy")
  /\ UNCHANGED <<tables, nextSid, job, target, todo, tells, snap, mine, new, old, known, met, authorizing, hist>>

(* 3: the UPDATE finds its rows ... *)
Destroy(p) ==
  /\ pc[p] = "destroy"
  /\ snap' = [snap EXCEPT ![p] = Unrevoked(p, Match(target[p]))]
  /\ Stay(p, "lock")
  /\ UNCHANGED <<tables, nextSid, job, target, todo, tells, evs, mine, new, old, known, met, authorizing, hist>>

(* Mutant: rows another transaction holds are passed over. *)
LockRowsSkipping(p) ==
  /\ pc[p] = "lock"
  /\ mine' = [mine EXCEPT ![p] = @ \cup {s \in snap[p] \ revoked : ~Locked(s, p)}]
  /\ snap' = [snap EXCEPT ![p] = {}]
  /\ Stay(p, "next")
  /\ UNCHANGED <<tables, nextSid, job, target, todo, tells, evs, new, old, known, met, authorizing, hist>>

(* ... and takes them, leaving out those that were revoked in the meantime. *)
LockRows(p) ==
  /\ pc[p] = "lock" /\ \A s \in snap[p] : ~Locked(s, p)
  /\ mine' = [mine EXCEPT ![p] = @ \cup (snap[p] \ revoked)]
  /\ snap' = [snap EXCEPT ![p] = {}]
  /\ Stay(p, "next")
  /\ UNCHANGED <<tables, nextSid, job, target, todo, tells, evs, new, old, known, met, authorizing, hist>>

-----------------------------------------------------------------------------
(* EnforceSessionLimit, after the presented session has ended *)

(* Mutant: room is made for none. *)
LimitOffByOne(p) ==
  LET live == LiveOf(OwnerOf[new[p]], p)
      over == Limit # 0 /\ Cardinality(live) > Limit
  IN /\ pc[p] = "next" /\ todo[p] = {} /\ job[p] = "signin"
     /\ job' = [job EXCEPT ![p] = "limited"]
     /\ \/ ~over /\ Stay(p, "next") /\ UNCHANGED todo
        \/ over /\ "deny" \in Behaviours /\ Stay(p, "refuse") /\ UNCHANGED todo
        \/ /\ over /\ "evict_oldest" \in Behaviours /\ Stay(p, "next")
           /\ todo' = [todo EXCEPT ![p] = FirstOf(live, Cardinality(live) - Limit)]
     /\ UNCHANGED <<tables, nextSid, target, tells, evs, snap, mine, new, old, known, met, authorizing, hist>>

(* At the limit the sign-in is refused, or the oldest sessions are to end,   *)
(* by the setting it reads: an administrator may change it between two.      *)
EnforceSessionLimit(p) ==
  LET live == LiveOf(OwnerOf[new[p]], p)
      over == Limit # 0 /\ Cardinality(live) >= Limit
  IN /\ pc[p] = "next" /\ todo[p] = {} /\ job[p] = "signin"
     /\ job' = [job EXCEPT ![p] = "limited"]
     /\ \/ ~over /\ Stay(p, "next") /\ UNCHANGED todo
        \/ over /\ "deny" \in Behaviours /\ Stay(p, "refuse") /\ UNCHANGED todo
        \/ /\ over /\ "evict_oldest" \in Behaviours /\ Stay(p, "next")
           /\ todo' = [todo EXCEPT ![p] = FirstOf(live, Cardinality(live) - Limit + 1)]
     /\ UNCHANGED <<tables, nextSid, target, tells, evs, snap, mine, new, old, known, met, authorizing, hist>>

-----------------------------------------------------------------------------
(* The end of a transaction *)

Clear(p) ==
  /\ pc' = [pc EXCEPT ![p] = "idle"] /\ job' = [job EXCEPT ![p] = "none"]
  /\ target' = [target EXCEPT ![p] = 0] /\ todo' = [todo EXCEPT ![p] = {}]
  /\ tells' = [tells EXCEPT ![p] = {}] /\ evs' = [evs EXCEPT ![p] = {}]
  /\ snap' = [snap EXCEPT ![p] = {}] /\ mine' = [mine EXCEPT ![p] = {}]
  /\ new' = [new EXCEPT ![p] = 0] /\ old' = [old EXCEPT ![p] = 0]
  /\ known' = [known EXCEPT ![p] = {}] /\ met' = [met EXCEPT ![p] = {}]
  /\ UNCHANGED <<nextSid, authorizing>>

(* Revocations, notices and events become visible together. *)
Publish(p) ==
  /\ revoked' = revoked \cup mine[p]
  /\ told' = [x \in Pairs |-> told[x] + IF x \in tells[p] THEN 1 ELSE 0]
  /\ evented' = evented \cup evs[p]
  /\ owed' = owed \cup {x \in known[p] : x[1] \in mine[p]}
  /\ atEnd' = atEnd \cup {x \in touched : x[1] \in mine[p]}
  /\ superseded' = IF old[p] \in mine[p] THEN superseded \cup {<<old[p], new[p]>>} ELSE superseded

Commit(p) ==
  /\ pc[p] = "next" /\ todo[p] = {} /\ job[p] \in {"limited", "logout", "logoutAll", "sweep"}
  /\ Publish(p)
  /\ exist' = IF job[p] = "limited" THEN exist \cup {new[p]} ELSE exist
  /\ presented' = IF job[p] = "limited" /\ old[p] # 0 THEN presented \cup {<<old[p], new[p]>>} ELSE presented
  /\ Clear(p)
  /\ UNCHANGED <<expired, disabled, touched, cut>>

(* The status is written by the transaction that ends the sessions. *)
CommitDeactivation(p) ==
  /\ pc[p] = "next" /\ todo[p] = {} /\ job[p] = "deactivate"
  /\ Publish(p)
  /\ disabled' = disabled \cup {target[p]}
  /\ cut' = cut \cup met[p]
  /\ Clear(p)
  /\ UNCHANGED <<exist, expired, touched, presented>>

(* The refusal is audited and committed, with what has ended so far. *)
RefuseSignIn(p) ==
  /\ pc[p] = "refuse"
  /\ Publish(p)
  /\ Clear(p)
  /\ UNCHANGED <<exist, expired, disabled, touched, presented, cut>>

RollBack(p) ==
  /\ pc[p] # "idle"
  /\ Clear(p)
  /\ UNCHANGED <<tables, hist>>

-----------------------------------------------------------------------------
(* Everything else that touches these tables *)

others == <<nextSid, pc, txn>>

(* handleAuthorize finds the session usable; issueCodeAndRedirect records    *)
(* the client in a transaction of its own, later.                            *)
Authorize(x) ==
  /\ "authorize" \in Jobs /\ x \notin touched \cup authorizing /\ x[1] \in exist /\ Usable(x[1])
  /\ authorizing' = authorizing \cup {x}
  /\ UNCHANGED <<tables, others, hist>>

TouchSessionClient(x) ==
  /\ x \in authorizing
  /\ authorizing' = authorizing \ {x}
  /\ touched' = touched \cup {x}
  /\ UNCHANGED <<exist, revoked, expired, disabled, told, evented, others, hist>>

(* not_after passes. *)
Expire(s) ==
  /\ "expire" \in Jobs /\ s \in exist \ expired
  /\ expired' = expired \cup {s}
  /\ UNCHANGED <<exist, revoked, disabled, touched, told, evented, others, authorizing, hist>>

(* The directory sync, SCIM PATCH and SCIM DELETE: the sessions are marked   *)
(* revoked by a statement of their own.                                      *)
DeactivateQuietly(u) ==
  /\ "quiet" \in Jobs /\ \A s \in Match(u) : \A q \in Procs : s \notin mine[q]
  /\ disabled' = disabled \cup {u}
  /\ revoked' = revoked \cup Match(u)
  /\ atEnd' = atEnd \cup {x \in touched : x[1] \in Match(u) \ revoked}
  /\ cut' = cut \cup Match(u)
  /\ UNCHANGED <<exist, expired, touched, told, evented, owed, presented, superseded,
                 others, authorizing>>

(* SCIM PUT, SCIM re-provisioning and erasure write the status only. *)
DeactivateStatusOnly(u) ==
  /\ "statusOnly" \in Jobs
  /\ disabled' = disabled \cup {u}
  /\ UNCHANGED <<exist, revoked, expired, touched, told, evented, owed, atEnd, presented, superseded,
                 cut, others, authorizing>>

Reactivate(u) ==
  /\ "reactivate" \in Jobs /\ u \in disabled
  /\ disabled' = disabled \ {u}
  /\ UNCHANGED <<exist, revoked, expired, touched, told, evented, others, authorizing, hist>>

-----------------------------------------------------------------------------
Step(p) ==
  \/ SignIn(p) \/ Logout(p) \/ LogoutAll(p) \/ Deactivate(p) \/ Sweep(p)
  \/ Call(p) \/ Snapshot(p) \/ QueueEvents(p) \/ Destroy(p) \/ LockRows(p)
  \/ EnforceSessionLimit(p) \/ Commit(p) \/ CommitDeactivation(p) \/ RefuseSignIn(p) \/ RollBack(p)

Next ==
  \/ \E p \in Procs : Step(p)
  \/ \E x \in Pairs : Authorize(x) \/ TouchSessionClient(x)
  \/ \E s \in SIDs : Expire(s)
  \/ \E u \in Users : DeactivateQuietly(u) \/ DeactivateStatusOnly(u) \/ Reactivate(u)

Spec == Init /\ [][Next]_vars

(* The janitor's ticker keeps firing and its passes do not fail forever; the  *)
(* lock manager serves waiting transactions in turn, so one that waits for a  *)
(* row gets it; and a request that holds rows ends.  (The commit of a pass    *)
(* that found nothing left to revoke looks like a rollback, and may recur.)   *)
Pass(p) == job[p] = "sweep"

Fairness ==
  /\ SF_vars(\E p \in Procs : Sweep(p))
  /\ \A p \in Procs :
       /\ WF_vars(Pass(p) /\ (Call(p) \/ Snapshot(p) \/ QueueEvents(p) \/ Destroy(p) \/ Commit(p)))
       /\ SF_vars(Pass(p) /\ LockRows(p))
       /\ <>[][Pass(p) /\ RollBack(p) => Commit(p)]_vars
       /\ WF_vars(~Pass(p) /\ (Commit(p) \/ RollBack(p)))

FairSpec == Spec /\ Fairness

-----------------------------------------------------------------------------
TablesOK ==
  /\ exist \subseteq SIDs /\ revoked \subseteq exist /\ expired \subseteq exist
  /\ disabled \subseteq Users /\ touched \subseteq Pairs /\ authorizing \subseteq Pairs
  /\ told \in [Pairs -> Nat] /\ evented \subseteq Pairs /\ nextSid \in 1..(MaxSid + 1)

RequestsOK ==
  /\ pc \in [Procs -> {"idle", "next", "snapshot", "events", "destroy", "lock", "refuse"}]
  /\ job \in [Procs -> AllJobs \cup {"none", "limited"}]
  /\ target \in [Procs -> Users \cup (0..MaxSid)] /\ todo \in [Procs -> SUBSET (Users \cup SIDs)]
  /\ tells \in [Procs -> SUBSET Pairs] /\ evs \in [Procs -> SUBSET Pairs]
  /\ snap \in [Procs -> SUBSET SIDs] /\ mine \in [Procs -> SUBSET SIDs]
  /\ new \in [Procs -> 0..MaxSid] /\ old \in [Procs -> 0..MaxSid]
  /\ known \in [Procs -> SUBSET Pairs] /\ met \in [Procs -> SUBSET SIDs]

HistoryOK ==
  /\ owed \subseteq Pairs /\ atEnd \subseteq Pairs
  /\ cut \subseteq SIDs
  /\ presented \subseteq SIDs \X SIDs /\ superseded \subseteq SIDs \X SIDs

(* The types of the tables, of the transactions under way and of the history. *)
TypeOK == TablesOK /\ RequestsOK /\ HistoryOK

(* A relying party that had seen a session when the call that ended it began *)
(* has a notice and an event queued for it, however the call raced with      *)
(* other terminations and whichever of them rolled back                      *)
(* (store/sessions.go TerminateSessions: snapshot, queue, then destroy).     *)
KnownClientsTold ==
  \A x \in owed : /\ x[2] \in Backchannel => told[x] > 0
                  /\ x[2] \in Streams => x \in evented

(* Once a sign-in has committed, the session its browser presented is over:  *)
(* the two are never both live, whatever else was ending the old one         *)
(* (httpapi/flow.go:1741).                                                   *)
NeverBothLive == \A x \in presented : x[1] \in revoked

(* A session revoked for re-authentication was replaced by a new one         *)
(* (httpapi/flow.go:1741, "dies exactly when the new one is born").          *)
OldDiesWithNew == \A x \in superseded : x[2] \in exist

(* A sign-in never takes a user's live sessions past the organisation's      *)
(* limit (store/sessionlimit.go EnforceSessionLimit).                        *)
LimitHolds ==
  [][\A u \in Users : Cardinality(Live(u)') > Cardinality(Live(u))
                        => Limit = 0 \/ Cardinality(Live(u)') <= Limit]_vars

(* The count of EnforceSessionLimit holds nothing back, so sign-ins that     *)
(* overlap may pass the limit together: by one for each other sign-in that   *)
(* may be under way and no more, however often they count, evict, refuse and *)
(* roll back around each other, with sessions expiring and being ended and   *)
(* more open at the start than the limit allows.  For sign-ins one at a time *)
(* this is LimitHolds.                                                       *)
OvershootIsBounded ==
  [][\A u \in Users : Cardinality(Live(u)') > Cardinality(Live(u))
                        => Limit = 0 \/ Cardinality(Live(u)') <= Limit + SignIns - 1]_vars

(* A session that was open when its user was deactivated never works again,  *)
(* not even once the user is reactivated, if the writer is one that ends the *)
(* sessions: the administrator (adminapi/users.go:259), the directory sync   *)
(* (directory/apply.go:94), SCIM PATCH and DELETE (store/scimsource.go:323). *)
(* The others that write the status may come before, between and after.      *)
DeactivationIsFinal == \A s \in cut : ~Usable(s)

(* The same of SCIM PUT, re-provisioning and erasure, which end no session   *)
(* (store/scimsource.go:267, store/erasure.go:131): what they leave works    *)
(* again once the user is reactivated.                                       *)
StatusWriteEndsSessions ==
  [][\A u \in Users : DeactivateStatusOnly(u) => Match(u) \subseteq revoked']_vars

(* Every relying party that knew a session when it ended is told             *)
(* (store/sessions.go:13 and :190).                                          *)
EveryClientTold == \A x \in atEnd : x[2] \in Backchannel => told[x] > 0

(* A relying party is told of the end of a session once                      *)
(* (store/sessions.go:65).                                                   *)
ToldOnce == \A x \in Pairs : told[x] <= 1

(* A session past its not_after is ended by some sweep: the oldest batch     *)
(* never hides the rest (store/sessions.go SweepExpiredSessions).  Neither    *)
(* set ever loses a session, so this says it of each.                        *)
ExpiredSessionsEnd == <>[](expired \subseteq revoked)
=============================================================================
