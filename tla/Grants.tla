------------------------------- MODULE Grants -------------------------------
(* Authorization codes, the tokens minted from them, and everything that     *)
(* takes them away again: store/codes.go, store/refresh.go,                  *)
(* store/revocation.go, the families half of store/sessions.go, and the      *)
(* handlers of httpapi/flow.go and httpapi/tokenadmin.go that call them.     *)
(*                                                                           *)
(* A process is one HTTP request of one engine instance.  Transactions run   *)
(* at READ COMMITTED: every statement reads what is committed when it        *)
(* starts, what a transaction writes becomes visible when it commits, and a  *)
(* second UPDATE of a row waits for the first.  A process therefore carries  *)
(* what its transaction has read or locked, and the tables change at commit. *)
(*                                                                           *)
(* A mint is one run of mintSet: an access token, and with offline_access a  *)
(* refresh token of the same name.  A family is named by its first mint.     *)
EXTENDS Integers, FiniteSets

CONSTANTS Codes, Mints, Sessions, Procs,
          None,          \* no argument, no family, no parent
          ClientOf,      \* the client of each code
          SidOf,         \* the session of each code
          UserOf,        \* the user of each session
          Offline,       \* codes whose scopes include offline_access
          Kinds          \* the requests that arrive

AllKinds == {"authorize", "redeem", "refresh", "revoke", "terminate", "status", "introspect"}

ASSUME GrantsAssumption ==
  /\ IsFiniteSet(Codes) /\ IsFiniteSet(Mints)
  /\ None \notin Codes /\ None \notin Mints /\ Codes \cap Mints = {}
  /\ SidOf \in [Codes -> Sessions]
  /\ DOMAIN ClientOf = Codes /\ DOMAIN UserOf = Sessions
  /\ Offline \subseteq Codes /\ Kinds \subseteq AllKinds

Users == {UserOf[s] : s \in Sessions}

VARIABLES
  \* the tables
  issued,      \* rows of authorization_codes
  purged,      \* those the janitor has deleted again
  consumed,    \* codes with consumed_at set
  minted,      \* access tokens issued
  live,        \* refresh_tokens with consumed_at NULL
  spent,       \* refresh_tokens with consumed_at set
  origin,      \* the code each mint descends from
  parent,      \* the refresh token each mint replaced (successor_hash, inverted)
  family,      \* refresh_tokens.family_id and the gid claim
  revoked,     \* families with revoked_at set
  denied,      \* revoked_jtis
  ended,       \* sessions with revoked_at set
  expired,     \* sessions past not_after
  disabled,    \* users whose status is not active
  \* the requests
  pc, arg,     \* where each request is, and the code or mint it is about
  good,        \* what its first read said of that mint
  fams, ends,  \* families and sessions its transaction is about to revoke
  \* history
  caught,      \* codes whose reuse, or a descendant's, was answered and committed
  overlooked   \* those among them whose row was gone, so that nothing was revoked

tables == <<issued, purged, consumed, minted, live, spent, origin, parent, family,
            revoked, denied, ended, expired, disabled>>
tokens == <<minted, live, spent, origin, parent, family>>
history == <<caught, overlooked>>
vars == <<tables, pc, arg, good, fams, ends, history>>

Init ==
  /\ issued = {} /\ purged = {} /\ consumed = {} /\ minted = {} /\ live = {} /\ spent = {}
  /\ origin = [m \in Mints |-> None] /\ parent = [m \in Mints |-> None]
  /\ family = [m \in Mints |-> None]
  /\ revoked = {} /\ denied = {} /\ ended = {} /\ expired = {} /\ disabled = {}
  /\ pc = [p \in Procs |-> "idle"] /\ arg = [p \in Procs |-> None]
  /\ good = [p \in Procs |-> FALSE]
  /\ fams = [p \in Procs |-> {}] /\ ends = [p \in Procs |-> {}]
  /\ caught = {} /\ overlooked = {}

-----------------------------------------------------------------------------
(* Reads *)

(* revoked_at IS NULL AND not_after > now() *)
SessionLive(s) == s \notin ended /\ s \notin expired

(* What the UPDATE of RotateRefreshToken joins: family, user and session. *)
Rotatable(t) ==
  LET s == SidOf[origin[t]]
  IN family[t] \notin revoked /\ UserOf[s] \notin disabled /\ SessionLive(s)

(* The families of a session; those of a code's client and session. *)
FamiliesOf(s) == {m \in Mints : family[m] = m /\ SidOf[origin[m]] = s}
FamiliesLike(c) == {f \in FamiliesOf(SidOf[c]) : ClientOf[origin[f]] = ClientOf[c]}

(* The row lock of a transaction that has set consumed_at and not committed. *)
Locked(x) == \E q \in Procs : pc[q] \in {"redeeming", "rotating"} /\ arg[q] = x

(* Request p goes from idle to step l about x, having read g. *)
Begin(p, l, x, g) ==
  /\ pc[p] = "idle"
  /\ pc' = [pc EXCEPT ![p] = l]
  /\ arg' = [arg EXCEPT ![p] = x]
  /\ good' = [good EXCEPT ![p] = g]
  /\ UNCHANGED <<tables, fams, ends, history>>

Goto(p, l) ==
  /\ pc' = [pc EXCEPT ![p] = l]
  /\ UNCHANGED <<tables, arg, good, fams, ends, history>>

(* Request p is answered; the tables are left to the caller. *)
Finish(p) ==
  /\ pc' = [pc EXCEPT ![p] = "idle"]
  /\ arg' = [arg EXCEPT ![p] = None]
  /\ good' = [good EXCEPT ![p] = FALSE]
  /\ fams' = [fams EXCEPT ![p] = {}]
  /\ ends' = [ends EXCEPT ![p] = {}]

(* Tx.Rollback, or a COMMIT after a failed statement. *)
RollBack(p) ==
  /\ pc[p] \in {"redeeming", "codeReused", "rotatable", "rotating", "tokenReused",
                "revokingCode", "revokingNone", "revokingToken", "revoking", "terminating",
                "deactivating"}
  /\ Finish(p)
  /\ UNCHANGED <<tables, history>>

-----------------------------------------------------------------------------
(* handleAuthorize, issueCodeAndRedirect *)

(* ResolveSessionCookie finds the session live and its user active. *)
Authorize(p, c) ==
  /\ "authorize" \in Kinds
  /\ c \notin issued /\ \A q \in Procs : arg[q] # c
  /\ SessionLive(SidOf[c]) /\ UserOf[SidOf[c]] \notin disabled
  /\ Begin(p, "authorizing", c, FALSE)

(* The code is inserted by a later transaction that looks at none of this. *)
IssueCode(p) ==
  /\ pc[p] = "authorizing"
  /\ issued' = issued \cup {arg[p]}
  /\ Finish(p)
  /\ UNCHANGED <<purged, consumed, tokens, revoked, denied, ended, expired, disabled,
                 history>>

-----------------------------------------------------------------------------
(* handleToken, grant_type=authorization_code *)

(* UPDATE ... WHERE consumed_at IS NULL, after any transaction that holds    *)
(* the row; when no row matches, a SELECT tells reuse from an unknown code.  *)
ConsumeCode(p, c) ==
  /\ "redeem" \in Kinds
  /\ c \in issued \ purged
  /\ ~Locked(c)
  /\ Begin(p, IF c \in consumed THEN "codeReused" ELSE "redeeming", c, FALSE)

(* ValidateCodeRedemption or the token provider refuses: the consumption     *)
(* commits and nothing is minted.                                            *)
RefuseRedemption(p) ==
  /\ pc[p] = "redeeming"
  /\ consumed' = consumed \cup {arg[p]}
  /\ Finish(p)
  /\ UNCHANGED <<issued, purged, tokens, revoked, denied, ended, expired, disabled,
                 history>>

(* Mutant: the tokens commit, the consumption of the code does not. *)
MintTokensUnconsumed(p, m) ==
  LET c == arg[p]
  IN /\ pc[p] = "redeeming" /\ m \notin minted
     /\ minted' = minted \cup {m}
     /\ live' = IF c \in Offline THEN live \cup {m} ELSE live
     /\ origin' = [origin EXCEPT ![m] = c]
     /\ family' = [family EXCEPT ![m] = IF c \in Offline THEN m ELSE None]
     /\ Finish(p)
     /\ UNCHANGED <<issued, purged, consumed, spent, parent, revoked, denied, ended, expired,
                    disabled, history>>

(* mintTokens: with offline_access a new family and its first refresh token. *)
MintTokens(p, m) ==
  LET c == arg[p]
  IN /\ pc[p] = "redeeming" /\ m \notin minted
     /\ consumed' = consumed \cup {c}
     /\ minted' = minted \cup {m}
     /\ live' = IF c \in Offline THEN live \cup {m} ELSE live
     /\ origin' = [origin EXCEPT ![m] = c]
     /\ family' = [family EXCEPT ![m] = IF c \in Offline THEN m ELSE None]
     /\ Finish(p)
     /\ UNCHANGED <<issued, purged, spent, parent, revoked, denied, ended, expired, disabled,
                    history>>

(* Mutant: reuse is reported and audited, and nothing is revoked. *)
RevokeFamilyForCodeNone(p) ==
  /\ pc[p] = "codeReused"
  /\ fams' = [fams EXCEPT ![p] = {}]
  /\ pc' = [pc EXCEPT ![p] = "revokingCode"]
  /\ UNCHANGED <<tables, arg, good, ends, history>>

(* The join needs the code's row.  If the janitor has deleted it since       *)
(* ConsumeCode saw it, the UPDATE matches no family and reports no error.    *)
RevokeFamilyForCode(p) ==
  /\ pc[p] = "codeReused"
  /\ fams' = [fams EXCEPT ![p] = IF arg[p] \in purged THEN {} ELSE FamiliesLike(arg[p]) \ revoked]
  /\ pc' = [pc EXCEPT ![p] = IF arg[p] \in purged THEN "revokingNone" ELSE "revokingCode"]
  /\ UNCHANGED <<tables, arg, good, ends, history>>

(* audit.Write fails on the database: the transaction is aborted, and the    *)
(* COMMIT that follows rolls it back.                                        *)
AuditFails(p) ==
  /\ pc[p] \in {"revokingCode", "revokingNone"}
  /\ Finish(p)
  /\ UNCHANGED <<tables, history>>

-----------------------------------------------------------------------------
(* handleRefreshGrant *)

(* The UPDATE of RotateRefreshToken starts: its snapshot fixes what it will  *)
(* see of the family, the user and the session.                              *)
RotateRefreshToken(p, t) ==
  /\ "refresh" \in Kinds
  /\ t \in live \cup spent
  /\ Begin(p, "rotatable", t, Rotatable(t))

(* The row itself is looked at again once its lock is free; the joined rows  *)
(* are not.  Without a match a SELECT tells reuse from an invalid token.     *)
RotateRow(p) ==
  /\ pc[p] = "rotatable"
  /\ \/ /\ arg[p] \in spent
        /\ Goto(p, "tokenReused")
     \/ /\ arg[p] \in live /\ good[p] /\ ~Locked(arg[p])
        /\ Goto(p, "rotating")
     \/ /\ arg[p] \in live /\ ~good[p]
        /\ Finish(p) /\ UNCHANGED <<tables, history>>

(* mintFromGrant and LinkSuccessor.  A wrong client, key or scope rolls back *)
(* instead, and leaves the token as it was.                                  *)
MintFromGrant(p, m) ==
  LET t == arg[p]
  IN /\ pc[p] = "rotating" /\ m \notin minted
     /\ live' = (live \ {t}) \cup {m}
     /\ spent' = spent \cup {t}
     /\ minted' = minted \cup {m}
     /\ origin' = [origin EXCEPT ![m] = origin[t]]
     /\ parent' = [parent EXCEPT ![m] = t]
     /\ family' = [family EXCEPT ![m] = family[t]]
     /\ Finish(p)
     /\ UNCHANGED <<issued, purged, consumed, revoked, denied, ended, expired, disabled,
                    history>>

RevokeFamilyByToken(p) ==
  /\ pc[p] = "tokenReused"
  /\ fams' = [fams EXCEPT ![p] = {family[arg[p]]} \ revoked]
  /\ pc' = [pc EXCEPT ![p] = "revokingToken"]
  /\ UNCHANGED <<tables, arg, good, ends, history>>

-----------------------------------------------------------------------------
(* handleRevoke, TerminateSessions and the writers of users.status *)

(* The refresh token's whole family, spent tokens included. *)
RevokeRefreshToken(p, t) ==
  /\ "revoke" \in Kinds
  /\ pc[p] = "idle" /\ t \in live \cup spent
  /\ fams' = [fams EXCEPT ![p] = {family[t]} \ revoked]
  /\ pc' = [pc EXCEPT ![p] = "revoking"]
  /\ UNCHANGED <<tables, arg, good, ends, history>>

RevokeJTI(m) ==
  /\ "revoke" \in Kinds
  /\ m \in minted
  /\ denied' = denied \cup {m}
  /\ UNCHANGED <<issued, purged, consumed, tokens, revoked, ended, expired, disabled,
                 pc, arg, good, fams, ends, history>>

(* One session or all of a user's; the administrator's deactivation writes   *)
(* the status in the same transaction.                                       *)
TerminateSessions(p, S, l) ==
  /\ "terminate" \in Kinds
  /\ pc[p] = "idle"
  /\ fams' = [fams EXCEPT ![p] = (UNION {FamiliesOf(s) : s \in S}) \ revoked]
  /\ ends' = [ends EXCEPT ![p] = S]
  /\ pc' = [pc EXCEPT ![p] = l]
  /\ UNCHANGED <<tables, arg, good, history>>

SessionsOf(u) == {s \in Sessions : UserOf[s] = u}

(* The code whose reuse, or a descendant's, request p answers *)
Reused(p) == CASE pc[p] \in {"revokingCode", "revokingNone"} -> {arg[p]}
               [] pc[p] = "revokingToken" -> {origin[arg[p]]}
               [] OTHER -> {}

CommitRevocation(p) ==
  /\ pc[p] \in {"revokingCode", "revokingNone", "revokingToken", "revoking", "terminating",
                "deactivating"}
  /\ revoked' = revoked \cup fams[p]
  /\ ended' = ended \cup ends[p]
  /\ disabled' = IF pc[p] = "deactivating" THEN disabled \cup {UserOf[s] : s \in ends[p]} ELSE disabled
  /\ caught' = caught \cup Reused(p)
  /\ overlooked' = IF pc[p] = "revokingNone" THEN overlooked \cup (Reused(p) \ caught)
                   ELSE overlooked \ Reused(p)
  /\ Finish(p)
  /\ UNCHANGED <<issued, purged, consumed, tokens, denied, expired>>

(* The status writers that leave the families alone: SCIM (and erasure)      *)
(* touches no session, the directory sync marks the sessions revoked itself. *)
SetStatus(D, S) ==
  /\ "status" \in Kinds
  /\ disabled' = D
  /\ ended' = ended \cup S
  /\ UNCHANGED <<issued, purged, consumed, tokens, revoked, denied, expired,
                 pc, arg, good, fams, ends, history>>

WriteStatus(u) ==
  \/ SetStatus(disabled \cup {u}, {})
  \/ SetStatus(disabled \ {u}, {})
  \/ SetStatus(disabled \cup {u}, SessionsOf(u))

(* not_after passes. *)
ExpireSession(s) ==
  /\ "terminate" \in Kinds /\ s \notin expired
  /\ expired' = expired \cup {s}
  /\ UNCHANGED <<issued, purged, consumed, tokens, revoked, denied, ended, disabled,
                 pc, arg, good, fams, ends, history>>

(* The janitor deletes codes, spent or not, a day after they expired. *)
PurgeExpiredCodes(C) ==
  /\ C # {} /\ C \subseteq issued \ purged /\ \A c \in C : ~Locked(c)
  /\ purged' = purged \cup C
  /\ UNCHANGED <<issued, consumed, tokens, revoked, denied, ended, expired, disabled,
                 pc, arg, good, fams, ends, history>>

-----------------------------------------------------------------------------
(* handleIntrospect: three reads, each on a connection of its own *)

AccessActive(m) ==
  m \in minted /\ family[m] \notin revoked /\ m \notin denied /\ SessionLive(SidOf[origin[m]])

(* Mutant: the grant is not looked at. *)
IntrospectNoGrant(p, m) ==
  /\ "introspect" \in Kinds /\ m \in minted
  /\ Begin(p, "checkJTI", m, AccessActive(m))

(* GrantRevoked.  good remembers what a single consistent read would say. *)
IntrospectAccessToken(p, m) ==
  /\ "introspect" \in Kinds /\ m \in minted
  /\ family[m] \notin revoked
  /\ Begin(p, "checkJTI", m, AccessActive(m))

(* LookupRefreshToken. *)
IntrospectRefreshToken(p, t) ==
  /\ "introspect" \in Kinds /\ t \in live
  /\ family[t] \notin revoked
  /\ Begin(p, "checkRefreshSession", t, Rotatable(t))

(* JTIRevoked *)
CheckJTI(p) ==
  /\ pc[p] = "checkJTI"
  /\ IF arg[p] \in denied
     THEN Finish(p) /\ UNCHANGED <<tables, history>>
     ELSE Goto(p, "checkSession")

(* SessionLive, which does not look at the user. *)
CheckSession(p) ==
  /\ pc[p] \in {"checkSession", "checkRefreshSession"}
  /\ IF SessionLive(SidOf[origin[arg[p]]])
     THEN Goto(p, IF pc[p] = "checkSession" THEN "active" ELSE "activeRefresh")
     ELSE Finish(p) /\ UNCHANGED <<tables, history>>

AnswerActive(p) ==
  /\ pc[p] \in {"active", "activeRefresh"}
  /\ Finish(p)
  /\ UNCHANGED <<tables, history>>

-----------------------------------------------------------------------------
Request(p) ==
  \/ \E c \in Codes : Authorize(p, c) \/ ConsumeCode(p, c)
  \/ IssueCode(p) \/ RefuseRedemption(p) \/ RevokeFamilyForCode(p) \/ AuditFails(p)
  \/ \E m \in Mints : MintTokens(p, m) \/ MintFromGrant(p, m)
  \/ \E t \in Mints : RotateRefreshToken(p, t) \/ RevokeRefreshToken(p, t)
  \/ RotateRow(p) \/ RevokeFamilyByToken(p)
  \/ \E s \in Sessions : TerminateSessions(p, {s}, "terminating")
  \/ \E u \in Users : TerminateSessions(p, SessionsOf(u), "terminating")
  \/ \E u \in Users : TerminateSessions(p, SessionsOf(u), "deactivating")
  \/ CommitRevocation(p) \/ RollBack(p)
  \/ \E m \in Mints : IntrospectAccessToken(p, m) \/ IntrospectRefreshToken(p, m)
  \/ CheckJTI(p) \/ CheckSession(p) \/ AnswerActive(p)

Next ==
  \/ \E p \in Procs : Request(p)
  \/ \E m \in Mints : RevokeJTI(m)
  \/ \E u \in Users : WriteStatus(u)
  \/ \E s \in Sessions : ExpireSession(s)
  \/ \E C \in SUBSET Codes : PurgeExpiredCodes(C)

Spec == Init /\ [][Next]_vars

-----------------------------------------------------------------------------
(* Properties *)

Steps == {"idle", "authorizing", "redeeming", "codeReused", "revokingCode", "revokingNone",
          "rotatable", "rotating", "tokenReused", "revokingToken", "revoking", "terminating",
          "deactivating", "checkJTI", "checkSession", "checkRefreshSession", "active",
          "activeRefresh"}

(* The tables and the requests. *)
TypeOK ==
  /\ issued \subseteq Codes /\ purged \subseteq issued /\ consumed \subseteq issued
  /\ minted \subseteq Mints /\ live \subseteq minted /\ spent \subseteq minted
  /\ origin \in [Mints -> Codes \cup {None}]
  /\ parent \in [Mints -> Mints \cup {None}] /\ family \in [Mints -> Mints \cup {None}]
  /\ revoked \subseteq Mints /\ denied \subseteq minted
  /\ ended \subseteq Sessions /\ expired \subseteq Sessions /\ disabled \subseteq Users
  /\ pc \in [Procs -> Steps] /\ arg \in [Procs -> Codes \cup Mints \cup {None}]
  /\ good \in [Procs -> BOOLEAN]
  /\ fams \in [Procs -> SUBSET Mints] /\ ends \in [Procs -> SUBSET Sessions]
  /\ caught \subseteq Codes /\ overlooked \subseteq Codes

(* Two concurrent redemptions both reach the database and exactly one mints  *)
(* (codes.go:98): a code is the origin of at most one first mint.            *)
CodeRedeemedOnce ==
  \A m, n \in minted :
    origin[m] = origin[n] /\ parent[m] = None /\ parent[n] = None => m = n

(* Two concurrent refreshes cannot both succeed (refresh.go:105): a refresh  *)
(* token has at most one successor, and a family one token not yet spent.    *)
LineageIsLinear ==
  /\ \A m, n \in minted : parent[m] = parent[n] /\ parent[m] # None => m = n
  /\ \A m, n \in live : family[m] = family[n] => m = n

(* Reuse of a code or of a refresh token kills the lineage (codes.go:19,     *)
(* refresh.go:12): once the revocation has committed no refresh token that   *)
(* descends from the code is usable, not even one that a rotation already    *)
(* under way commits afterwards.  The exception is a code overlooked: the    *)
(* janitor deleted its row between ConsumeCode's read and the join of        *)
(* RevokeFamilyForCode, the request is answered, audited with no family      *)
(* revoked and committed (flow.go:605), and the lineage lives on until a     *)
(* later reuse is caught.  It takes a code replayed a day after it expired.  *)
ReuseKillsLineage ==
  /\ \A c \in caught \ overlooked :
       \A m \in live : origin[m] = c => family[m] \in revoked
  /\ overlooked \subseteq caught \cap purged

(* The usable refresh tokens of a code's lineage. *)
Usable == [c \in Codes |-> {m \in live : origin[m] = c /\ family[m] \notin revoked}]

Contract == INSTANCE GrantContract
              WITH usable <- Usable, redeemed <- {origin[m] : m \in minted}

(* Redemption, rotation and every revocation together implement one          *)
(* lineage per code that only ever moves forward and never comes back.       *)
OneLineagePerCode == Contract!Spec

(* Introspection makes three reads on three connections and still answers    *)
(* active only if the token was active when the request began, at one        *)
(* instant (tokenadmin.go:259): no revocation between its reads is missed.   *)
IntrospectionSound == \A p \in Procs : pc[p] = "active" => good[p]

(* A refresh token is reported active only if the refresh grant would have   *)
(* accepted it (tokenadmin.go:385).                                          *)
IntrospectionAgreesWithRefresh == \A p \in Procs : pc[p] = "activeRefresh" => good[p]

(* Refresh families follow their session (sessions.go:203): once a session   *)
(* is terminated none of its families is left live.                          *)
FamiliesFollowSession == \A s \in ended : FamiliesOf(s) \subseteq revoked

(* Failing to audit reuse does not stop the revocation (flow.go:618).        *)
RevocationSurvivesAuditFailure ==
  [][\A p \in Procs : AuditFails(p) => fams[p] \subseteq revoked']_vars
=============================================================================
