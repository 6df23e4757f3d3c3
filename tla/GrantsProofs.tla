---------------------------- MODULE GrantsProofs ----------------------------
(* Proofs about Grants for any number of codes, tokens, sessions and         *)
(* concurrent requests.                                                      *)
EXTENDS Grants, TLAPS

Refresh == live \cup spent

(* What a request carries is still in the tables. *)
ArgsExist ==
  \A p \in Procs :
    /\ pc[p] = "authorizing" => arg[p] \in Codes
    /\ pc[p] = "redeeming" => arg[p] \in issued
    /\ pc[p] \in {"codeReused", "revokingCode", "revokingNone"} => arg[p] \in consumed
    /\ pc[p] = "revokingNone" => arg[p] \in purged
    /\ pc[p] \in {"rotatable", "rotating", "tokenReused", "revokingToken"} => arg[p] \in Refresh

(* The row locks: what a transaction has consumed and not yet committed is   *)
(* unconsumed for everybody else, and nobody else has consumed it too.       *)
LocksHeld ==
  /\ \A p \in Procs : pc[p] = "redeeming" => arg[p] \notin consumed
  /\ \A p \in Procs : pc[p] = "rotating" => arg[p] \in live
  /\ \A p, q \in Procs :
       /\ pc[p] = "redeeming" /\ pc[q] = "redeeming" /\ arg[p] = arg[q] => p = q
       /\ pc[p] = "rotating" /\ pc[q] = "rotating" /\ arg[p] = arg[q] => p = q

(* Every mint descends from a consumed code, and every refresh token from    *)
(* the first token of its family.                                            *)
Descent ==
  /\ live \cap spent = {} /\ caught \subseteq consumed
  /\ revoked \subseteq minted /\ \A p \in Procs : fams[p] \subseteq minted
  /\ \A m \in minted : origin[m] \in consumed
  /\ \A m \in minted : parent[m] # None => parent[m] \in spent
  /\ \A m \in Mints \ minted : parent[m] = None /\ family[m] = None
  /\ \A m \in Refresh :
       /\ family[m] \in minted
       /\ family[family[m]] = family[m]
       /\ origin[family[m]] = origin[m]
       /\ parent[family[m]] = None

(* A transaction that found reuse holds the whole lineage. *)
ReuseInHand ==
  \A p \in Procs :
    /\ pc[p] = "revokingCode" =>
         \A m \in live : origin[m] = arg[p] => family[m] \in revoked \cup fams[p]
    /\ pc[p] = "revokingToken" => family[arg[p]] \in revoked \cup fams[p]

IInv ==
  /\ TypeOK /\ ArgsExist /\ LocksHeld /\ Descent
  /\ CodeRedeemedOnce /\ LineageIsLinear
  /\ ReuseInHand /\ ReuseKillsLineage

(* Nothing has been issued yet. *)
LEMMA InitIInv == Init => IInv
  BY GrantsAssumption, Zenon
  DEF Init, IInv, TypeOK, Steps, ArgsExist, LocksHeld, Descent, Refresh, CodeRedeemedOnce,
      LineageIsLinear, ReuseInHand, ReuseKillsLineage

(* A step that changes neither the codes, the tokens nor the revocations,    *)
(* and moves one request to a step that holds no row and has read no family. *)
LEMMA RequestMoves ==
  ASSUME IInv, NEW p \in Procs, NEW l \in Steps,
         l \notin {"redeeming", "rotating", "revokingCode", "revokingToken"},
         pc' = [pc EXCEPT ![p] = l],
         arg' \in [Procs -> Codes \cup Mints \cup {None}], good' \in [Procs -> BOOLEAN],
         fams' \in [Procs -> SUBSET minted], ends' \in [Procs -> SUBSET Sessions],
         \A q \in Procs \ {p} : arg'[q] = arg[q] /\ fams'[q] = fams[q],
         l = "authorizing" => arg'[p] \in Codes,
         l = "codeReused" => arg'[p] \in consumed,
         l = "revokingNone" => arg'[p] \in consumed \cap purged,
         l \in {"rotatable", "tokenReused"} => arg'[p] \in Refresh,
         UNCHANGED <<issued, consumed, tokens, revoked, history>>,
         UNCHANGED <<purged, denied, ended, expired, disabled>>
  PROVE  IInv'
<1>1. /\ pc'[p] = l /\ pc \in [Procs -> Steps]
      /\ \A q \in Procs \ {p} : pc'[q] = pc[q] /\ arg'[q] = arg[q] /\ fams'[q] = fams[q]
  BY Zenon DEF IInv, TypeOK
<1>2. TypeOK'
  <2>1. pc' \in [Procs -> Steps]
    BY <1>1, Zenon
  <2>2. fams' \in [Procs -> SUBSET Mints]
    <3>1. minted \subseteq Mints
      BY Zenon DEF IInv, TypeOK
    <3> QED
      BY <3>1, Zenon
  <2> QED
    BY <2>1, <2>2, Zenon DEF IInv, TypeOK, tokens, history
<1>3. ArgsExist'
  BY <1>1, Zenon DEF IInv, ArgsExist, Refresh, tokens, history
<1>4. LocksHeld'
  BY <1>1 DEF IInv, LocksHeld, tokens, history
<1>5. Descent'
  BY <1>1 DEF IInv, Descent, Refresh, tokens, history
<1>6. CodeRedeemedOnce' /\ LineageIsLinear' /\ ReuseKillsLineage'
  BY DEF IInv, CodeRedeemedOnce, LineageIsLinear, ReuseKillsLineage, tokens, history
<1>7. ReuseInHand'
  BY <1>1, Zenon DEF IInv, ReuseInHand, tokens, history
<1> QED
  BY <1>2, <1>3, <1>4, <1>5, <1>6, <1>7, Zenon DEF IInv

(* A step that moves no request and changes neither the codes' consumption,  *)
(* the tokens nor the revocations.                                           *)
LEMMA RequestsWait ==
  ASSUME IInv, UNCHANGED <<issued, consumed, tokens, revoked, history>>,
         UNCHANGED <<pc, arg, good, fams, ends>>, purged \subseteq purged',
         purged' \subseteq issued, denied' \subseteq minted, ended' \subseteq Sessions,
         expired' \subseteq Sessions, disabled' \subseteq Users
  PROVE  IInv'
<1>1. TypeOK'
  BY Zenon DEF IInv, TypeOK, tokens, history
<1>2. ArgsExist' /\ LocksHeld'
  BY Zenon DEF IInv, ArgsExist, LocksHeld, Refresh, tokens, history
<1>3. Descent'
  BY Zenon DEF IInv, Descent, Refresh, tokens, history
<1>4. CodeRedeemedOnce' /\ LineageIsLinear' /\ ReuseKillsLineage' /\ ReuseInHand'
  BY Zenon DEF IInv, CodeRedeemedOnce, LineageIsLinear, ReuseKillsLineage, ReuseInHand, tokens, history
<1> QED
  BY <1>1, <1>2, <1>3, <1>4, Zenon DEF IInv

(* Every step of every request keeps IInv. *)
LEMMA NextIInv == IInv /\ [Next]_vars => IInv'
<1> SUFFICES ASSUME IInv, [Next]_vars PROVE IInv'
  BY Zenon
<1> USE DEF tables, tokens, history
<1>0. /\ pc \in [Procs -> Steps] /\ arg \in [Procs -> Codes \cup Mints \cup {None}]
      /\ good \in [Procs -> BOOLEAN] /\ fams \in [Procs -> SUBSET minted]
      /\ ends \in [Procs -> SUBSET Sessions]
      /\ minted \subseteq Mints /\ Refresh \subseteq minted /\ consumed \subseteq Codes
      /\ overlooked \subseteq Codes /\ caught \subseteq Codes
      /\ family \in [Mints -> Mints \cup {None}] /\ origin \in [Mints -> Codes \cup {None}]
      /\ \A m \in Refresh : family[m] \in minted
      /\ \A m \in Mints : family[m] = m => m \in minted
  <2>1. fams \in [Procs -> SUBSET minted]
    BY Zenon DEF IInv, TypeOK, Descent
  <2>2. \A m \in Mints : family[m] = m => m \in minted
    BY GrantsAssumption DEF IInv, TypeOK, Descent
  <2> QED
    BY <2>1, <2>2, Zenon DEF IInv, TypeOK, Descent, Refresh
\* A request that ends without writing anything.
<1>a. ASSUME NEW p \in Procs, Finish(p), UNCHANGED <<tables, history>>
      PROVE  IInv'
  BY <1>a, <1>0, RequestMoves, Zenon DEF Finish, Steps
\* A request that starts, or goes on, without writing anything.
<1>b. ASSUME NEW p \in Procs, NEW x \in Codes \cup Mints, NEW g \in BOOLEAN, NEW l \in Steps,
             l \notin {"redeeming", "rotating", "revokingCode", "revokingNone", "revokingToken"},
             Begin(p, l, x, g), l = "authorizing" => x \in Codes,
             l = "codeReused" => x \in consumed, l \in {"rotatable", "tokenReused"} => x \in Refresh
      PROVE  IInv'
  BY <1>b, <1>0, RequestMoves, Zenon DEF Begin
<1>c. ASSUME NEW p \in Procs, NEW l \in Steps, Goto(p, l),
             l \notin {"authorizing", "redeeming", "codeReused", "rotating", "rotatable",
                      "revokingCode", "revokingNone", "revokingToken"},
             l = "tokenReused" => arg[p] \in Refresh
      PROVE  IInv'
  BY <1>c, <1>0, RequestMoves, Zenon DEF Goto
<1>1. ASSUME NEW p \in Procs, NEW c \in Codes, Authorize(p, c) PROVE IInv'
  BY <1>1, <1>b, Zenon DEF Authorize, Steps
<1>2. ASSUME NEW p \in Procs, AuditFails(p) PROVE IInv'
  BY <1>2, <1>a, Zenon DEF AuditFails
<1>3. ASSUME NEW p \in Procs, RollBack(p) \/ AnswerActive(p) PROVE IInv'
  BY <1>3, <1>0, <1>a, Zenon DEF RollBack, AnswerActive
<1>4. ASSUME NEW p \in Procs, NEW t \in Mints, RotateRefreshToken(p, t) PROVE IInv'
  <2>1. t \in Refresh /\ Rotatable(t) \in BOOLEAN
    BY <1>4, Zenon DEF RotateRefreshToken, Refresh, Rotatable, SessionLive
  <2> QED
    BY <1>4, <2>1, <1>b, Zenon DEF RotateRefreshToken, Steps
<1>5. ASSUME NEW p \in Procs, NEW m \in Mints,
             IntrospectAccessToken(p, m) \/ IntrospectRefreshToken(p, m)
      PROVE  IInv'
  <2>1. AccessActive(m) \in BOOLEAN /\ Rotatable(m) \in BOOLEAN
    BY Zenon DEF AccessActive, Rotatable, SessionLive
  <2> QED
    BY <1>5, <2>1, <1>b, Zenon DEF IntrospectAccessToken, IntrospectRefreshToken, Steps
<1>6. ASSUME NEW p \in Procs, CheckJTI(p) \/ CheckSession(p) PROVE IInv'
  BY <1>6, <1>0, <1>a, <1>c, Zenon DEF CheckJTI, CheckSession, Steps
<1>7. ASSUME NEW p \in Procs, NEW t \in Mints, RevokeRefreshToken(p, t) PROVE IInv'
  <2>1. fams' \in [Procs -> SUBSET minted]
    BY <1>7, <1>0, Zenon DEF RevokeRefreshToken, Refresh
  <2> QED
    BY <1>7, <1>0, <2>1, RequestMoves, Zenon DEF RevokeRefreshToken, Steps
<1>8. ASSUME NEW p \in Procs, NEW S \in SUBSET Sessions, NEW l \in {"terminating", "deactivating"},
             TerminateSessions(p, S, l)
      PROVE  IInv'
  <2>1. UNION {FamiliesOf(s) : s \in S} \subseteq minted
    BY <1>0, Zenon DEF FamiliesOf
  <2>2. fams' \in [Procs -> SUBSET minted]
    BY <1>8, <1>0, <2>1, Zenon DEF TerminateSessions
  <2>3. l \in Steps
    BY Zenon DEF Steps
  <2> QED
    BY <1>8, <1>0, <2>2, <2>3, RequestMoves, Zenon DEF TerminateSessions
<1>9. ASSUME NEW m \in Mints, RevokeJTI(m) PROVE IInv'
  BY <1>9, RequestsWait, Zenon DEF RevokeJTI, IInv, TypeOK
<1>10. ASSUME NEW u \in Users, WriteStatus(u) PROVE IInv'
  BY <1>10, RequestsWait, Zenon DEF WriteStatus, SetStatus, SessionsOf, IInv, TypeOK
<1>11. ASSUME NEW s \in Sessions, ExpireSession(s) PROVE IInv'
  BY <1>11, RequestsWait, Zenon DEF ExpireSession, IInv, TypeOK
<1>12. ASSUME NEW C \in SUBSET Codes, PurgeExpiredCodes(C) PROVE IInv'
  BY <1>12, RequestsWait, Zenon DEF PurgeExpiredCodes, IInv, TypeOK
<1>13. ASSUME UNCHANGED vars PROVE IInv'
  BY <1>13, RequestsWait, Zenon DEF vars, IInv, TypeOK
\* The steps that write the codes, the tokens or the revocations, or lock a row.
\* First what they do to the requests: all but one are left alone.
<1>d. ASSUME NEW p \in Procs, Finish(p)
      PROVE  /\ pc' \in [Procs -> Steps] /\ arg' \in [Procs -> Codes \cup Mints \cup {None}]
             /\ good' \in [Procs -> BOOLEAN] /\ fams' \in [Procs -> SUBSET minted]
             /\ ends' \in [Procs -> SUBSET Sessions]
             /\ pc'[p] = "idle" /\ \A q \in Procs : fams'[q] \subseteq minted
             /\ \A q \in Procs \ {p} : pc'[q] = pc[q] /\ arg'[q] = arg[q] /\ fams'[q] = fams[q]
  BY <1>d, <1>0, Zenon DEF Finish, Steps
<1>14. ASSUME NEW p \in Procs, IssueCode(p) PROVE IInv'
  <2>1. /\ Finish(p) /\ issued \subseteq issued' /\ issued' \subseteq Codes
        /\ UNCHANGED <<purged, consumed, tokens, revoked, denied, ended, expired, disabled,
                       history>>
    BY <1>14, Zenon DEF IssueCode, IInv, TypeOK, ArgsExist
  <2>2. TypeOK'
    BY <2>1, <1>0, <1>d, Zenon DEF IInv, TypeOK
  <2>3. ArgsExist' /\ LocksHeld'
    BY <2>1, <1>d DEF IInv, ArgsExist, LocksHeld, Refresh
  <2>4. Descent'
    BY <2>1, <1>d, Zenon DEF IInv, Descent, Refresh
  <2>5. CodeRedeemedOnce' /\ LineageIsLinear' /\ ReuseKillsLineage'
    BY <2>1, Zenon DEF IInv, CodeRedeemedOnce, LineageIsLinear, ReuseKillsLineage
  <2>6. ReuseInHand'
    BY <2>1, <1>d, Zenon DEF IInv, ReuseInHand
  <2> QED
    BY <2>2, <2>3, <2>4, <2>5, <2>6, Zenon DEF IInv
<1>15. ASSUME NEW p \in Procs, NEW c \in Codes, ConsumeCode(p, c) PROVE IInv'
  <2>1. CASE c \in consumed
    BY <1>15, <2>1, <1>b, Zenon DEF ConsumeCode, Steps
  <2>2. CASE c \notin consumed
    <3>1. /\ c \in issued /\ \A q \in Procs : pc[q] = "redeeming" => arg[q] # c
          /\ pc' = [pc EXCEPT ![p] = "redeeming"] /\ arg' = [arg EXCEPT ![p] = c]
          /\ good' = [good EXCEPT ![p] = FALSE]
          /\ UNCHANGED <<tables, fams, ends, history>>
      BY <1>15, <2>2, Zenon DEF ConsumeCode, Begin, Locked
    <3>2. /\ pc' \in [Procs -> Steps] /\ arg' \in [Procs -> Codes \cup Mints \cup {None}]
          /\ good' \in [Procs -> BOOLEAN] /\ pc'[p] = "redeeming" /\ arg'[p] = c
          /\ \A q \in Procs \ {p} : pc'[q] = pc[q] /\ arg'[q] = arg[q]
      BY <3>1, <1>0, Zenon DEF Steps
    <3>3. TypeOK'
      BY <3>1, <3>2, Zenon DEF IInv, TypeOK
    <3>4. ArgsExist'
      BY <3>1, <3>2, Zenon DEF IInv, ArgsExist, Refresh
    <3>5. LocksHeld'
      BY <2>2, <3>1, <3>2 DEF IInv, LocksHeld
    <3>6. Descent'
      BY <3>1, Zenon DEF IInv, Descent, Refresh
    <3>7. CodeRedeemedOnce' /\ LineageIsLinear' /\ ReuseKillsLineage'
      BY <3>1, Zenon DEF IInv, CodeRedeemedOnce, LineageIsLinear, ReuseKillsLineage
    <3>8. ReuseInHand'
      BY <3>1, <3>2, Zenon DEF IInv, ReuseInHand
    <3> QED
      BY <3>3, <3>4, <3>5, <3>6, <3>7, <3>8, Zenon DEF IInv
  <2> QED
    BY <2>1, <2>2, Zenon
<1>16. ASSUME NEW p \in Procs, RefuseRedemption(p) PROVE IInv'
  <2>1. /\ pc[p] = "redeeming" /\ arg[p] \in issued /\ consumed' = consumed \cup {arg[p]}
        /\ Finish(p)
        /\ UNCHANGED <<issued, purged, tokens, revoked, denied, ended, expired, disabled,
                       history>>
    BY <1>16, Zenon DEF RefuseRedemption, IInv, ArgsExist
  <2>2. TypeOK'
    BY <2>1, <1>0, <1>d, Zenon DEF IInv, TypeOK
  <2>3. ArgsExist' /\ LocksHeld'
    BY <2>1, <1>d DEF IInv, ArgsExist, LocksHeld, Refresh
  <2>4. Descent'
    BY <2>1, <1>d, Zenon DEF IInv, Descent, Refresh
  <2>5. CodeRedeemedOnce' /\ LineageIsLinear' /\ ReuseKillsLineage'
    BY <2>1, Zenon DEF IInv, CodeRedeemedOnce, LineageIsLinear, ReuseKillsLineage
  <2>6. ReuseInHand'
    BY <2>1, <1>d, Zenon DEF IInv, ReuseInHand
  <2> QED
    BY <2>2, <2>3, <2>4, <2>5, <2>6, Zenon DEF IInv
<1>17. ASSUME NEW p \in Procs, RevokeFamilyForCode(p) PROVE IInv'
  <2>1. FamiliesLike(arg[p]) \subseteq minted
    BY <1>0, Zenon DEF FamiliesLike, FamiliesOf
  <2>2. CASE arg[p] \in purged
    <3>1. fams' \in [Procs -> SUBSET minted]
      BY <1>17, <2>2, <1>0, Zenon DEF RevokeFamilyForCode
    <3>2. arg[p] \in consumed
      BY <1>17, Zenon DEF RevokeFamilyForCode, IInv, ArgsExist
    <3> QED
      BY <1>17, <2>2, <3>1, <3>2, <1>0, RequestMoves, Zenon DEF RevokeFamilyForCode, Steps
  <2>3. CASE arg[p] \notin purged
    <3>1. /\ pc[p] = "codeReused" /\ arg[p] \in consumed /\ arg[p] \in Codes
          /\ pc' = [pc EXCEPT ![p] = "revokingCode"]
          /\ fams' = [fams EXCEPT ![p] = FamiliesLike(arg[p]) \ revoked]
          /\ UNCHANGED <<tables, arg, good, ends, history>>
      BY <1>17, <2>3, <1>0, Zenon DEF RevokeFamilyForCode, IInv, ArgsExist
    <3>2. /\ pc' \in [Procs -> Steps] /\ fams' \in [Procs -> SUBSET minted]
          /\ pc'[p] = "revokingCode" /\ fams'[p] = FamiliesLike(arg[p]) \ revoked
          /\ \A q \in Procs \ {p} : pc'[q] = pc[q] /\ fams'[q] = fams[q]
      BY <3>1, <2>1, <1>0, Zenon DEF Steps
    <3>3. \A m \in live : origin[m] = arg[p] => family[m] \in FamiliesLike(arg[p])
      BY <3>1, <1>0, Zenon DEF FamiliesLike, FamiliesOf, IInv, Descent, Refresh
    <3>4. TypeOK'
      BY <3>1, <3>2, <1>0, Zenon DEF IInv, TypeOK
    <3>5. ArgsExist' /\ LocksHeld'
      BY <3>1, <3>2 DEF IInv, ArgsExist, LocksHeld, Refresh
    <3>6. Descent'
      BY <3>1, <3>2, Zenon DEF IInv, Descent, Refresh
    <3>7. CodeRedeemedOnce' /\ LineageIsLinear' /\ ReuseKillsLineage'
      BY <3>1, Zenon DEF IInv, CodeRedeemedOnce, LineageIsLinear, ReuseKillsLineage
    <3>8. ReuseInHand'
      BY <3>1, <3>2, <3>3 DEF IInv, ReuseInHand
    <3> QED
      BY <3>4, <3>5, <3>6, <3>7, <3>8, Zenon DEF IInv
  <2> QED
    BY <2>2, <2>3, Zenon
<1>18. ASSUME NEW p \in Procs, NEW m \in Mints, MintTokens(p, m) PROVE IInv'
  <2> DEFINE c == arg[p]
  <2>0. /\ pc[p] = "redeeming" /\ m \notin minted /\ c \in issued /\ c \in Codes /\ c \notin consumed
        /\ consumed' = consumed \cup {c} /\ minted' = minted \cup {m}
        /\ live' = (IF c \in Offline THEN live \cup {m} ELSE live)
        /\ origin' = [origin EXCEPT ![m] = c]
        /\ family' = [family EXCEPT ![m] = IF c \in Offline THEN m ELSE None]
        /\ Finish(p)
        /\ UNCHANGED <<issued, purged, spent, parent, revoked, denied, ended, expired, disabled,
                       history>>
    BY <1>18, Zenon DEF MintTokens, IInv, TypeOK, ArgsExist, LocksHeld
  <2>1. TypeOK'
    BY <2>0, <1>0, <1>d, Zenon DEF IInv, TypeOK
  <2>2. ArgsExist' /\ LocksHeld'
    BY <2>0, <1>d DEF IInv, ArgsExist, LocksHeld, Refresh
  <2>3. \A n \in minted : n # m /\ origin'[n] = origin[n] /\ family'[n] = family[n] /\ origin[n] # c
    BY <2>0, <1>0 DEF IInv, Descent
  <2>4. origin'[m] = c /\ parent'[m] = None /\ (m \in live' => family'[m] = m)
    BY <2>0, <1>0, Zenon DEF IInv, Descent, TypeOK
  <2>5. Descent'
    <3>1. /\ live' \cap spent' = {} /\ caught' \subseteq consumed' /\ revoked' \subseteq minted'
          /\ \A q \in Procs : fams'[q] \subseteq minted'
      BY <2>0, <1>d DEF IInv, TypeOK, Descent
    <3>2. \A n \in minted' : origin'[n] \in consumed' /\ (parent'[n] # None => parent'[n] \in spent')
      BY <2>0, <2>3, <2>4 DEF IInv, Descent
    <3>3. \A n \in Mints \ minted' : parent'[n] = None /\ family'[n] = None
      BY <2>0, <1>0 DEF IInv, Descent
    <3>4. \A n \in Refresh' : /\ family'[n] \in minted' /\ family'[family'[n]] = family'[n]
                              /\ origin'[family'[n]] = origin'[n] /\ parent'[family'[n]] = None
      BY <2>0, <2>3, <2>4, <1>0 DEF IInv, Descent, Refresh
    <3> QED
      BY <3>1, <3>2, <3>3, <3>4, Zenon DEF Descent
  <2>6. CodeRedeemedOnce'
    BY <2>0, <2>3, <2>4 DEF IInv, CodeRedeemedOnce
  <2>7. LineageIsLinear'
    BY <2>0, <2>3, <2>4, <1>0 DEF IInv, LineageIsLinear, Descent, Refresh, TypeOK
  <2>8. ReuseInHand'
    <3> SUFFICES ASSUME NEW q \in Procs \ {p}
                 PROVE  /\ pc[q] = "revokingCode" => \A n \in live' :
                             origin'[n] = arg[q] => family'[n] \in revoked \cup fams[q]
                        /\ pc[q] = "revokingToken" => family'[arg[q]] \in revoked \cup fams[q]
      BY <2>0, <1>d, Zenon DEF ReuseInHand
    <3>1. pc[q] = "revokingCode" => arg[q] # c
      BY <2>0, Zenon DEF IInv, ArgsExist
    <3>2. pc[q] = "revokingToken" => arg[q] \in minted
      BY <1>0, Zenon DEF IInv, ArgsExist
    <3>3. \A n \in live' : n = m \/ (n \in live /\ n \in minted)
      BY <2>0, Zenon DEF IInv, TypeOK
    <3> QED
      BY <2>3, <2>4, <3>1, <3>2, <3>3, Zenon DEF IInv, ReuseInHand
  <2>9. ReuseKillsLineage'
    BY <2>0, <2>3, <2>4 DEF IInv, ReuseKillsLineage, Descent, TypeOK
  <2> QED
    BY <2>1, <2>2, <2>5, <2>6, <2>7, <2>8, <2>9, Zenon DEF IInv
<1>19. ASSUME NEW p \in Procs, RotateRow(p) PROVE IInv'
  <2>1. CASE arg[p] \in live /\ ~Locked(arg[p]) /\ Goto(p, "rotating")
    <3>1. /\ arg[p] \in Refresh /\ \A q \in Procs : pc[q] = "rotating" => arg[q] # arg[p]
          /\ pc' \in [Procs -> Steps] /\ pc'[p] = "rotating"
          /\ \A q \in Procs \ {p} : pc'[q] = pc[q]
          /\ UNCHANGED <<tables, arg, good, fams, ends, history>>
      BY <2>1, <1>0, Zenon DEF Goto, Locked, Refresh, Steps
    <3>2. TypeOK'
      BY <3>1, Zenon DEF IInv, TypeOK
    <3>3. ArgsExist'
      BY <3>1 DEF IInv, ArgsExist, Refresh
    <3>4. LocksHeld'
      BY <2>1, <3>1 DEF IInv, LocksHeld
    <3>5. Descent'
      BY <3>1, Zenon DEF IInv, Descent, Refresh
    <3>6. CodeRedeemedOnce' /\ LineageIsLinear' /\ ReuseKillsLineage'
      BY <3>1, Zenon DEF IInv, CodeRedeemedOnce, LineageIsLinear, ReuseKillsLineage
    <3>7. ReuseInHand'
      BY <3>1, Zenon DEF IInv, ReuseInHand
    <3> QED
      BY <3>2, <3>3, <3>4, <3>5, <3>6, <3>7, Zenon DEF IInv
  <2>2. CASE arg[p] \in spent /\ Goto(p, "tokenReused")
    BY <2>2, <1>c, Zenon DEF Refresh, Steps
  <2> QED
    BY <1>19, <1>0, <2>1, <2>2, <1>a, Zenon DEF RotateRow
<1>20. ASSUME NEW p \in Procs, NEW m \in Mints, MintFromGrant(p, m) PROVE IInv'
  <2> DEFINE t == arg[p]
  <2>0. /\ pc[p] = "rotating" /\ m \notin minted /\ t \in live /\ t \in minted /\ t # m
        /\ live' = (live \ {t}) \cup {m} /\ spent' = spent \cup {t} /\ minted' = minted \cup {m}
        /\ origin' = [origin EXCEPT ![m] = origin[t]]
        /\ parent' = [parent EXCEPT ![m] = t]
        /\ family' = [family EXCEPT ![m] = family[t]]
        /\ Finish(p)
        /\ UNCHANGED <<issued, purged, consumed, revoked, denied, ended, expired, disabled,
                       history>>
    BY <1>20, Zenon DEF MintFromGrant, IInv, TypeOK, LocksHeld
  <2>1. TypeOK'
    BY <2>0, <1>0, <1>d DEF IInv, TypeOK
  <2>2. ArgsExist'
    BY <2>0, <1>d, Zenon DEF IInv, ArgsExist, Refresh
  <2>3. LocksHeld'
    BY <2>0, <1>d DEF IInv, LocksHeld
  <2>4. \A n \in minted : /\ n # m /\ origin'[n] = origin[n]
                         /\ family'[n] = family[n] /\ parent'[n] = parent[n]
    BY <2>0, <1>0 DEF IInv, TypeOK
  <2>5. origin'[m] = origin[t] /\ parent'[m] = t /\ family'[m] = family[t] /\ t # None
    BY <2>0, <1>0, GrantsAssumption DEF IInv, TypeOK
  <2>6. \A n \in minted : parent[n] # t
    BY <2>0, <2>5, Zenon DEF IInv, Descent
  <2>7. Descent'
    <3>1. /\ live' \cap spent' = {} /\ caught' \subseteq consumed' /\ revoked' \subseteq minted'
          /\ \A q \in Procs : fams'[q] \subseteq minted'
      BY <2>0, <1>d DEF IInv, TypeOK, Descent
    <3>2. \A n \in minted' : origin'[n] \in consumed' /\ (parent'[n] # None => parent'[n] \in spent')
      BY <2>0, <2>4, <2>5 DEF IInv, Descent
    <3>3. \A n \in Mints \ minted' : parent'[n] = None /\ family'[n] = None
      BY <2>0, <1>0, Zenon DEF IInv, TypeOK, Descent
    <3>4. \A n \in Refresh : /\ family'[n] \in minted /\ family'[family'[n]] = family'[n]
                             /\ origin'[family'[n]] = origin'[n] /\ parent'[family'[n]] = None
      BY <2>4, <1>0 DEF IInv, Descent
    <3>5. t \in Refresh /\ Refresh' = Refresh \cup {m}
      BY <2>0, Zenon DEF Refresh
    <3>6. /\ family'[m] \in minted /\ family'[family'[m]] = family'[m]
          /\ origin'[family'[m]] = origin'[m] /\ parent'[family'[m]] = None
      BY <2>0, <2>4, <2>5, <3>4, <3>5
    <3> QED
      BY <2>0, <3>1, <3>2, <3>3, <3>4, <3>5, <3>6 DEF Descent
  <2>8. CodeRedeemedOnce'
    BY <2>0, <2>4, <2>5 DEF IInv, CodeRedeemedOnce
  <2>9. LineageIsLinear'
    BY <2>0, <2>4, <2>5, <2>6 DEF IInv, TypeOK, LineageIsLinear
  <2>10. ReuseInHand'
    BY <2>0, <2>4, <2>5, <1>0, <1>d DEF IInv, ReuseInHand, ArgsExist, TypeOK
  <2>11. ReuseKillsLineage'
    BY <2>0, <2>4, <2>5 DEF IInv, ReuseKillsLineage, TypeOK
  <2> QED
    BY <2>1, <2>2, <2>3, <2>7, <2>8, <2>9, <2>10, <2>11, Zenon DEF IInv
<1>21. ASSUME NEW p \in Procs, RevokeFamilyByToken(p) PROVE IInv'
  <2>1. /\ pc[p] = "tokenReused" /\ arg[p] \in Refresh /\ family[arg[p]] \in minted
        /\ pc' = [pc EXCEPT ![p] = "revokingToken"]
        /\ fams' = [fams EXCEPT ![p] = {family[arg[p]]} \ revoked]
        /\ UNCHANGED <<tables, arg, good, ends, history>>
    BY <1>21, <1>0, Zenon DEF RevokeFamilyByToken, IInv, ArgsExist
  <2>2. /\ pc' \in [Procs -> Steps] /\ fams' \in [Procs -> SUBSET minted]
        /\ pc'[p] = "revokingToken" /\ fams'[p] = {family[arg[p]]} \ revoked
        /\ \A q \in Procs \ {p} : pc'[q] = pc[q] /\ fams'[q] = fams[q]
    BY <2>1, <1>0, Zenon DEF Steps
  <2>3. TypeOK'
    BY <2>1, <2>2, <1>0, Zenon DEF IInv, TypeOK
  <2>4. ArgsExist' /\ LocksHeld'
    BY <2>1, <2>2, ZenonT(30) DEF IInv, ArgsExist, LocksHeld, Refresh
  <2>5. Descent'
    BY <2>1, <2>2, Zenon DEF IInv, Descent, Refresh
  <2>6. CodeRedeemedOnce' /\ LineageIsLinear' /\ ReuseKillsLineage'
    BY <2>1, Zenon DEF IInv, CodeRedeemedOnce, LineageIsLinear, ReuseKillsLineage
  <2>7. ReuseInHand'
    BY <2>1, <2>2, Zenon DEF IInv, ReuseInHand
  <2> QED
    BY <2>3, <2>4, <2>5, <2>6, <2>7, Zenon DEF IInv
<1>22. ASSUME NEW p \in Procs, CommitRevocation(p) PROVE IInv'
  <2>0. /\ revoked' = revoked \cup fams[p] /\ ended' = ended \cup ends[p] /\ Finish(p)
        /\ UNCHANGED <<issued, purged, consumed, tokens, denied, expired>>
    BY <1>22, Zenon DEF CommitRevocation
  <2>1. disabled' \subseteq Users
    BY <1>22, <1>0, Zenon DEF CommitRevocation, Users, IInv, TypeOK
  <2>2. /\ caught' = caught \cup Reused(p) /\ Reused(p) \subseteq consumed
        /\ overlooked' \subseteq caught' \cap purged
    <3>1. Reused(p) \subseteq consumed
      BY <1>0 DEF Reused, IInv, ArgsExist, Descent
    <3>2. overlooked' \subseteq caught' \cap purged
      <4>1. CASE pc[p] = "revokingNone"
        <5>1. Reused(p) \subseteq purged
          BY <4>1 DEF Reused, IInv, ArgsExist
        <5> QED
          BY <1>22, <4>1, <5>1 DEF CommitRevocation, IInv, ReuseKillsLineage
      <4>2. CASE pc[p] # "revokingNone"
        BY <1>22, <4>2 DEF CommitRevocation, IInv, ReuseKillsLineage
      <4> QED
        BY <4>1, <4>2
    <3> QED
      BY <1>22, <3>1, <3>2, Zenon DEF CommitRevocation
  \* A code caught now, or overlooked until now, whose lineage is now revoked.
  <2>r. pc[p] # "revokingNone" =>
           \A c \in Reused(p) : \A m \in live : origin[m] = c => family[m] \in revoked'
    <3>1. CASE pc[p] = "revokingCode"
      <4>1. Reused(p) = {arg[p]}
        BY <3>1 DEF Reused
      <4>2. \A m \in live : origin[m] = arg[p] => family[m] \in revoked'
        BY <2>0, <3>1, Zenon DEF IInv, ReuseInHand
      <4> QED
        BY <4>1, <4>2
    <3>2. CASE pc[p] = "revokingToken"
      <4>1. Reused(p) = {origin[arg[p]]}
        BY <3>2 DEF Reused
      <4>2. arg[p] \in Refresh /\ family[arg[p]] \in revoked'
        BY <2>0, <3>2, Zenon DEF IInv, ReuseInHand, ArgsExist
      <4>3. \A m \in live : origin[m] = origin[arg[p]] => family[m] = family[arg[p]]
        BY <4>2, <1>0 DEF IInv, Descent, Refresh, CodeRedeemedOnce
      <4> QED
        BY <4>1, <4>2, <4>3, Zenon
    <3>3. CASE pc[p] \notin {"revokingCode", "revokingNone", "revokingToken"}
      BY <3>3 DEF Reused
    <3> QED
      BY <3>1, <3>2, <3>3, Zenon
  <2>s. \A c \in caught' \ overlooked' :
           c \in caught \ overlooked \/ (pc[p] # "revokingNone" /\ c \in Reused(p))
    BY <1>22, <2>2 DEF CommitRevocation
  <2>3. TypeOK'
    BY <2>0, <2>1, <2>2, <1>0, <1>d, Zenon DEF IInv, TypeOK
  <2>4. ArgsExist' /\ LocksHeld'
    BY <2>0, <1>d DEF IInv, ArgsExist, LocksHeld, Refresh
  <2>5. Descent'
    BY <2>0, <2>2, <1>0, <1>d DEF IInv, Descent, Refresh
  <2>6. CodeRedeemedOnce' /\ LineageIsLinear'
    BY <2>0, Zenon DEF IInv, CodeRedeemedOnce, LineageIsLinear
  <2>7. ReuseInHand'
    BY <2>0, <1>d, Zenon DEF IInv, ReuseInHand
  <2>8. ReuseKillsLineage'
    BY <2>0, <2>2, <2>r, <2>s, Zenon DEF IInv, ReuseKillsLineage
  <2> QED
    BY <2>3, <2>4, <2>5, <2>6, <2>7, <2>8, Zenon DEF IInv
<1>23. ASSUME NEW p \in Procs, Request(p) PROVE IInv'
  <2>1. \A u \in Users : SessionsOf(u) \in SUBSET Sessions
    BY Zenon DEF SessionsOf
  <2> HIDE DEF IInv
  <2> QED
    BY <1>23, <2>1, <1>1, <1>2, <1>3, <1>4, <1>5, <1>6, <1>7, <1>8, <1>14, <1>15, <1>16, <1>17,
       <1>18, <1>19, <1>20, <1>21, <1>22, Zenon DEF Request
<1> QED
  BY <1>9, <1>10, <1>11, <1>12, <1>13, <1>23, Zenon DEF Next

(* The tables stay well formed: in particular only issued codes are consumed *)
(* and only minted tokens are denied.                                        *)
THEOREM TypeCorrect == Spec => []TypeOK
<1>1. IInv => TypeOK
  BY Zenon DEF IInv
<1> QED
  BY InitIInv, NextIInv, <1>1, PTL DEF Spec

(* However many requests redeem the same code at once, tokens are minted     *)
(* from it at most once.                                                     *)
THEOREM CodesAreSingleUse == Spec => []CodeRedeemedOnce
<1>1. IInv => CodeRedeemedOnce
  BY Zenon DEF IInv
<1> QED
  BY InitIInv, NextIInv, <1>1, PTL DEF Spec

(* Refresh tokens are single-use too, so a lineage never forks.              *)
THEOREM LineagesDoNotFork == Spec => []LineageIsLinear
<1>1. IInv => LineageIsLinear
  BY Zenon DEF IInv
<1> QED
  BY InitIInv, NextIInv, <1>1, PTL DEF Spec

(* Once the answer to a replayed code or refresh token has committed, the    *)
(* lineage is dead, whatever redemptions and rotations overlap it, and the   *)
(* one case in which it is not is a replayed code whose row the janitor      *)
(* deleted while the request was looking (RevokeFamilyForCode's join).       *)
THEOREM ReplayIsFatal == Spec => []ReuseKillsLineage
<1>1. IInv => ReuseKillsLineage
  BY Zenon DEF IInv
<1> QED
  BY InitIInv, NextIInv, <1>1, PTL DEF Spec

-----------------------------------------------------------------------------
(* Introspection. *)

(* Revocations are never undone, so what a later read still finds in order   *)
(* was in order when the first read was made.                                *)
ReadsSoFar ==
  \A p \in Procs :
    /\ pc[p] = "checkJTI" =>
         (arg[p] \notin denied /\ SessionLive(SidOf[origin[arg[p]]]) => good[p])
    /\ pc[p] = "checkSession" => (SessionLive(SidOf[origin[arg[p]]]) => good[p])
    /\ pc[p] \in {"checkJTI", "checkSession"} => arg[p] \in minted
    /\ pc[p] = "active" => good[p]

(* A step that writes none of the tables introspection reads, and leaves     *)
(* every request alone but one, which is not introspecting afterwards.       *)
LEMMA ReadsUndisturbed ==
  ASSUME IInv, ReadsSoFar, NEW p \in Procs, NEW l \in Steps,
         l \notin {"checkJTI", "checkSession", "active"},
         pc' = [pc EXCEPT ![p] = l],
         \A q \in Procs \ {p} : arg'[q] = arg[q] /\ good'[q] = good[q],
         denied' = denied, expired' = expired, ended \subseteq ended', minted \subseteq minted',
         \A m \in minted : origin'[m] = origin[m]
  PROVE  ReadsSoFar'
  BY DEF ReadsSoFar, SessionLive, IInv, TypeOK

(* Revocation and expiry only ever make introspection answer inactive. *)
LEMMA NextReads == IInv /\ ReadsSoFar /\ [Next]_vars => ReadsSoFar'
<1> SUFFICES ASSUME IInv, ReadsSoFar, [Next]_vars PROVE ReadsSoFar'
  BY Zenon
<1> USE DEF tables, tokens, history
<1>0. /\ pc \in [Procs -> Steps] /\ arg \in [Procs -> Codes \cup Mints \cup {None}]
      /\ good \in [Procs -> BOOLEAN] /\ origin \in [Mints -> Codes \cup {None}] /\ minted \subseteq Mints
  BY Zenon DEF IInv, TypeOK
<1>a. ASSUME NEW p \in Procs, Finish(p), UNCHANGED <<tables, history>> PROVE ReadsSoFar'
  BY <1>a, <1>0, ReadsUndisturbed, Zenon DEF Finish, Steps
<1>1. ASSUME NEW p \in Procs, NEW c \in Codes, Authorize(p, c) \/ ConsumeCode(p, c)
      PROVE  ReadsSoFar'
  BY <1>1, <1>0, ReadsUndisturbed, Zenon DEF Authorize, ConsumeCode, Begin, Steps
<1>2. ASSUME NEW p \in Procs,
             IssueCode(p) \/ RefuseRedemption(p) \/ AuditFails(p) \/ CommitRevocation(p)
      PROVE  ReadsSoFar'
  BY <1>2, <1>0, ReadsUndisturbed, Zenon
  DEF IssueCode, RefuseRedemption, AuditFails, CommitRevocation, Finish, Steps
<1>3. ASSUME NEW p \in Procs, NEW m \in Mints, MintTokens(p, m) \/ MintFromGrant(p, m)
      PROVE  ReadsSoFar'
  BY <1>3, <1>0, ReadsUndisturbed DEF MintTokens, MintFromGrant, Finish, Steps
<1>4. ASSUME NEW p \in Procs, RevokeFamilyForCode(p) \/ RevokeFamilyByToken(p) PROVE ReadsSoFar'
  BY <1>4, <1>0, ReadsUndisturbed, Zenon DEF RevokeFamilyForCode, RevokeFamilyByToken, Steps
<1>5. ASSUME NEW p \in Procs, NEW t \in Mints, RotateRefreshToken(p, t) \/ IntrospectRefreshToken(p, t)
      PROVE  ReadsSoFar'
  BY <1>5, <1>0, ReadsUndisturbed, Zenon DEF RotateRefreshToken, IntrospectRefreshToken, Begin, Steps
<1>6. ASSUME NEW p \in Procs, NEW t \in Mints, RevokeRefreshToken(p, t) PROVE ReadsSoFar'
  BY <1>6, <1>0, ReadsUndisturbed, Zenon DEF RevokeRefreshToken, Steps
<1>7. ASSUME NEW p \in Procs, NEW S \in SUBSET Sessions, NEW l \in {"terminating", "deactivating"},
             TerminateSessions(p, S, l)
      PROVE  ReadsSoFar'
  BY <1>7, <1>0, ReadsUndisturbed, Zenon DEF TerminateSessions, Steps
<1>8. ASSUME NEW p \in Procs, RotateRow(p) PROVE ReadsSoFar'
  <2>1. ASSUME NEW l \in {"tokenReused", "rotating"}, Goto(p, l) PROVE ReadsSoFar'
    BY <2>1, <1>0, ReadsUndisturbed, Zenon DEF Goto, Steps
  <2> QED
    BY <1>8, <2>1, <1>a, Zenon DEF RotateRow
<1>9. ASSUME NEW p \in Procs, RollBack(p) \/ AnswerActive(p) PROVE ReadsSoFar'
  BY <1>9, <1>a, Zenon DEF RollBack, AnswerActive
<1>10. ASSUME NEW p \in Procs, NEW m \in Mints, IntrospectAccessToken(p, m) PROVE ReadsSoFar'
  BY <1>10, <1>0, Zenon DEF IntrospectAccessToken, Begin, AccessActive, SessionLive, ReadsSoFar
<1>11. ASSUME NEW p \in Procs, CheckJTI(p) PROVE ReadsSoFar'
  <2>1. CASE arg[p] \notin denied /\ Goto(p, "checkSession")
    BY <1>11, <2>1, <1>0, Zenon DEF CheckJTI, Goto, SessionLive, ReadsSoFar
  <2> QED
    BY <1>11, <2>1, <1>a, Zenon DEF CheckJTI
<1>12. ASSUME NEW p \in Procs, CheckSession(p) PROVE ReadsSoFar'
  <2>1. CASE SessionLive(SidOf[origin[arg[p]]]) /\ pc[p] = "checkSession" /\ Goto(p, "active")
    BY <2>1, <1>0, Zenon DEF Goto, SessionLive, ReadsSoFar
  <2>2. CASE Goto(p, "activeRefresh")
    BY <2>2, <1>0, ReadsUndisturbed, Zenon DEF Goto, Steps
  <2> QED
    BY <1>12, <2>1, <2>2, <1>a, Zenon DEF CheckSession
<1>13. ASSUME NEW m \in Mints, RevokeJTI(m) PROVE ReadsSoFar'
  BY <1>13, Zenon DEF RevokeJTI, ReadsSoFar, SessionLive
<1>14. ASSUME NEW u \in Users, WriteStatus(u) PROVE ReadsSoFar'
  BY <1>14, Zenon DEF WriteStatus, SetStatus, ReadsSoFar, SessionLive
<1>15. ASSUME NEW s \in Sessions, ExpireSession(s) PROVE ReadsSoFar'
  BY <1>15, ZenonT(30) DEF ExpireSession, ReadsSoFar, SessionLive
<1>16. ASSUME NEW C \in SUBSET Codes, PurgeExpiredCodes(C) PROVE ReadsSoFar'
  BY <1>16, Zenon DEF PurgeExpiredCodes, ReadsSoFar, SessionLive
<1>17. ASSUME UNCHANGED vars PROVE ReadsSoFar'
  BY <1>17, Zenon DEF vars, ReadsSoFar, SessionLive
<1>18. ASSUME NEW p \in Procs, Request(p) PROVE ReadsSoFar'
  <2>1. \A s \in Sessions : {s} \in SUBSET Sessions
    BY Zenon
  <2>2. \A u \in Users : SessionsOf(u) \in SUBSET Sessions
    BY Zenon DEF SessionsOf
  <2> QED
    BY <1>18, <2>1, <2>2, <1>1, <1>2, <1>3, <1>4, <1>5, <1>6, <1>7, <1>8, <1>9, <1>10, <1>11, <1>12, Zenon
    DEF Request
<1> QED
  BY <1>13, <1>14, <1>15, <1>16, <1>17, <1>18, Zenon DEF Next

(* Introspection's three separate reads give the answer of a single          *)
(* consistent one made when the request began, whatever is revoked between.  *)
THEOREM ActiveMeansActive == Spec => []IntrospectionSound
<1>1. Init => ReadsSoFar
  BY Zenon DEF Init, ReadsSoFar
<1>2. ReadsSoFar => IntrospectionSound
  BY Zenon DEF ReadsSoFar, IntrospectionSound
<1> QED
  BY InitIInv, NextIInv, NextReads, <1>1, <1>2, PTL DEF Spec

-----------------------------------------------------------------------------
(* The usable tokens of a lineage, and the codes that have one. *)
Lineage == <<Usable, {origin[m] : m \in minted}, minted>>

(* Every step of the server is a step of the contract, or invisible to it. *)
LEMMA StepsRefine == IInv /\ [Next]_vars => [Contract!Next]_Lineage
<1> SUFFICES ASSUME IInv, [Next]_vars PROVE Contract!Next \/ UNCHANGED Lineage
  BY Zenon DEF Lineage
<1> USE DEF tables, tokens, history
<1>0. /\ minted \subseteq Mints /\ live \subseteq minted /\ origin \in [Mints -> Codes \cup {None}]
      /\ family \in [Mints -> Mints \cup {None}] /\ revoked \subseteq minted
      /\ arg \in [Procs -> Codes \cup Mints \cup {None}] /\ spent \subseteq minted
      /\ \A m \in minted : origin[m] \in Codes
  BY Zenon DEF IInv, TypeOK, Descent
\* Two unspent tokens of one code are of one family, so they are the same.
<1>u. \A m, n \in live : origin[m] = origin[n] => m = n
  <2> SUFFICES ASSUME NEW m \in live, NEW n \in live, origin[m] = origin[n] PROVE m = n
    BY Zenon
  <2>1. /\ family[m] \in minted /\ family[n] \in minted
        /\ origin[family[m]] = origin[family[n]]
        /\ parent[family[m]] = None /\ parent[family[n]] = None
    BY Zenon DEF IInv, Descent, Refresh
  <2>2. family[m] = family[n]
    BY <2>1, Zenon DEF IInv, CodeRedeemedOnce
  <2> QED
    BY <2>2, Zenon DEF IInv, LineageIsLinear
<1>s. ASSUME UNCHANGED <<tokens, revoked>> PROVE UNCHANGED Lineage
  BY <1>s, Zenon DEF Lineage, Usable
<1>1. ASSUME NEW p \in Procs, NEW m \in Mints, MintTokens(p, m) PROVE Contract!Next
  <2> DEFINE c == arg[p]
  <2>1. c \in Codes /\ c \notin consumed /\ m \notin minted
    BY <1>1, Zenon DEF MintTokens, IInv, TypeOK, ArgsExist, LocksHeld
  <2>2. c \notin {origin[n] : n \in minted}
    BY <2>1, Zenon DEF IInv, Descent
  <2>3. \A n \in live : n # m /\ origin'[n] = origin[n] /\ family'[n] = family[n] /\ origin[n] # c
    BY <1>1, <1>0, <2>1, <2>2, Zenon DEF MintTokens
  <2>4. {origin'[n] : n \in minted'} = {origin[n] : n \in minted} \cup {c}
    BY <1>1, <1>0, <2>1, ZenonT(30) DEF MintTokens
  <2>5. CASE c \in Offline
    <3>1. live' = live \cup {m} /\ revoked' = revoked /\ m \notin revoked
          /\ origin'[m] = c /\ family'[m] = m
      BY <1>1, <1>0, <2>1, <2>5, Zenon DEF MintTokens
    <3>2. \A k \in Codes : {n \in live' : origin'[n] = k /\ family'[n] \notin revoked'}
                            = IF k = c THEN {m} ELSE {n \in live : origin[n] = k /\ family[n] \notin revoked}
      BY <3>1, <2>3, Zenon
    <3>3. Usable' = [Usable EXCEPT ![c] = {m}]
      BY <3>2, <2>1, Zenon DEF Usable
    <3> QED
      BY <1>1, <2>1, <2>2, <2>4, <3>3, Zenon DEF MintTokens, Contract!Next, Contract!Redeem
  <2>6. CASE c \notin Offline
    <3>1. live' = live /\ revoked' = revoked
      BY <1>1, <2>6, Zenon DEF MintTokens
    <3>2. Usable' = Usable
      BY <3>1, <2>3, Zenon DEF Usable
    <3> QED
      BY <1>1, <2>1, <2>2, <2>4, <3>2, Zenon DEF MintTokens, Contract!Next, Contract!Redeem
  <2> QED
    BY <2>5, <2>6, Zenon
<1>2. ASSUME NEW p \in Procs, NEW m \in Mints, MintFromGrant(p, m) PROVE Contract!Next
  <2> DEFINE t == arg[p]  c == origin[t]
  <2>1. t \in live /\ m \notin minted /\ c \in Codes /\ t \in Mints /\ t # m
    BY <1>2, <1>0, Zenon DEF MintFromGrant, IInv, LocksHeld
  <2>2. live' = (live \ {t}) \cup {m} /\ revoked' = revoked /\ minted' = minted \cup {m}
        /\ origin'[m] = c /\ family'[m] = family[t]
    BY <1>2, <1>0, <2>1, Zenon DEF MintFromGrant
  <2>3. \A n \in minted : n # m /\ origin'[n] = origin[n] /\ family'[n] = family[n]
    BY <1>2, <1>0, <2>1, Zenon DEF MintFromGrant
  <2>4. {origin'[n] : n \in minted'} = {origin[n] : n \in minted}
    BY <2>1, <2>2, <2>3, <1>0
  <2>5. \A n \in live : origin[n] = c => n = t
    BY <1>u, <2>1, Zenon
  <2>6. CASE family[t] \notin revoked
    <3>1. \A k \in Codes : {n \in live' : origin'[n] = k /\ family'[n] \notin revoked'}
                            = IF k = c THEN {m} ELSE {n \in live : origin[n] = k /\ family[n] \notin revoked}
      BY <2>1, <2>2, <2>3, <2>5, <2>6, <1>0
    <3>2. Usable' = [Usable EXCEPT ![c] = {m}]
      BY <3>1, <2>1, Zenon DEF Usable
    <3>3. Usable[c] = {t}
      BY <2>1, <2>5, <2>6, Zenon DEF Usable
    <3> QED
      BY <2>1, <2>2, <2>4, <3>2, <3>3, Zenon DEF Contract!Next, Contract!Rotate
  <2>7. CASE family[t] \in revoked
    <3>1. \A k \in Codes : {n \in live' : origin'[n] = k /\ family'[n] \notin revoked'}
                            = {n \in live : origin[n] = k /\ family[n] \notin revoked}
      BY <2>1, <2>2, <2>3, <2>7, <1>0
    <3>2. Usable' = Usable
      BY <3>1, Zenon DEF Usable
    <3> QED
      BY <2>1, <2>2, <2>4, <3>2, Zenon DEF Contract!Next, Contract!MintDead
  <2> QED
    BY <2>6, <2>7, Zenon
<1>3. ASSUME NEW p \in Procs, CommitRevocation(p) PROVE Contract!Next
  <2> DEFINE C == {c \in Codes : \E m \in live : origin[m] = c /\ family[m] \in fams[p]}
  <2>1. revoked' = revoked \cup fams[p] /\ UNCHANGED tokens
    BY <1>3, Zenon DEF CommitRevocation
  <2>2. \A k \in Codes : {n \in live' : origin'[n] = k /\ family'[n] \notin revoked'}
                          = IF k \in C THEN {} ELSE {n \in live : origin[n] = k /\ family[n] \notin revoked}
    BY <2>1, <1>u, Zenon
  <2>3. Usable' = [c \in Codes |-> IF c \in C THEN {} ELSE Usable[c]]
    BY <2>2, Zenon DEF Usable
  <2> QED
    BY <2>1, <2>3, Zenon DEF Contract!Next, Contract!Kill
<1>4. ASSUME NEW p \in Procs, Request(p) PROVE Contract!Next \/ UNCHANGED <<tokens, revoked>>
  BY <1>4, <1>1, <1>2, <1>3, Zenon
  DEF Request, Authorize, ConsumeCode, IssueCode, RefuseRedemption, RevokeFamilyForCode, AuditFails,
      RotateRefreshToken, RevokeRefreshToken, RotateRow, RevokeFamilyByToken, TerminateSessions,
      RollBack, IntrospectAccessToken, IntrospectRefreshToken, CheckJTI, CheckSession, AnswerActive,
      Begin, Goto
<1> QED
  BY <1>4, <1>s, Zenon DEF Next, RevokeJTI, WriteStatus, SetStatus, ExpireSession, PurgeExpiredCodes, vars

(* Redemption, rotation and revocation, interleaved in any way, give each    *)
(* code one lineage that only moves forward and never comes back.            *)
THEOREM GrantsImplementContract == Spec => OneLineagePerCode
<1>1. Init => Contract!Init
  BY Zenon DEF Init, Contract!Init, Usable
<1> QED
  BY <1>1, InitIInv, NextIInv, StepsRefine, PTL
  DEF Spec, OneLineagePerCode, Contract!Spec, Lineage
=============================================================================
