------------------------------ MODULE MCGrants ------------------------------
(* Small instances of Grants. *)
EXTENDS Grants, TLC

CONSTANTS c1, c2, s1, s2, m1, m2, m3, m4, p1, p2, p3

\* Two codes of one client in one session: reuse revokes by client and session.
OneSession == [c \in Codes |-> s1]
\* Two sessions of one user.
TwoSessions == c1 :> s1 @@ c2 :> s2
OneClient == [c \in Codes |-> "rp"]
OneUser == [s \in Sessions |-> "user"]

Symmetric == Permutations(Procs) \cup Permutations(Mints)
=============================================================================
