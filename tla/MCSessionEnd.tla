---------------------------- MODULE MCSessionEnd ----------------------------
(* Instances of SessionEnd for TLC. *)
EXTENDS SessionEnd, TLC

CONSTANTS u1, u2, c1, c2, p1, p2

AllOne == [s \in SIDs |-> u1]

(* A browser shared by two people: the first session is the other's. *)
FirstOther == [s \in SIDs |-> IF s = 1 THEN u2 ELSE u1]

Perms == Permutations({p1, p2})
=============================================================================
