--------------------------- MODULE GrantContract ----------------------------
(* What the authorization server promises of one authorization code: it      *)
(* starts at most one lineage of refresh tokens, the lineage has at most one *)
(* usable token at a time, each replaced by a token never seen before, and   *)
(* once the lineage is dead no token of it is usable again.                  *)
CONSTANTS Codes, Mints

VARIABLES usable,      \* the usable refresh tokens of each code's lineage
          redeemed,    \* codes that tokens have been minted from
          minted       \* every token ever minted

Init == usable = [c \in Codes |-> {}] /\ redeemed = {} /\ minted = {}

(* A code is redeemed, with or without a refresh token. *)
Redeem(c, m) ==
  /\ c \notin redeemed /\ m \notin minted
  /\ redeemed' = redeemed \cup {c}
  /\ minted' = minted \cup {m}
  /\ \/ UNCHANGED usable
     \/ usable' = [usable EXCEPT ![c] = {m}]

(* The usable token is replaced. *)
Rotate(c, t, m) ==
  /\ usable[c] = {t} /\ m \notin minted
  /\ usable' = [usable EXCEPT ![c] = {m}]
  /\ minted' = minted \cup {m}
  /\ UNCHANGED redeemed

(* A rotation that overlapped the end of its lineage: its token is dead. *)
MintDead(m) ==
  /\ m \notin minted
  /\ minted' = minted \cup {m}
  /\ UNCHANGED <<usable, redeemed>>

(* Lineages die. *)
Kill(C) ==
  /\ usable' = [c \in Codes |-> IF c \in C THEN {} ELSE usable[c]]
  /\ UNCHANGED <<redeemed, minted>>

Next ==
  \/ \E c \in Codes, m \in Mints : Redeem(c, m)
  \/ \E c \in Codes, t, m \in Mints : Rotate(c, t, m)
  \/ \E m \in Mints : MintDead(m)
  \/ \E C \in SUBSET Codes : Kill(C)

Spec == Init /\ [][Next]_<<usable, redeemed, minted>>
=============================================================================
