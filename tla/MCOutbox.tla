------------------------------ MODULE MCOutbox ------------------------------
(* Instances of Outbox for TLC.                                              *)
EXTENDS Outbox

Logout == "backchannel_logout"
Push   == "ciba_push"

(* A batch of two rows with no process suspended; a row of each topic with   *)
(* processes suspended at any point.                                         *)
SomeSettings ==
  {[topic |-> [r \in Rows |-> Logout], stalls |-> FALSE],
   [topic |-> [r \in Rows |-> IF r = 1 THEN Logout ELSE Push], stalls |-> TRUE]}

PushSetting == {[topic |-> [r \in Rows |-> Push], stalls |-> FALSE]}
=============================================================================
