--------------------------- MODULE OutboxContract ---------------------------
(* What core.outbox promises whoever inserts a row into it: at-least-once    *)
(* delivery.  A row is never forgotten: it waits until its receiver has      *)
(* processed it and it is marked delivered, or until it is parked, and a     *)
(* parked row stays in the table for an operator to see.                     *)
CONSTANT Rows

VARIABLES status,     \* of each row: "absent", "pending", "parked" or "delivered"
          received    \* rows whose receiver has processed at least one POST

Init == status = [r \in Rows |-> "absent"] /\ received = {}

Insert(r) ==
  /\ status[r] = "absent"
  /\ status' = [status EXCEPT ![r] = "pending"]
  /\ UNCHANGED received

Receive(r) ==
  /\ status[r] # "absent"
  /\ received' = received \cup {r}
  /\ UNCHANGED status

Deliver(r) ==
  /\ status[r] \in {"pending", "parked"} /\ r \in received
  /\ status' = [status EXCEPT ![r] = "delivered"]
  /\ UNCHANGED received

Park(r) ==
  /\ status[r] = "pending"
  /\ status' = [status EXCEPT ![r] = "parked"]
  /\ UNCHANGED received

Next == \E r \in Rows : Insert(r) \/ Receive(r) \/ Deliver(r) \/ Park(r)

Spec == Init /\ [][Next]_<<status, received>>
=============================================================================
