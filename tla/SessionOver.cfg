SPECIFICATION Spec
CONSTANTS
  u1 = u1
  u2 = u2
  c1 = c1
  c2 = c2
  p1 = p1
  p2 = p2
  Procs = {p1, p2}
  Users = {u1}
  OwnerOf <- AllOne
  Open = 0
  MaxSid = 2
  Clients = {c1}
  Backchannel = {c1}
  Streams = {}
  Limit = 1
  Behaviours = {"deny", "evict_oldest"}
  SignIns = 2
  SweepBatch = 2
  Jobs = {"signin"}
SYMMETRY Perms
PROPERTY LimitHolds
CHECK_DEADLOCK FALSE
