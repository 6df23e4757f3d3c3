SPECIFICATION Spec
CONSTANTS
  u1 = u1
  u2 = u2
  c1 = c1
  c2 = c2
  p1 = p1
  p2 = p2
  Procs = {p1, p2}
  Users = {u1}
  OwnerOf <- AllOne
  Open = 1
  MaxSid = 1
  Clients = {c1}
  Backchannel = {c1}
  Streams = {}
  Limit = 0
  Behaviours = {}
  SignIns = 1
  SweepBatch = 1
  Jobs = {"authorize", "quiet"}
SYMMETRY Perms
INVARIANT EveryClientTold
CHECK_DEADLOCK FALSE
