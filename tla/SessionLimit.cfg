SPECIFICATION FairSpec
CONSTANTS
  u1 = u1
  u2 = u2
  c1 = c1
  c2 = c2
  p1 = p1
  p2 = p2
  Procs = {p1, p2}
  Users = {u1}
  OwnerOf <- AllOne
  Open = 1
  MaxSid = 3
  Clients = {}
  Backchannel = {}
  Streams = {}
  Limit = 1
  Behaviours = {"deny", "evict_oldest"}
  SignIns = 2
  SweepBatch = 1
  Jobs = {"signin", "expire", "sweep", "quiet", "logoutAll"}
INVARIANT NeverBothLive
PROPERTIES OvershootIsBounded ExpiredSessionsEnd
