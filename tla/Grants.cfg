SPECIFICATION Spec
CONSTANTS
  c1 = c1
  c2 = c2
  s1 = s1
  s2 = s2
  m1 = m1
  m2 = m2
  m3 = m3
  m4 = m4
  p1 = p1
  p2 = p2
  p3 = p3
  None = None
  Codes = {c1}
  Mints = {m1, m2, m3}
  Sessions = {s1}
  Procs = {p1, p2}
  SidOf <- OneSession
  ClientOf <- OneClient
  UserOf <- OneUser
  Offline = {c1}
  Kinds = {"authorize", "redeem", "refresh", "revoke", "terminate", "status", "introspect"}
SYMMETRY Symmetric
CHECK_DEADLOCK FALSE
INVARIANTS ReuseKillsLineage IntrospectionSound
PROPERTIES OneLineagePerCode
