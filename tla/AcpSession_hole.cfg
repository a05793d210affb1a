CONSTANTS
  Run = {r1}
  Session = {s1, s2}
  NoSession = NoSession
  MaxConnections = 2
  QueueCap = 1
  WireCap = 1
  EventCount = 4
  Hidden = {2}
  Faults = {"net", "cache", "bus", "timeout", "bad", "stop"}
SPECIFICATION Spec
SYMMETRY SameSessions
INVARIANT Unbroken
CHECK_DEADLOCK FALSE
