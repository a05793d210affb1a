CONSTANTS
  Run = {r1}
  Session = {s1, s2}
  NoSession = NoSession
  MaxConnections = 2
  QueueCap = 2
  WireCap = 1
  EventCount = 3
  Hidden = {2}
  Faults = {"net", "timeout"}
SPECIFICATION FairSpec
PROPERTY SessionEndsOrOverflows
CHECK_DEADLOCK FALSE
