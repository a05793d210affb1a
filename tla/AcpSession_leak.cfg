CONSTANTS
  Run = {r1}
  Session = {s1}
  NoSession = NoSession
  MaxConnections = 2
  QueueCap = 1
  WireCap = 1
  EventCount = 3
  Hidden = {2}
  Faults = {"timeout"}
SPECIFICATION FairSpec
PROPERTY SessionEnds
CHECK_DEADLOCK FALSE
