CONSTANTS
  Nodes = {n1, n2}
  NoNode = NoNode
  MaxFaults = 1
  w1 = w1  w2 = w2
  Workers = {w1, w2}
  NoWorker = NoWorker
  Rank <- Order
  Callers = {q1}
SPECIFICATION FairSpec
INVARIANT OneLiveLeader PickIsBest
PROPERTY SomeoneLeads
CHECK_DEADLOCK FALSE
