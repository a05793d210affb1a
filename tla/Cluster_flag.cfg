CONSTANTS
  Nodes = {n1, n2}
  NoNode = NoNode
  MaxFaults = 1
  w1 = w1  w2 = w2
  Workers = {}
  NoWorker = NoWorker
  Rank <- Nobody
  Callers = {q1}
SPECIFICATION FairSpec

PROPERTY FlagSettles
CHECK_DEADLOCK FALSE
