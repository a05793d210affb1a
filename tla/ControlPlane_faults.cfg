SPECIFICATION FairSpec
CONSTANTS
  Agents = {a1}
  Requests = {q1, q2}
  Runs = {r1}
  MaxRequests = 3
  MaxRetry = 2
  MaxReads = 2
  Weathers = {{"db", "docker", "crash"}, {"append", "net"}, {"queue", "bus"}, {"deadline", "worker"}}
INVARIANTS DeletedIsClean RowIsFirstVerdict ReplayExact
PROPERTIES ContainerStaysKnown VerdictIsFinal RunSettles
CHECK_DEADLOCK FALSE
