SPECIFICATION Spec
CONSTANTS
  Agents = {a1}
  Requests = {q1}
  Runs = {r1, r2}
  MaxRequests = 3
  MaxRetry = 2
  MaxReads = 0
  Weathers = {{}}
INVARIANTS OneWriterPerWorkspace
CHECK_DEADLOCK FALSE
