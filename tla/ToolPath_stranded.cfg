CONSTANTS
  Calls = {"c1", "c2"}
  Consumers = {"k1", "k2"}
  PoolSize = 1
  MaxRetry = 1
  Scenarios <- JustStop
  AllowList <- MCAllowList
  MaxDoubles = 1
SPECIFICATION Spec
INVARIANT NothingStranded
CHECK_DEADLOCK FALSE
