CONSTANTS
  Calls = {"c1", "c2"}
  Consumers = {"k1", "k2"}
  PoolSize = 1
  MaxRetry = 1
  Scenarios <- MCScenarios
  AllowList <- MCAllowList
  MaxDoubles = 1
SPECIFICATION FairSpec
INVARIANT RunsAtMostOnce InvocationsVetted AnswerTruthful
PROPERTY ToolPathSettles
CHECK_DEADLOCK FALSE
