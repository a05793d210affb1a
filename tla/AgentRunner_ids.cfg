CONSTANTS
  MaxRetry = 1
  ToolMaxSteps = 1
  MaxChildren = 1
  KeepHead = 0
  KeepTail = 1
  Prior = {0}
  MaxId = 2
  Replies <- SomeReplies
  Configs <- TwoWorkers
  Faults = {}
SPECIFICATION Spec
INVARIANT AnswersNameCalls
CHECK_DEADLOCK FALSE
