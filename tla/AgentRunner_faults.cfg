CONSTANTS
  MaxRetry = 2
  ToolMaxSteps = 1
  MaxChildren = 1
  KeepHead = 0
  KeepTail = 1
  Prior = {0, 2}
  MaxId = 2
  Replies <- SomeReplies
  Configs <- TwoWorkers
  Faults = {"history", "fold", "llm", "tool", "hook", "cancel"}
SPECIFICATION FairSpec
INVARIANT CallsAnswered PromptInRequest EndIsPublished HistoryMatchesRequest
PROPERTY TransitionsFollowTable RunEnds
CHECK_DEADLOCK FALSE
