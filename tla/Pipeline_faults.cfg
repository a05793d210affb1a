CONSTANTS
  Documents <- MCDocuments
  AnswerLen = 1
  MaxRetry = 2
SPECIFICATION Spec
INVARIANT OrderIsRight DependenciesFed
CHECK_DEADLOCK FALSE
