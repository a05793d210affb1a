CONSTANTS
  t1 = t1  t2 = t2
  w1 = w1  w2 = w2
  c1 = c1  c2 = c2
  Task = {t1}
  Worker = {w1, w2}
  Consumer = {c1, c2}
  Home <- PairHome
  Payload <- OneTask
  MaxRetry = 2
  Faults = {"xaddLost"}
SPECIFICATION Spec
INVARIANT ExhaustedGoesToDLQ
CHECK_DEADLOCK FALSE
