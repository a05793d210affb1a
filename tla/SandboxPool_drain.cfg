CONSTANTS
  Slot = {s1, s2, s3, s4}
  NoSlot = NoSlot
  Caller = {c1, c2}
  PoolSize = 1
  MaxAcquires = 2
  Faults = {}
SPECIFICATION Spec
SYMMETRY Interchangeable
INVARIANT CloseLeavesNothing
CHECK_DEADLOCK FALSE
