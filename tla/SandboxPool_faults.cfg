CONSTANTS
  Slot = {s1, s2, s3, s4, s5}
  NoSlot = NoSlot
  Caller = {c1, c2}
  PoolSize = 2
  MaxAcquires = 3
  Faults = {"spawn", "remove", "mkdir"}
SPECIFICATION FairSpec
INVARIANT ExclusiveUse SingleUse CapacityConserved NoOrphans PoolInv
PROPERTY CloseWaitsForRegistered PoolRecovers
CHECK_DEADLOCK FALSE
