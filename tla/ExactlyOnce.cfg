SPECIFICATION ClientSpec
CONSTANTS
  d1 = d1  d2 = d2  a = a  b = b  p = p  q = q  NULL = NULL
  Id = {1, 2}
  Body = {a, b}
  Scope = {p}
  Delivery = {d1, d2}
  FreshFor = 0
  Skew = 0
  Retention = {0}
  Offset = {0}
  Length = {1}
  MaxBatch = 2
  MaxTime = 1
  MaxEpoch = 1
  MaxConfig = 1
  MaxKinds = 1
  MaxFaults = 1
INVARIANTS ClientTypeOK AtMostOnce AnsweredAlike NoRightRestored
PROPERTIES CompletedIsDone PendingClaimResolves
CHECK_DEADLOCK FALSE
