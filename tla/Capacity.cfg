SPECIFICATION Spec
CONSTANTS
  t1 = t1  t2 = t2  t3 = t3  p1 = p1  p2 = p2  p3 = p3  q1 = q1  q2 = q2
  f1 = f1  f2 = f2  w1 = w1  w2 = w2  k1 = k1  k2 = k2
  NULL = NULL
  Profile = {p1, p2, p3}
  Pool = {q1, q2}
  Family = {f1, f2}
  PoolOf <- Pools
  ProfilePool <- ProfilePools
  ProfileFamily <- Families
  ClaimCap = 2
  WorkerProfileCap <- TwoInProfile
  ProfileCap <- TwoInProfile
  PoolCap <- OneInPool
  WorkerFamilyCap <- OneInFamily
  FamilyCap <- TwoInFamily
  TotalAttemptCap <- TwoInPool
  MaxAttempts <- AttemptLimits
  Payload = {"a"}
  Task = {t1, t2, t3}
  Worker = {w1, w2}
  Key = {k1}
  Caller <- Crowd
  Change <- NoChanges
  Duration = {1}
  MaxLifetime = 1
  Horizon = 1
  MaxGeneration = 2
  MaxEpoch = 1
INVARIANTS CapsHold
SYMMETRY SameTasks
