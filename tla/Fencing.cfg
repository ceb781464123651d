SPECIFICATION Spec
CONSTANTS
  t1 = t1  t2 = t2  t3 = t3  p1 = p1  p2 = p2  p3 = p3  q1 = q1  q2 = q2
  f1 = f1  f2 = f2  w1 = w1  w2 = w2  k1 = k1  k2 = k2
  NULL = NULL
  Profile = {p1, p2}
  Pool = {q1}
  Family = {f1}
  PoolOf <- OnePool
  ProfilePool <- OneProfilePool
  ProfileFamily <- OneFamily
  ClaimCap = 2
  WorkerProfileCap <- TwoInProfile
  ProfileCap <- TwoInProfile
  PoolCap <- TwoInPool
  WorkerFamilyCap <- TwoInFamily
  FamilyCap <- TwoInFamily
  TotalAttemptCap <- TwoInPool
  MaxAttempts <- AttemptLimits
  Payload = {"a"}
  Task = {t1}
  Worker = {w1}
  Key = {k1}
  Caller <- OneWorker
  Change <- AllChanges
  Duration = {1, 2}
  MaxLifetime = 2
  Horizon = 1
  MaxGeneration = 3
  MaxEpoch = 1
INVARIANTS TypeOK HeadIsProjection CompletedIsSettled
PROPERTIES AttemptBudget OldWorkerStaysOut DeadLeaseStaysDead KeepsPromise
