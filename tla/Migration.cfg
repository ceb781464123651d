SPECIFICATION Spec
CONSTANTS
  t1 = t1  t2 = t2  o1 = o1  o2 = o2  r1 = r1  r2 = r2
  NULL = NULL  First = First
  Task = {t1, t2}
  Op = {o1, o2}
  Request = {r1}
  Misfit = {t1}
  Asked = {"apply", "cancel", "correct", "import"}
  ChunkSize = 1
  MaxEdits = 1
  MaxDeaths = 1
INVARIANTS TypeOK NoHalfConverted LeasesFollowContract Resumable ClosedWhileApplying
PROPERTY KeepsBarrier
