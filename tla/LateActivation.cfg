SPECIFICATION Spec
CONSTANTS
  t1 = t1  t2 = t2  o1 = o1  o2 = o2  r1 = r1  r2 = r2
  NULL = NULL  First = First
  Task = {t1}
  Op = {o1, o2}
  Request = {r1, r2}
  Misfit = {}
  Asked = {"apply"}
  ChunkSize = 1
  MaxEdits = 0
  MaxDeaths = 0
INVARIANT ClosedWhileApplying
