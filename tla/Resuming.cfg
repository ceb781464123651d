SPECIFICATION FairSpec
CONSTANTS
  t1 = t1  t2 = t2  o1 = o1  o2 = o2  r1 = r1  r2 = r2
  NULL = NULL  First = First
  Task = {t1, t2}
  Op = {o1}
  Request = {r1, r2}
  Misfit = {t1}
  Asked = {"apply", "correct"}
  ChunkSize = 1
  MaxEdits = 0
  MaxDeaths = 1
PROPERTIES ConvertedOnce MigrationEnds
