SPECIFICATION TableSpec
CONSTANTS
  u1 = u1  u2 = u2
  TaskSet = {1, 2, 3}
  Column = {u1, u2}
  Initial <- TableValues
  SortSpecs <- TableSorts
  PageLimit = 2
  MaxLoads = 4
  MaxEdits = 1
  MaxUpdates = 0
  Null = Null
  None = None
INVARIANT LoadedIsWhole
CHECK_DEADLOCK FALSE
