SPECIFICATION AdministrationSpec
CONSTANTS
  m1 = m1  m2 = m2  o1 = o1  o2 = o2  w1 = w1
  f1 = f1  f2 = f2  p1 = p1  q1 = q1  q2 = q2  k1 = k1  k2 = k2  v1 = v1  g1 = g1  g2 = g2  c1 = c1  c2 = c2  u1 = u1  u2 = u2
  Row = {m1, m2}
  Holder = {w1}
  Browser = {o1, o2}
  Chosen <- Bulk
  Mode = {"upsert"}
  MaxChanges = 2
  Limit = 2
  Nothing = Nothing
  Family = {f1, f2}
  Pool = {p1}
  Profile = {q1, q2}
  Key = {k1, k2}
  Administrator = {o1, o2}
  Claimant = {v1}
  MaxCommits = 2
  MaxOpen = 2
  Absent = Absent
  Deleted = Deleted
  Index = {m1, m2}
  Field = {g1, g2}
  FieldKey = {c1, c2}
  Editor = {o1, o2}
  MaxIndexes = 1
  MaxSteps = 4
  Unbuilt = Unbuilt
  File <- PortableFile
  PoolTable = 2
  Tab = {m1, m2}
  MaxPreviews = 2
  MaxFlight = 2
  NoTab = NoTab
  ExportTask = {m1, m2}
  MaxAttempts = 2
  TableCount = 2
  MaxRowid = 3
  PageRows = 2
  TaskSet = {1, 2, 3}
  Column = {u1, u2}
  Initial <- TableValues
  SortSpecs <- TableSorts
  PageLimit = 1
  MaxLoads = 2
  MaxEdits = 1
  MaxUpdates = 1
  Null = Null
  None = None
CONSTRAINT Bounded
SYMMETRY AdministrationSymmetry
INVARIANTS AdministrationTypeOK AppliedOnce OnlyReviewedLeases ProgressIsTrue ReferencesHold ArchivedIsClosed RegistryIsTrue ImportedInOrder ExportsAreWhole AllRowsAreShown
PROPERTIES CancelStops NoEditLost ClaimFollowsConfiguration RemovesWhatWasShown EditedRowsStay
CHECK_DEADLOCK FALSE
