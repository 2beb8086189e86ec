CONSTANTS
  Ids = {1, 2}
  Titles = {"x"}
  NoRow = NoRow
  NoFile = NoFile
  PageLimit = 1
  MaxWrites = 3
  e1 = e1
  i1 = i1
  i2 = i2
  c1 = c1
  NoRequest = NoRequest
  Requests <- FourRequests
  Op <- FourOps
  limit = 2
SPECIFICATION MCSpec
INVARIANTS
  RowsHold
  LogIsTrue
PROPERTIES
  SnapshotsAreAtomic
  ConnectionReturns
CHECK_DEADLOCK FALSE
