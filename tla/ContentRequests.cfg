CONSTANTS
  r1 = r1
  r2 = r2
  Requests = {r1, r2}
  NoRequest = NoRequest
  Ids = {1, 2}
  Slugs = {"a", "b"}
  Statuses = {"draft", "scheduled", "published", "archived", "trashed"}
  NoEntry = NoEntry
  PageLimit = 1
  Inputs <- MCInputs
  InitialTables <- MCInitialTables
  Faulty = TRUE
  MaxCalls = 3
  MaxClock = 2
SPECIFICATION FairSpec
INVARIANTS
  HomeTable
  ReadIsCurrent
PROPERTIES
  RequestsAreAtomic
  RowsComeFromCreate
  ShownOnRequest
  UpdatedAtAdvances
  EveryRequestAnswered
CHECK_DEADLOCK FALSE
