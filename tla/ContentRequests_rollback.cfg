CONSTANTS
  r1 = r1
  r2 = r2
  Requests = {r1, r2}
  NoRequest = NoRequest
  Ids = {1, 2}
  Slugs = {"a", "b"}
  Statuses = {"draft", "scheduled", "published", "archived", "trashed"}
  NoEntry = NoEntry
  PageLimit = 1
  Inputs <- OddInputs
  InitialTables <- MCInitialTables
  Faulty = TRUE
  MaxCalls = 3
  MaxClock = 2
SPECIFICATION Spec
SYMMETRY Symmetry
PROPERTIES
  ErrorsRollBack
CHECK_DEADLOCK FALSE
