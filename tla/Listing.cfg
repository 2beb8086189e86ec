CONSTANTS
  Ids = {1, 2, 3}
  Statuses = {"draft", "published"}
  NoRow = NoRow
  PageLimit = 2
  PerPages = {1, 2}
  InitialTables <- MCInitialTables
  Changed <- MCChanged
  MaxChanges = 2
  c1 = c1
  c2 = c2
  NoClient = NoClient
  Clients <- TwoClients
  Half = 8
  Totals <- FewEntries
SPECIFICATION MCSpec
INVARIANTS
  ListsAreTrue
  AdditionsMissNothing
  WalksAreExact
CHECK_DEADLOCK FALSE
