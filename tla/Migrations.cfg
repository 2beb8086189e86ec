CONSTANTS
  p1 = p1
  p2 = p2
  Processes = {p1, p2}
  NoProcess = NoProcess
  Last = 2
  Statements = 2
  Seeding = TRUE
  MaxFaults = 3
  h1 = h1
  h2 = h2
  s1 = s1
  s2 = s2
  r1 = r1
  a = a
  b = b
  Seed = Seed
  NoRow = NoRow
  SeedRows <- TwoSeedRows
  OtherRows <- OneRow
  Texts <- TwoTexts
  Hosts <- TwoHosts
  Choices <- MixedChoices
  MaxEdits = 3
SPECIFICATION MCSpec
INVARIANTS
  SchemaFollowsRecord
  ServesMigrated
  HostInv
PROPERTIES
  StartsSucceed
  SeedSeenWhole
CHECK_DEADLOCK FALSE
