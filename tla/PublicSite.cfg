CONSTANTS
  Ids = {1, 2}
  Slugs = {"a", "a/", "posts", "static", "a/b", "a%2Fb"}
  Statuses = {"draft", "scheduled", "published", "archived", "trashed"}
  NoEntry = NoEntry
  PageLimit = 2
  Names = {"a", "b", "posts", "static", "a%2Fb"}
  Odd = {"a%2Fb"}
  SegmentsOf <- MCSegments
  Requested <- MCRequested
  Reserved = {"static"}
  Writes <- MCWrites
  NoAnswer = NoAnswer
  Limit = 1
  Keys = {0, 1, 2}
  TitleKey = 1
  ThemeKey = 2
  Values = {"mine", "AppCMS", "blank", "gocms-default"}
  Themes = {"blank", "gocms-default"}
  DefaultTitle = "AppCMS"
  DefaultTheme = "gocms-default"
  MenuIds = {1}
  Languages = {"en", "de", "ru"}
  TitleTexts = {"de", "ru"}
  Untitled = Untitled
  Written <- MCWritten
  Imported <- MCImported
  SavedSettings <- MCSavedSettings
  ImportedSettings <- MCImportedSettings
  MenuRows <- MCMenuRows
  None = None
  e1 = e1
  e2 = e2
  Editors <- TwoEditors
  EntryIds = {1}
  SlugTexts = {"a", "{a}", "{{a}}", "{}"}
  Locales = {"en", "ru"}
  Texts = {"x", "y"}
  Offered = {"published", "trashed"}
  SlugJSON <- MCSlugJSON
  NewEntries <- MCNewEntries
  MaxWrites = 3
  NoScreen = NoScreen
SYMMETRY Symmetry
SPECIFICATION MCSpec
INVARIANTS
  EntriesReachable
  ShownAsStored
  ScreensStayTrue
PROPERTIES
  LinksStayTrue
  OnlyImportsBreakLists
  SavesAreTheEditors
CHECK_DEADLOCK FALSE
