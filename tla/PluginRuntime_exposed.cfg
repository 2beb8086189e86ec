CONSTANTS
  Plugins <- MCPlugins
  Lists <- MCLists
  MaxActivations = 4
  h1 = h1
  h2 = h2
  h3 = h3
  h4 = h4
  h5 = h5
  h6 = h6
  h7 = h7
  NoHandler = NoHandler
  Hooks <- Filters
  Handlers <- SevenHandlers
  Priority <- SevenLevels
  MaxDepth = 2
SPECIFICATION MCSpec
INVARIANTS
  OnlyActiveExpose
CHECK_DEADLOCK FALSE
