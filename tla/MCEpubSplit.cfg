SPECIFICATION SplitSpec
CONSTANTS
  MaxEntries = 4
  Estimates = {1, 3}
  Rendered = {1, 3}
  BaseSizes = {1, 5}
  Target = 5
  MaxCrashes = 1
CHECK_DEADLOCK FALSE
INVARIANTS
  PartsComplete
  PartsSmall
  OpfMatchesEpub
PROPERTIES
  SplitEnds
