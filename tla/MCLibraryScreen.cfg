SPECIFICATION FairSpec
CONSTANTS
  Docs = {d}
  Marks <- BookmarkIds
  Shares = {s}
  MaxOperations = 2
  Null = Null
CHECK_DEADLOCK FALSE
INVARIANTS
  ScreenSound
  ListedIsStored
PROPERTIES
  SuccessIsTrue
  ScreenGivenBack
