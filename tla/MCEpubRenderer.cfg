SPECIFICATION RendererSpec
CONSTANTS
  Nowhere = Nowhere
  Places <- PagesOfBook
  MaxQueue = 2
CHECK_DEADLOCK FALSE
INVARIANTS
  LaidOut
  PageMatchesPlace
  NeverBlank
PROPERTIES
  MountSettles
