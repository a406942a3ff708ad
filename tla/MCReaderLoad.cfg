SPECIFICATION LoadSpec
CONSTANTS
  Keys = {a, b}
  Null = Null
  MaxOpens = 2
  LastStep = 4
CHECK_DEADLOCK FALSE
INVARIANTS
  LoadsSound
PROPERTIES
  AnswerStays
  OpenSettles
