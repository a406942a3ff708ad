CONSTANTS
  c1 = c1
  c2 = c2
  Calls = {c1, c2}
  MaxRetries = 1
SPECIFICATION R2FairSpec
CHECK_DEADLOCK FALSE
INVARIANTS
  SecondTryIsFresh
PROPERTIES
  CallsEnd
