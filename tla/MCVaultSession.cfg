SPECIFICATION Spec
CONSTANTS
  Requests = {r1, r2}
  JwksTtl = 1
  SessionTtl = 1
  TicketTtl = 1
  ProofTtl = 45
  MaxProofTtl = 60
  NetworkRetries = 1
  Skews <- ClockSkews
  Moments <- SignMoments
  RetryWaits <- FirstRetry
  Delays <- AttemptDelays
  Nothing = Nothing
  RootKeys = {k}
  None = None
CHECK_DEADLOCK FALSE
INVARIANTS
  RowUnlockable
  OfferIsTrue
  ClockSlack
PROPERTIES
  UnknownKeyOnlyBriefly
  Settles
