CONSTANTS
  tab1 = tab1
  tab2 = tab2
  c1 = c1
  c2 = c2
  cfi1 = cfi1
  cfi2 = cfi2
  Null = Null
  Clients = {tab1, tab2}
  Calls = {c1, c2}
  Cfis = {cfi1, cfi2}
  Times = {1}
  Requests <- MCRequests
  Earlier <- MCEarlier
  MaxAttempts = 2
SYMMETRY MCSymmetry
SPECIFICATION Spec
INVARIANTS
  KeysSound
  VersionNamesContent
  NobodyStuck
PROPERTIES
  NoLostUpdate
  ImplementsRegister
