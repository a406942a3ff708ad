CONSTANTS
  p1 = p1
  f1 = f1
  f2 = f2
  Null = Null
  Runs = {p1}
  Files = {f1, f2}
  Dirs <- MCDirs
  MaxAttempts = 2
  PageSize = 1
  MaxMints = 3
  MaxLate = 1
SPECIFICATION Spec
INVARIANTS
  LibraryOpens
PROPERTIES
  CatalogOnlyGrows
  OnlyUnreferencedDeleted
