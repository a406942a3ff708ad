CONSTANTS
  cfi1 = cfi1
  cfi2 = cfi2
  Null = Null
  Cfis = {cfi1, cfi2}
  Grace = 2
  Debounce = 1
  Interval = 4
  Slack = 1
  MaxSaves = 2
SYMMETRY MCSymmetry
SPECIFICATION Spec
INVARIANTS
  SavedOnTime
