CONSTANTS
  t1 = t1
  t2 = t2
  q1 = q1
  q2 = q2
  q3 = q3
  q4 = q4
  cfi1 = cfi1
  cfi2 = cfi2
  Null = Null
  Tabs = {t1, t2}
  Requests = {q1, q2, q3, q4}
  Cfis = {cfi1, cfi2}
  Cap = 2
SYMMETRY MCSymmetry
SPECIFICATION Spec
CHECK_DEADLOCK FALSE
INVARIANTS
  TablesSound
  DeleteHitsTheChosen
PROPERTIES
  OnlyOldestEvicted
