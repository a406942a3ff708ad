CONSTANTS
  s1 = s1
  s2 = s2
  q1 = q1
  q2 = q2
  q3 = q3
  q4 = q4
  r1 = r1
  Null = Null
  Shares = {s1, s2}
  Requests = {q1, q2, q3, q4}
  Readers = {r1}
SYMMETRY MCSymmetry
SPECIFICATION Spec
INVARIANTS
  NothingLeftBehind
  UnrevokedShareWorks
