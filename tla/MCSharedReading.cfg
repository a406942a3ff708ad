SPECIFICATION SharedSpec
CONSTANTS
  Tabs = {t1, t2}
  Cfis = {c1, c2, c3}
  MaxBookmarks = 2
  MaxId = 3
  NoCfi = NoCfi
SYMMETRY Symmetry
CHECK_DEADLOCK FALSE
INVARIANTS
  RecordSound
PROPERTIES
  FieldsApart
  ShownIsStored
  TurnNotForgotten
