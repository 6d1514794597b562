SPECIFICATION Spec
CONSTANTS
  Request = {r1, r2, r3}
  Key = {k1}
  Content = {good, bad}
  Corrupt = {}
  Faults = {"drop"}
  None = None
SYMMETRY Symmetry
INVARIANTS MetaHasItsData
CHECK_DEADLOCK FALSE
