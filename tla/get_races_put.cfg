SPECIFICATION Spec
CONSTANTS
  Request = {r1, r2, r3}
  Key = {k1}
  Content = {good, bad}
  Corrupt = {}
  Faults = {}
  None = None
SYMMETRY Symmetry
INVARIANTS ReaderSeesAVersion
CHECK_DEADLOCK FALSE
