SPECIFICATION Spec
CONSTANTS
  Request = {r1, r2, r3}
  Key = {k1}
  Content = {good, bad}
  Corrupt = {bad}
  Faults = {}
  None = None
SYMMETRY Symmetry
INVARIANTS AcknowledgedPutSurvives
CHECK_DEADLOCK FALSE
