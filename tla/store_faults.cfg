SPECIFICATION Spec
CONSTANTS
  Request = {r1, r2, r3}
  Key = {k1, k2}
  Content = {good, bad}
  Corrupt = {bad}
  Faults = {"crash", "drop", "io"}
  None = None
SYMMETRY Symmetry
INVARIANTS LockExclusion CompleteReads PhantomsHaveACause
CHECK_DEADLOCK FALSE
