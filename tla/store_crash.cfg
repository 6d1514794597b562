SPECIFICATION Spec
CONSTANTS
  Request = {r1, r2, r3}
  Key = {k1, k2}
  Content = {c1, c2}
  Corrupt = {}
  Faults = {"crash"}
  None = None
SYMMETRY SymmetryOfContents
INVARIANTS TypeOK MetaHasItsData AcknowledgedPutSurvives
PROPERTIES WriteCollects ImplementsAtomicStore
CHECK_DEADLOCK FALSE
