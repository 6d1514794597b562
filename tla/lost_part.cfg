SPECIFICATION Spec
CONSTANTS
  Request = {r1, r2}
  Upload = {u1}
  Part = {1, 2}
  big = big
  small = small
  Content = {big, small}
  Small = {small}
  Corrupt = {}
  Lists <- ListsOfTwo
  Faults = {}
  None = None
SYMMETRY Symmetry
INVARIANTS AcknowledgedPartIsListed
CHECK_DEADLOCK FALSE
