SPECIFICATION Spec
CONSTANTS
  Request = {r1, r2, r3}
  Upload = {u1}
  Part = {1, 2}
  big = big
  small = small
  Content = {big, small}
  Small = {small}
  Corrupt = {small}
  Lists <- ListsOfTwo
  Faults = {"crash", "drop"}
  None = None
SYMMETRY Symmetry
INVARIANTS TypeOK CompletedAsListed ObjectInPlace StagedUntilInstalled ListedPartsAreStaged AbortIsFinal
CHECK_DEADLOCK FALSE
