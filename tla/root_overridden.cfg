SPECIFICATION AuthSpec
CONSTANTS
  Request = {r1}
  Command = {c1, c2}
  top = top
  key = key
  s1 = s1
  s2 = s2
  AccessKey = {top, key, Empty}
  Secret = {s1, s2, Empty}
  Given <- SomeGiven
  Empty = Empty
  Ask <- SomeAsks
  Change <- SomeChanges
  Ticks = 1
  Torn = Torn
  None = None
  a = a
  b = b
  Byte = {a, b}
  Claims = {0, 1, 2, 3}
  Chunked = {}
SYMMETRY Symmetry
INVARIANT RootAlwaysWins
CHECK_DEADLOCK FALSE
