SPECIFICATION ReadsSpec
CONSTANTS
  Key <- SomeKeys
  Query <- SomeQueries
  Changes = 2
  empty = empty
  one = one
  three = three
  Content = {empty, one, three}
  Size <- SizeOf
  Time = {1, 2}
  Get <- SomeGets
  Largest = 4
  Bad = Bad
  None = None
INVARIANTS ReadsTypeOK StableKeysAreListed ListedInOrder ListingEnds ServedMeetsConditions PartIsAsAsked AnnouncedLengthHolds
CHECK_DEADLOCK FALSE
