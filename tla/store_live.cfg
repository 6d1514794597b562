SPECIFICATION FairSpec
CONSTANTS
  Request = {r1, r2, r3}
  Key = {k1}
  Content = {good, bad}
  Corrupt = {bad}
  Faults = {}
  None = None
INVARIANTS NoLeakAtRest
PROPERTIES ReadsEnd AllEndIfClientsSend
CHECK_DEADLOCK FALSE
