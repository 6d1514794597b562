SPECIFICATION Spec
CONSTANTS
  Request = {r1, r2, r3}
  Bucket = {b1}
  Key = {k1, k2}
  Old = Old
  None = None
SYMMETRY Symmetry
INVARIANTS TypeOK SettledObjectsSurvive SettledUploadsKeepBucket CreatedBucketStays CalmRequestsSucceed
CHECK_DEADLOCK FALSE
