CONSTANTS
  Sessions = {s1, s2, s3}
  Threshold = 2
  BaseDuration = 1
  MaxDuration = 3
  MaxAttempts = 5
  MaxClock = 5
SPECIFICATION Spec
INVARIANTS ThresholdLocks LockIsBounded
PROPERTIES LockIsNeverExtended
SYMMETRY SessionSymmetry
