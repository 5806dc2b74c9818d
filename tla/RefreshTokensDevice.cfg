CONSTANTS
  u1 = u1
  d1 = d1
  s1 = s1
  s2 = s2
  Users = {u1}
  Devices = {d1}
  NoDevice = NoDevice
  Owner <- SoleOwner
  Sessions = {s1, s2}
  MaxTokens = 3
SPECIFICATION Spec
INVARIANT OneLivePerDevice
CHECK_DEADLOCK FALSE
SYMMETRY SessionSymmetry
