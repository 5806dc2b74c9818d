CONSTANTS
  Devices = {d1}
  Events = {e1, e2}
  NoDevice = NoDevice
  Second = 1
  Day = 2
  StartOffset = 4
  EndOffset = 1
  MaxTime = 3
SPECIFICATION Spec
INVARIANT NeverDoubleCounts
SYMMETRY RowSymmetry
