CONSTANTS
  Devices = {d1, d2}
  Events = {e1, e2}
  NoDevice = NoDevice
  Second = 3
  Day = 3
  StartOffset = 4
  EndOffset = 1
  MaxTime = 5
SPECIFICATION Spec
INVARIANTS SplitExact TrimExact WithinWindow
SYMMETRY RowSymmetry
