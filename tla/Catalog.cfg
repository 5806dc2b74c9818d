CONSTANTS
  Users = {u1, u2}
  System = System
  Reader = u1
  Ids = {1, 2}
  SystemId = 2
  Names = {n1, n2}
  NoName = NoName
  Sessions = {s1, s2}
  Started <- MCStarted
  Limit = 1
  MaxSeq = 5
SPECIFICATION Spec
INVARIANTS TypeOK ListComplete ListNoRepeat
PROPERTIES DeletedStaysDeleted RowsKeepOwner VersionsGrow
SYMMETRY SessionSymmetry
