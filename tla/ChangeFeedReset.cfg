CONSTANTS
  u1 = u1
  u2 = u2
  e1 = e1
  e2 = e2
  sys = sys
  w1 = w1
  w2 = w2
  c1 = c1
  p1 = p1
  p2 = p2
  Users = {u1}
  System = sys
  Entities = {e1, e2}
  NoEntity = NoEntity
  Owner <- MCOwner
  Writers = {w1, w2}
  Clients = {c1}
  UserOf <- MCUserOf
  Pruners = {p1}
  PageLimit = 1
  BatchSize = 1
  MaxAge = 1
  XidModulus = 4
  MaxXid = 3
  MaxSeq = 2
  MaxClock = 2
SPECIFICATION Spec
INVARIANT ResetRecovers
SYMMETRY WriterSymmetry
