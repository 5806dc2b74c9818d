CONSTANTS
  u1 = u1
  u2 = u2
  d1 = d1
  d2 = d2
  d3 = d3
  e1 = e1
  f1 = f1
  a1 = a1
  t1 = t1
  t2 = t2
  t3 = t3
  Users = {u1, u2}
  NoUser = NoUser
  Devices = {d1, d2, d3}
  UserOf <- MCUserOf
  Events = {e1}
  FocusIds = {f1}
  Apps = {a1}
  Tags = {t1, t2, t3}
  Edit = Edit
  Outbox <- MCOutbox
  Sessions = {s1, s2}
  MaxBatch = 2
  MaxSkew = 1
  MaxClock = 2
SPECIFICATION Spec
INVARIANTS EventsConverge LastWriteWins
PROPERTIES OwnRowsOnly
SYMMETRY SessionSymmetry
