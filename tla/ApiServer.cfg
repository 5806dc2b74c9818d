CONSTANTS
  u1 = u1
  d1 = d1
  s1 = s1
  s2 = s2
  Users = {u1}
  Devices = {d1}
  NoDevice = NoDevice
  Owner <- SoleOwner
  Sessions = {s1, s2}
  MaxTokens = 3
  Deployments <- MCDeployments
  MaxStarts = 2
  MaxRequests = 4
SPECIFICATION ServerSpec
INVARIANTS ServerTypeOK CleanExit AccessSurvivesRestart OneLivePerFamily Lineage RevokedDeviceStaysOut
PROPERTIES RequestsEnd ShutdownEnds ImplementsFamilies
CHECK_DEADLOCK FALSE
