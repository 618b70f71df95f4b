CONSTANTS
  a1 = a1  recall = recall  unlock = unlock  uf = uf  ud = ud
  c1 = c1  c2 = c2  t1 = t1  r1 = r1  r2 = r2  b1 = b1  l1 = l1  l2 = l2
  j1 = j1  j2 = j2  charge1 = charge1  charge2 = charge2  NoOne = NoOne
  NormalRate = 50
  MinRate = 10
  Required = 3
  Unhealthy = 3
  SafeTtl = 4
  ThrottleTtl = 3
  MaxFaults = 3
  NoderedFuse = TRUE
  MaxRows = 2
  Limit = 1
  RetryLimit = 2
  Poll = {c1, c2}
  MaxOutFaults = 2
  SapTask = {1, 2, 3}
  Posted = {}
  BatchSize = 2
  MaxIntakeFaults = 1
  Robot = {r1, r2}
  Bay = {b1}
  Lift = {l1, l2}
  Job = {j1, j2}
  Draining = {r1, r2}
  Nobody = NoOne
  ChargeOf <- ChargeTask
  RouteOf <- LiftsOf
  BayHold = 2
  LiftHold = 2
  MaxTries = 2
SPECIFICATION ServicesSpec
INVARIANTS
  TellsTheTruth
  OneRoute
  OverdueIsCarried
PROPERTIES
  CalmIsReleased
  RepeatedIsSeen
  OutboxSettles
  OpenGetsOrder
  BayIsKept
  LiftFrees
CHECK_DEADLOCK FALSE
