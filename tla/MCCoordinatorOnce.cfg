CONSTANTS
  Robot = {r1, r2}
  o1 = o1  o2 = o2
  a = a  b = b  c = c
  l1 = l1  l2 = l2  l3 = l3
  None = None
  Order = {o1}
  Task = {a, b}
  Lane = {l1, l2}
  OrderOf <- TwoSteps
  Step <- Steps
  Primary <- ShortRoutes
  Detour <- ShortRoutes
  Blockable = {}
  Fading = {r1, r2}
  Tripping = {r1}
  MaxRetries = 3
  MaxSubmits = 1
SPECIFICATION Spec
PROPERTIES
  KeepsPromise
  BannedUntilRecovered
