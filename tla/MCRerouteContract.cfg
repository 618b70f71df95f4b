CONSTANTS
  Robot = {r1, r2}
  o1 = o1  o2 = o2
  a = a  b = b  c = c
  l1 = l1  l2 = l2  l3 = l3
  None = None
  Order = {o1}
  Task = {a}
  Lane = {l1, l2, l3}
  OrderOf <- OneStep
  Step <- Steps
  Primary <- Left
  Detour <- Right
  Blockable = {l2, l3}
  Fading = {r1}
  Tripping = {r1}
  MaxRetries = 2
  MaxSubmits = 2
SPECIFICATION Spec
PROPERTY
  RerouteReachesRobot
