CONSTANTS
  v1 = v1  v2 = v2  v3 = v3  v4 = v4  z1 = z1  z2 = z2  e1 = e1  w1 = w1  r1 = r1
  a1 = a1  recall = recall  unlock = unlock  ud = ud
  c1 = c1  c2 = c2  t1 = t1  NoOne = NoOne
  Agent = {v1, v2, v3, v4}
  Node = {"A", "B", "C", "D", "E", "F", "G", "H"}
  Lanes <- Map
  StartOf <- Starts
  GoalOf <- Goals
  MayUse <- AnyModel
  Horizon = 4
  Percent = 150
  MaxNodes = 2
  MaxLate = 1
  Off = "off"
  Never = 99
  Zewm = {z1, z2}
  Ewm = {e1}
  Wm = {w1}
  Groups <- GroupsOfCallers
  HttpRetries = 3
  RfcTries = 3
  MaxSessions = 8
  MaxFaults = 3
  Alert = {a1}
  OpOf <- AsksFor
  ToOf <- Asks
  Dangerous = {recall}
  InSafeMode = {unlock}
  User = {ud}
  Dingtalk = {ud}
  Callback = {c1, c2}
  Token = {t1}
  NoToken = NoOne
  NoCorr = NoOne
  DedupTtl = 1
  ReplayTtl = 2
  ConfirmTtl = 1
  Robot = {r1}
  BrandTried = {"mir", "otto", "kuka", "iop"}
  Waits = TRUE
  Silent = NoOne
  MaxOrders = 1
  MaxWireFaults = 2
  MaxKept = 1
  MaxWaits = 3
SPECIFICATION LinksSpec
INVARIANTS
  PlansAreSound
  RetriesAreExact
  OneRunPerToken
PROPERTIES
  PickedIsFree
  ShownIsTrue
CHECK_DEADLOCK FALSE
