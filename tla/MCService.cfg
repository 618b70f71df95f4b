CONSTANTS
  Task = {t1, t2}
  Robot = {r1, r2}
  None = None
  Joining = {r2}
  MaxCrashes = 0
SPECIFICATION Spec
INVARIANT NoDoubleAssignment
CHECK_DEADLOCK FALSE
