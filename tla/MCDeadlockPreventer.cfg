\* Three robots and three segments: the smallest instance with a ring that is
\* longer than a direct swap, and with a stale listing beside a live wait.
CONSTANTS
  Robot = {r1, r2, r3}
  Segment = {s1, s2, s3}
  None = None
SPECIFICATION FairSpec
INVARIANTS
  HoldsMirror
  WaitsAreLive
  NoDeadlock
  WalkIsExact
PROPERTY
  WaitersDrain
