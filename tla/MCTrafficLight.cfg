\* Durations keep the order of the code's 2 < 3 < 15 < 30 seconds.
CONSTANTS
  Robot = {r1, r2}
  Priority = {0, 1}
  None = None
  NoVehicleWait = 1
  YellowDuration = 2
  Threshold = 3
  MaxGreen = 4
  Cross = 2
SPECIFICATION FairSpec
INVARIANTS
  SafeCrossing
PROPERTY
  EachDirectionServed
