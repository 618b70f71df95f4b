CONSTANTS
  Length = 2
  Gap = 1
  StartBy = 1
  LaneTime = 2
  Deadline = 3
  Cooldown = 3
  Takeover = 3
  Late = 2
  Gone = 4
  AckTimeout = 1
  CmdRetries = 1
  MaxMissions = 2
  MaxFaults = 2
SPECIFICATION Spec
INVARIANT InStep
PROPERTIES
  TripIsEarned
  MissionEnds
