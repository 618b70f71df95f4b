CONSTANTS
  Tasks = {t1, t2}
  Robots = {r1}
  Quantities = {1}
  Modes <- ModesPlan
  GracePolls = 1
  StepTries = 2
  Retention = 1
  CleanupEvery = 2
  MaxCopies = 1
  MaxFaults = 1
SPECIFICATION Spec
PROPERTY
  DrivenIsNotParked
