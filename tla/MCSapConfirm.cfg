CONSTANTS
  Tasks = {t1}
  Robots = {r1, r2}
  Quantities = {1, 2}
  Modes <- ModesAsked
  GracePolls = 1
  StepTries = 2
  Retention = 0
  CleanupEvery = 2
  MaxCopies = 1
  MaxFaults = 3
SPECIFICATION Spec
INVARIANTS
  ConfirmIsEarned
  ParkedIsOpen
PROPERTIES
  PickedIsSettled
