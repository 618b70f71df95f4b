CONSTANTS
  Order = {o1}
  None = None
  MaxRetries = 2
  MaxFaults = 1
SPECIFICATION Spec
PROPERTY
  RecoveredOnRestart
