CONSTANTS
  Order = {o1}
  None = None
  MaxRetries = 2
  MaxFaults = 0
SPECIFICATION Spec
INVARIANT
  FailedIsNotSent
