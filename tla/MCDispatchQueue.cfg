\* A second try and then the dead letter.
CONSTANTS
  o1 = o1  o2 = o2
  Order = {o1, o2}
  None = None
  MaxRetries = 2
  MaxFaults = 2
SPECIFICATION StorySpec
INVARIANTS
  NoForgottenOrder
  CopiesAreBounded
PROPERTIES
  StatusFollows
  CreatedSettles
