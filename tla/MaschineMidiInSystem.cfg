SPECIFICATION Spec
CONSTANTS
  Sizes = {2, 3}
  MaxIn = 3
  MaxExtra = 2
INVARIANT
  SystemBytesAreSkipped
CHECK_DEADLOCK FALSE
