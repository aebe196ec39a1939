CONSTANTS
  DataSize = 2
  PayloadLengths = {1, 2, 3}
  Hash <- MCHash
  MaxRefresh = 2
SPECIFICATION Spec
INVARIANT
  UnlockYieldsPrefix
\* A panic ends the program: the panicked state has no successor.
CHECK_DEADLOCK FALSE
