\* A load takes its value from the wrong store.
SPECIFICATION Spec
CONSTANTS
  a1 = a1
  a2 = a2
  h0 = h0
  h1 = h1
  None = None
  Addr <- OneAddr
  Half <- Halves
  Val <- OneVal
  PendDepth = 1
  LqN = 1
  SqN = 3
  RobN = 3
INVARIANT ForwardsYoungestOlder
