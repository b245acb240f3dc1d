\* Two pending requests, and two values to tell answers and stores by.
SPECIFICATION Spec
CONSTANTS
  a1 = a1
  a2 = a2
  h0 = h0
  h1 = h1
  None = None
  Addr <- OneAddr
  Half <- Halves
  Val <- TwoVal
  PendDepth = 2
  LqN = 1
  SqN = 4
  RobN = 2
INVARIANTS
  TypeOK
  SqAccounted
PROPERTIES LoadsReadMemory StoresInOrder
VIEW Live
SYMMETRY Swap
