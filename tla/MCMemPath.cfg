\* Two requests outstanding and two values to tell answers by, with fairness.
SPECIFICATION FairSpec
CONSTANTS
  a1 = a1
  a2 = a2
  h0 = h0
  h1 = h1
  None = None
  Addr <- OneAddr
  Half <- Halves
  Val <- TwoVal
  PendDepth = 2
INVARIANTS
  TypeOK
  Accounted
  IoAccounted
  AckExpected
PROPERTIES
  SerialMemorySpec
  LoadsEnd
  DrainsEnd
VIEW Live
