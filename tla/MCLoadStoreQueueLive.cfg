\* Two addresses, so that loads compete with committed stores; with fairness.
SPECIFICATION FairSpec
CONSTANTS
  a1 = a1
  a2 = a2
  h0 = h0
  h1 = h1
  None = None
  Addr <- TwoAddr
  Half <- Halves
  Val <- OneVal
  PendDepth = 1
  LqN = 1
  SqN = 3
  RobN = 2
PROPERTY CommittedDrains
VIEW Live
