\* A flush that meets an uncached load in flight leaves its path draining for ever.
SPECIFICATION FairSpec
CONSTANTS
  a1 = a1
  a2 = a2
  h0 = h0
  h1 = h1
  None = None
  Addr <- OneAddr
  Half <- Halves
  Val <- OneVal
  PendDepth = 1
PROPERTY
  IoSettles
