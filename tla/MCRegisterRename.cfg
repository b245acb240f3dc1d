\* Four slots; two physical registers beyond the architectural two, so that
\* the free list runs dry before the buffer is full.
SPECIFICATION RenameSpec
VIEW Occupied
CONSTANTS
  N = 4
  P = 4
  A = 2
  VPipe = FALSE
  Instr <- Renamed
  Data <- OneData
  d1 = d1
  None = None
INVARIANTS
  RenameTypeOK
  Conserved
  DestinationHeld
  BusyIsPending
