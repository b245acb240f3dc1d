\* Pages of 8 bytes and blocks of 4, so that the program crosses pages; an
\* issue queue shorter than the reorder buffer, which a halt fills.
SPECIFICATION BenchSpec
CHECK_DEADLOCK FALSE
CONSTANTS
  N = 5
  P = 6
  A = 1
  VPipe = FALSE
  Instr <- Renamed
  Data <- OneData
  d1 = d1
  None = None
  PageSize = 8
  Pages = 16
  Byte <- Bytes
  Unmapped = 255
  Image <- Images
  Nothing = Nothing
  PcSpace = 128
  FetchBytes = 4
  Linear = 2
  IQN = 3
  ResetVector = 4
  MaxCycles = 14
  Sled <- NopSled
  HaltAt = 8
  Patches <- Programs
  DataRequest <- Requests
INVARIANTS
  BenchTypeOK
  QueueMatchesBuffer
  WaitsForAnOlder
  DecodesTheProgram
  SledRetires
PROPERTIES
  MemoryIsFlat
  DrivesRename
  HandOver
  FlushFetchesNothing
  CountsEveryRetirement
