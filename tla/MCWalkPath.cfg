\* Every mix of traffic, writes of control registers and flushes in any cycle.
SPECIFICATION Spec
CONSTANTS
  None = None
  d1 = d1
  d2 = d2
  t1 = t1
  t2 = t2
  p = p
  q = q
  Levels = 1
  Vpn <- Pages
  Frame <- Frames
  Index <- Indices
  Addr <- Words
  Half <- Entries
  Val <- Contents
  Directory <- Directories
  Tables <- Images
  DataAddr <- Data
INVARIANTS
  WalkTypeOK
  TranslatesByTables
  ContextAgrees
  TlbAgrees
PROPERTY OnlyMarks
CONSTRAINT UntilMisled
VIEW LiveUntilMisled
