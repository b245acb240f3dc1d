\* One page; flushes and writes of CR3 in any cycle.
SPECIFICATION Spec
CONSTANTS
  None = None
  d1 = d1
  d2 = d2
  t1 = t1
  t2 = t2
  p = p
  q = q
  Levels = 1
  Vpn <- OnePage
  Frame <- Frames
  Index <- Indices
  Addr <- Words
  Half <- Entries
  Val <- Contents
  Directory <- Directories
  Tables <- OneImage
  DataAddr <- Data
INVARIANT FlushCancels
VIEW Live
