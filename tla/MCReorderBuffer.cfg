\* Three slots, two instructions to tell program order apart.
SPECIFICATION FairSpec
CONSTANTS
  N = 3
  Instr <- TwoInstr
  Data <- OneData
  i1 = i1
  i2 = i2
  d1 = d1
  None = None
INVARIANTS
  TypeOK
  Contiguous
PROPERTIES
  InProgramOrder
  EveryoneRetires
