CONSTANTS
  BITS = 2
  NREGS = 3
  A7 = 2
  UINT_MAX = 127
  IMMBITS = 3
  HW2 = "P"
  Programs <- ProvidedPrograms
  Configurations <- FittingHeader
  AllocFails <- None
  Garbage <- None
SPECIFICATION FairSpec
PROPERTY ImplementsISA
