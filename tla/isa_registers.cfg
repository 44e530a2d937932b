CONSTANTS
  BITS = 1
  NREGS = 4
  A7 = 3
  UINT_MAX = 127
  IMMBITS = 3
  HW2 = "S"
  Programs <- ComputeS
  Configurations <- FittingHeader
  AllocFails <- None
  Garbage <- None
SPECIFICATION FairSpec
PROPERTY ImplementsISA
