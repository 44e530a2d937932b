CONSTANTS
  BITS = 1
  NREGS = 3
  A7 = 2
  UINT_MAX = 31
  IMMBITS = 3
  HW2 = "P"
  Programs <- ClaimPrograms
  Configurations <- GoodHeader
  AllocFails <- None
  Garbage <- Leftovers
SPECIFICATION Spec
INVARIANT
  HandlersProgressPc
