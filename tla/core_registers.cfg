CONSTANTS
  BITS = 1
  NREGS = 3
  A7 = 2
  UINT_MAX = 31
  IMMBITS = 3
  HW2 = "S"
  Programs <- ProgramsS
  Configurations <- Headers
  AllocFails <- Allocations
  Garbage <- Leftovers
SPECIFICATION FairSpec
INVARIANTS
  TypeOK
  X0Hardwired
  ShadowTracksRegisters
  PcMovesAtMostOnce
  PreciseException
  FetchMatchesAddress
  AbortsOnlyOutsideProgram
PROPERTIES
  LeavesProgram
  ExecutesAtomically
