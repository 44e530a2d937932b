CONSTANTS
  BITS = 1
  NREGS = 3
  A7 = 2
  UINT_MAX = 31
  IMMBITS = 3
  HW2 = "P"
  Programs <- ProgramsP
  Configurations <- Headers
  AllocFails <- MemoryOnly
  Garbage <- Leftovers
SPECIFICATION Spec
INVARIANTS
  TypeOK
  X0Hardwired
  ShadowTracksRegisters
  PcMovesAtMostOnce
  PreciseException
  FetchMatchesAddress
  AbortsOnlyOutsideProgram
PROPERTY ExecutesAtomically
