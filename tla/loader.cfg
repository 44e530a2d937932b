CONSTANTS
  INT_MAX = 7
  PROG_SZ_MAX = 3
  Phases = {1, 2, 3}
  Files <- MCFiles
  Faults <- OneFault
  Garbled <- MCGarbled
  Stale <- Leftover
  Dumps <- MCDumps
  NARROW = 15
SPECIFICATION FairLoadSpec
INVARIANTS
  LoadTypeOK
  AcceptedIsPlaced
  AcceptedIsWellFormed
  AbortsOnlyOnMalformed
  ArrayIsBinary
  BinariesAreAccepted
PROPERTY ImplementsAdmission
