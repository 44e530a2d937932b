CONSTANTS
  INT_MAX = 31
  PROG_SZ_MAX = 4
  Phases = {2}
  Files <- Files2
  Faults <- NoFault
  Garbled <- NoLines
  Stale <- Unused
  BITS = 1
  NREGS = 3
  A7 = 2
  UINT_MAX = 63
  IMMBITS = 3
  HW2 = "S"
  Unparsed <- Behind
SPECIFICATION FairSpec2
INVARIANTS
  TypeOK2
  ExecutesTheFile
  ReportsEveryChange
PROPERTY CanonicalRunsToAnEnd
