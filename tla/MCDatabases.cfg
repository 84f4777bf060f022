SPECIFICATION AllSpec
CONSTANTS
  Files = {f, g}
  Objects = {o1, o2}
  Records = {r1, r2}
  Blank = Blank
  RECORDS_PER_PAGE = 2
  MaxPages = 2
  CACHE_COUNT = 2
  MaxAppends = 6
  MaxFaults = 1
  Zeros <- MCZeros
  Contents <- MCContents
SYMMETRY MCSymmetry
INVARIANTS
  RecordsKept
  CacheSound
  LeavesSound
  SelectsOnlyWanted
  ArvoreCompleta
  EntradaCerta
\* the bounds stop a behaviour, and arvoreb.cpp may exit
CHECK_DEADLOCK FALSE
