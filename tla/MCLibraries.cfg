SPECIFICATION LibSpec
CONSTANTS
  Pointers = {g1, g2, g3}
  PoolBlocks = 2
  MaxBlocks = 4
  Data = {1, 2}
  DLLCACHE = 2
  MaxNodes = 4
INVARIANTS
  ListsMeanSums
  StorageNeverShows
  SolversSolve
  HeldObjectsLive
  NewtonKeepsConditions
  TangentIsDerivative
  ElementsDifferentiate
  SystemsActAsOne
PROPERTIES
  IsCursorList
\* the solvers end, a program may have died
CHECK_DEADLOCK FALSE
