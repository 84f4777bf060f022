SPECIFICATION IndexSpec
CONSTANTS
  Key = {1, 2}
  MaxKeys = 7
  N = 4
  PerPage = 2
  MaxOpens = 2
  Garbage <- MCGarbage
  Cursors <- MCCursors
  LoadFiles <- MCLoadFiles
  Conds <- MCConds
  MaxConds = 1
  MaxRecords = 3
  MaxOut = 3
  MaxFaults = 0
INVARIANT Located
\* the bounds stop a behaviour
CHECK_DEADLOCK FALSE
