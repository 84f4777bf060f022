SPECIFICATION SqlSpec
CONSTANTS
  Key = {}
  MaxKeys = 0
  N = 4
  PerPage = 3
  MaxOpens = 2
  Garbage <- MCGarbage
  Cursors <- MCCursors
  LoadFiles <- MCLoadFiles
  Conds <- MCConds
  MaxConds = 1
  MaxRecords = 3
  MaxOut = 3
  MaxFaults = 0
INVARIANT RangeIsPrinted
\* the bounds stop a behaviour
CHECK_DEADLOCK FALSE
