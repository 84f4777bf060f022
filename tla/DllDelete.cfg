SPECIFICATION Spec
CONSTANTS
  Data = {1}
  DLLCACHE = 2
  MaxNodes = 4
PROPERTY PriorAfterDelete
\* the program may have died
CHECK_DEADLOCK FALSE
