SPECIFICATION MemSpec
CONSTANTS
  Chunks = {c1, c2}
  BlockSize = 2
  MaxLen = 3
  MaxPools = 3
INVARIANT BlocksHaveOneOwner
CHECK_DEADLOCK FALSE
