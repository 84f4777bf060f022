SPECIFICATION AllSpec
CONSTANTS
  Keys = {k1, k2, long}
  LongKeys = {long}
  Contents = {a, b}
  Ids = {1, 2, 3}
  None = None
  Values = {1, 2}
  Size <- BuffersOf
  MaxBuffers = 3
  MaxLive = 2
  MaxFaults = 2
SYMMETRY Symmetry
INVARIANTS
  Intact
  ChunksAccounted
  LinkedOneOwner
  NothingLost
  TreeSound
  ScansAgree
PROPERTIES
  IsAtomicMap
  IsChunkStore
  TreeIsAtomicMap
  IsPrefixMap
\* the bounds stop a behaviour
CHECK_DEADLOCK FALSE
