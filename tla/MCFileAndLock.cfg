SPECIFICATION BothSpec
CONSTANTS
  MaxBlocks = 4
  Blank = Blank
  Value = {v1, Blank}
  Proc = {p1, p2, p3}
  MaxSets = 1
INVARIANTS
  TypeOK
  FreeListSound
  NoExtraUnit
  NotStranded
PROPERTIES
  HandsOutFresh
  ImplementsStore
  WaiterServed
