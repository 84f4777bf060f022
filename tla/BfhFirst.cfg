\* five blocks: with fewer the file cannot get there
SPECIFICATION Spec
CONSTANTS
  MaxBlocks = 5
  Blank = Blank
  Value = {v1, Blank}
INVARIANT FirstNeedsLast
