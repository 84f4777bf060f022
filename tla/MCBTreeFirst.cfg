SPECIFICATION MCSpec
CONSTANTS
  Key = {1, 39}
  Preload <- MCEmpty
  InsertCap = 5
  CombineCap = 6
  Levels = 3
  Duplicates = FALSE
  MaxHeld = 3
INVARIANT TreeFirstIsThere
\* a call on an exhausted or abandoned tree may leave nothing to do
CHECK_DEADLOCK FALSE
