SPECIFICATION WordsOrTreeSpec
CONSTANTS
  Thread = {t1, t2}
  w1 = w1
  w2 = w2
  Lines <- MCTwoWords
  NoWord = NoWord
  NoThread = NoThread
  Batch = 2
  Key = {1, 2, 3, 4, 5, 6, 7}
  Preload <- MCEmpty
  InsertCap = 5
  CombineCap = 6
  Levels = 3
  Duplicates = FALSE
  MaxHeld = 7
INVARIANTS
  QuietRunsSaveTheirWords
  LossBounded
  TreeHoldsKeys
  TreeWellShaped
  TreeAnswers
  TreeWalksMeetAll
  TreeCloseSaves
PROPERTIES EveryThreadEnds
\* when all threads have ended nothing is left to do, and a call on an exhausted or
\* abandoned tree may leave nothing to do
CHECK_DEADLOCK FALSE
