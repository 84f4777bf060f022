SPECIFICATION SemSpec
CONSTANTS
  Proc = {p1, p2}
  MaxSets = 1
PROPERTIES TryFindsNobody
