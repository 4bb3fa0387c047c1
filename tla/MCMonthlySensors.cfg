SPECIFICATION Spec
CONSTANTS
  FirstMonth = 202511
  LastMonth = 202602
  Parts = {0, 1, 3}
INVARIANTS ShownUnderItsMonth PartsAddUp
