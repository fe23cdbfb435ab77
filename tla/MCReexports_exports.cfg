SPECIFICATION Spec
CONSTANTS
  A = A
  B = B
  C = C
  x = x
  y = y
  Files = {A, B, C}
  Names = {x, y}
  MaxDrafts = 3
  Programs <- SmallPrograms
INVARIANTS ClosuresExact FirstGiverWins
PROPERTY GivesComponents
CHECK_DEADLOCK FALSE
