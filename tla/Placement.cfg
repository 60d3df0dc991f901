\* The sessions of MCPlacement: TLC starts in every one of them.
SPECIFICATION Spec
CONSTANTS
  w1 = w1
  w2 = w2
  NONE = NONE
  Word <- MCWord
  Fuzzy = 2
  BorderWidth = 1
  Sessions <- MCSessions
INVARIANTS
  ServerInStep
  MaximizedFills
  BorderMatches
  OnItsScreen
  ResizeRespectsHints
  TilesFit
  MoveIsReversible
PROPERTY NewWindowsFit
CHECK_DEADLOCK FALSE
