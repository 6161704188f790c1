SPECIFICATION Spec
CONSTANTS
  Requests = {r1, r2, r3}
  Base = 10
  HintPenalty = 3
  PenaltyNum = 3
  PenaltyDen = 2
  Forever = 100
  MaxTime = 2
SYMMETRY Symmetry
INVARIANTS
  HintsInOrder
  HintsAccounted
  ChargesOwnHint
PROPERTIES
  ScoreOnlyFalls
  FinalScoreStands
CHECK_DEADLOCK FALSE
