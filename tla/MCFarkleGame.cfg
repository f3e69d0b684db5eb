CONSTANTS
  DiceID = {d1, d2, d3}
  Faces = {1, 2}
  Target = 200
  MaxTurn = 200
SPECIFICATION Spec
SYMMETRY DiceSymmetry
INVARIANTS
  SelectionScored
  SelectionPossible
  ShownInSync
PROPERTIES
  RollAgainCosts
  BankedPointsBacked
  MatchSpec
