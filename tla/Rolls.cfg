CONSTANTS
  NumDice = 6
  Variants = {"regular", "even", "odd", "lucky", "unknown"}
SPECIFICATION RollSpec
INVARIANTS
  RollMatchesWeights
  ScoreIsBestCut
  BustedIffNothingScores
