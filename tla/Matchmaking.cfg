CONSTANTS
  Game = {g1}
  Stray = {g2}
  MaxJoins = 2
  Server = {s1, s2}
  Host = host
  None = none
  MaxFaults = 1
SPECIFICATION FairSpec
INVARIANTS
  RequestAccounted
  AnswersFit
  TokenFindsSeat
PROPERTIES
  RequestsAnswered
