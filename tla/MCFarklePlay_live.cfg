CONSTANTS
  DiceID = {d1}
  Faces = {1, 2}
  Target = 100
  MaxTurn = 100
  Clients = {0, 1}
  BufferLimit = 1
  MessageLimit = 1
  MaxSent = 1
  Requests <- MoreRequests
SPECIFICATION FairPlay
INVARIANT OnlyMoverIsHeard
PROPERTIES
  TimedWaitEnds
  GameEnds
