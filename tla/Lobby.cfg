CONSTANTS
  Clients = {"first", "second"}
  BufferLimit = 1
  MessageLimit = 1
  MaxSent = 3
SPECIFICATION FairSpec
INVARIANTS
  ReadyBeforePlay
  ClosedBehind
PROPERTIES
  DiceSettled
  HandsOverClients
  LobbyEnds
