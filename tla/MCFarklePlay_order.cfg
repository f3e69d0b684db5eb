CONSTANTS
  DiceID = {d1}
  Faces = {1}
  Target = 100
  MaxTurn = 300
  Clients = {0, 1}
  BufferLimit = 1
  MessageLimit = 2
  MaxSent = 3
  Requests <- FewRequests
SPECIFICATION PlaySpec
INVARIANTS
  MessagesInOrder
  AtMostOneLateAdmission
PROPERTY TurnLostOnlyToLobby
