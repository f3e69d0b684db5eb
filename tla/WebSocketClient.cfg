CONSTANTS
  BufferLimit = 1
  MaxConns = 2
  Parallel = 2
  MaxSent = 2
  MaxRead = 2
SPECIFICATION FairSpec
INVARIANTS
  DeliveredOnceInOrder
  LossPerConnection
  ReplacedIsClosed
PROPERTY WritersEnd
