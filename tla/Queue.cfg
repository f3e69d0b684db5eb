CONSTANTS
  Conn = {c1}
  SlotCount = 2
  Publisher = {p1}
  Consumer = cons
  MaxFaults = 2
  MaxSent = 2
SPECIFICATION FairSpec
INVARIANTS
  ReadyIsWhole
  DeliveredOnceInOrder
  LossPerChannel
PROPERTIES
  
  Reconnects
  MailSpec
