CONSTANTS
  Clients = {"first", "second"}
  BufferLimit = 1
  MessageLimit = 1
  MaxSent = 1
SPECIFICATION Spec
INVARIANT ReportsFailure
