SPECIFICATION FairSpec
CHECK_DEADLOCK FALSE
CONSTANTS
  Clients = {a, b}
  Capacity = 2
  NumNodes = 2
INVARIANTS
  NotifierProtocol
  ClientsAccounted
PROPERTIES
  PutcAnswered
