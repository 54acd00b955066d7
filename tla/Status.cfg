CONSTANTS
  NumConnections = 3
  MaxClients = 2
  MaxVersion = 2
  None = None
SPECIFICATION StatusSpec
INVARIANTS StatusTypeOK HandlersBounded NoLostWakeup NothingStranded
PROPERTY NeverRegresses
CHECK_DEADLOCK FALSE
