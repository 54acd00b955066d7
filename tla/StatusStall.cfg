CONSTANTS
  NumConnections = 1
  MaxClients = 1
  MaxVersion = 2
  None = None
SPECIFICATION StatusSpec
PROPERTY AlwaysNewest
CHECK_DEADLOCK FALSE
