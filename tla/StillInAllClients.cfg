SPECIFICATION Spec
CONSTANTS
  Clients <- MCClients
  Messages <- MCMessages
  NewSizes <- MCNewSizes
  Unit = {1, 2, 3}
  Pad = 0
  Align = 2
  BUFSIZE = 2
  MaxSize = 5
  SocketSize = 2
CONSTRAINT MCFew
INVARIANT StillInAllClients
