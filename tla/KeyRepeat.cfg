SPECIFICATION FairSpec
CONSTANTS
  c1 = c1
  c2 = c2
  Clients = {c1}
  Depth = 1
  Server = Server
  Owner <- MCOwner
  NoGrab = NoGrab
  None = None
  Autorepeat = TRUE
  MaxEvents = 2
  MaxPassive = 1
  MaxChanges = 1
PROPERTY ComesToAnEnd
CHECK_DEADLOCK FALSE
