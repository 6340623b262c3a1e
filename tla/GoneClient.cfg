SPECIFICATION Spec
CONSTANTS
  c1 = c1
  c2 = c2
  Clients = {c1, c2}
  Depth = 2
  Server = Server
  Owner <- MCOwner
  NoGrab = NoGrab
  None = None
  Autorepeat = FALSE
  MaxEvents = 1
  MaxPassive = 1
  MaxChanges = 1
CHECK_DEADLOCK FALSE
INVARIANT GoneClientHoldsNoGrab
CONSTRAINT MCOneGrab
