SPECIFICATION Spec
CONSTANTS
  c1 = c1
  c2 = c2
  Clients = {c1, c2}
  Depth = 1
  Server = Server
  Owner <- MCOwner
  NoGrab = NoGrab
  None = None
  Autorepeat = FALSE
  MaxEvents = 3
  MaxPassive = 1
  MaxChanges = 0
INVARIANT FreezesAccounted
INVARIANT NothingLeftBehind
INVARIANT ThawedIsCurrent
PROPERTY InOrder
SYMMETRY MCSymmetry
CONSTRAINTS MCKeysOnly MCMotionLost
