SPECIFICATION Spec
CONSTANTS
  Clients = {c1, c2}
  NoClient = NoClient
  Keys = {k1, k2}
  AnyKey = AnyKey
  Modifiers = {m1, m2}
  AnyModifier = AnyModifier
  Modes = {Async}
  MaxGrabs = 3
INVARIANT TypeOK
INVARIANT Exclusive
PROPERTY ActsOnWhatIsNamed
SYMMETRY MCSymmetry
CHECK_DEADLOCK FALSE
