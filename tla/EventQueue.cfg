SPECIFICATION FairSpec
CONSTANTS
  QUEUE_SIZE = 3
  Screens = {s1, s2}
  Screen0 = s1
  InitTime = 1
  Slop = 2
  MaxSerial = 4
  MaxTime = 2
INVARIANT TypeOK
INVARIANT HeadIsStable
PROPERTY DeliversInOrder
PROPERTY EventuallyOut
PROPERTY PositionGetsThrough
CHECK_DEADLOCK FALSE
