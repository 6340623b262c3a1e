SPECIFICATION FairSpec
CONSTANTS
  XDM_RTX_LIMIT = 3
  XDM_KA_RTX_LIMIT = 2
  MaxSession = 9
  MaxPort = 5
  MaxCookie = 12
  MaxFaults = 3
INVARIANTS TypeOK
PROPERTIES SessionsAsPromised Settles
CHECK_DEADLOCK FALSE
