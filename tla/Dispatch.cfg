SPECIFICATION FairSpec
CONSTANTS
  MAXCLIENTS = 2
  XFD_SETSIZE = 2
  Capacity = 2
  Modes = {"DestroyAll", "RetainTemporary"}
CONSTRAINT MCFew
INVARIANT TypeOK
INVARIANT Listened
INVARIANT NoneForgotten
INVARIANT NothingInherited
INVARIANT GrabExclusive
PROPERTY Served
