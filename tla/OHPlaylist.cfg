SPECIFICATION Spec
CONSTANTS
  u1 = u1
  u2 = u2
  Uri <- MCTwo
  MaxLen = 2
  MaxVers = 3
  Others = TRUE
  Switches = TRUE
INVARIANT TypeOK
INVARIANT IdArrayFresh
INVARIANT MetaCovers
PROPERTY MetaStable
CHECK_DEADLOCK FALSE
