SPECIFICATION Spec
CONSTANTS
  u1 = u1
  u2 = u2
  Uri <- MCOne
  MaxLen = 3
  MaxVers = 5
  Others = FALSE
  Switches = FALSE
PROPERTY InsertPlace
INVARIANT PublishedAtRest
CHECK_DEADLOCK FALSE
