SPECIFICATION Spec
CONSTANTS
  u1 = u1
  u2 = u2
  Uri <- MCTwo
  MaxLen = 3
  MaxVers = 5
  Others = FALSE
  Switches = TRUE
\* One of these at a time.
PROPERTY TokenOfArray
\* INVARIANT MetaOfControlPointKept
\* PROPERTY DeletedCurrentStops
\* INVARIANT PublishedAfterSwitch
\* INVARIANT PublishedAfterPause
