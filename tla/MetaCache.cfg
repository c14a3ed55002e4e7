SPECIFICATION MCSpec
CONSTANTS
  u1 = u1
  u2 = u2
  None = None
  Uri <- MCUris
  Long <- MCNoLong
  Faults = TRUE
  MaxSaves = 3
  MaxRestarts = 1
  Char <- MCChar
  MaxLen = 3
  LL = 14
INVARIANTS FileFromOneSave RoundTrip
PROPERTIES FileNeverOlder TakenIsLatest SavedInTheEnd
CHECK_DEADLOCK FALSE
