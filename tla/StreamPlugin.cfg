SPECIFICATION Spec
CONSTANTS
  HttpIds = {}
  Unavailable <- MCUnavailable
  QobuzLib <- MCQobuzLib
  QSlice = 2
  TidalLib <- MCTidalLib
  HraLib <- MCHraLib
  DeezerLib <- MCDeezerLib
  DSlice = 2
  SpotifyLib <- MCSpotifyLib
  Owner <- MCOwner
  SSlice = 2
  Services = {"qobuz", "tidal", "hra", "deezer", "spotify"}
  Configured = "u1"
  CredsUsers = {"nobody", "u2"}
  Accounts <- MCAccounts
  Nets <- MCNets
  SearchKinds = {"any", "album"}
  Bookmarks <- MCBookmarks
  Kept <- MCKept
  Exits = TRUE
INVARIANTS EntriesLeadBack SessionHasOneUser ListsWithFreshSession
PROPERTY RootOpens
CHECK_DEADLOCK FALSE
