SPECIFICATION Spec
CONSTANTS
  Lower <- MCLower
  Web <- MCWeb
  Confs <- MCConfs
  IntOf <- MCIntOf
  Flaky <- MCFlaky
  Meant <- MCMeant
  Reliable <- MCReliable
  MaxKills = 1
  Stations <- MCStations
  Countries = {"FR", "DE"}
  SplitValue <- MCSplitValue
  Searched = {"one"}
  HttpIds = {}
  Unavailable = {}
  stations <- MCstations
  Days <- MCDays
  hasfeedparser = TRUE
  Podcasts <- MCPodcasts
  Programmes <- MCProgrammes
  Versions <- MCVersions
  Unsteady = {"a", "e"}
  _nthreads = 3
  reqcount = 3
INVARIANT UntypedIsDirect
CHECK_DEADLOCK FALSE
