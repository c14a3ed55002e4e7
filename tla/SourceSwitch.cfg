SPECIFICATION Spec
CONSTANTS
  t1 = t1
  radio1 = radio1
  Track <- MCTrack
  Stream = radio1
  Vol <- MCVol
  MaxLen = 2
  Sources <- MCAll
  MetaRadio = FALSE
  ExternalVolume = FALSE
  Faulty = FALSE
INVARIANT PlaylistKept
INVARIANT FullScaleOnlyWhileSending
