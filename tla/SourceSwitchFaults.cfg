SPECIFICATION Spec
CONSTANTS
  t1 = t1
  radio1 = radio1
  Track <- MCTrack
  Stream = radio1
  Vol <- MCFull
  MaxLen = 1
  Sources <- MCRadioSender
  MetaRadio = TRUE
  ExternalVolume = TRUE
  Faulty = TRUE
INVARIANT OneOwner
INVARIANT MainSilentWhileSending
