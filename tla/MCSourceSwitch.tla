--------------------------- MODULE MCSourceSwitch ---------------------------
(* Instances of SourceSwitch for TLC. *)
EXTENDS SourceSwitch

CONSTANTS t1, radio1

MCTrack == {t1}
MCVol == {40, 100}
MCFull == {100}
MCAll == AllSources
MCRadioSender == {"Playlist", "Radio", "RD-to-Songcast"}
=============================================================================
