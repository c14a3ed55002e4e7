---------------------------- MODULE MCOHPlaylist ----------------------------
(* Instances of OHPlaylist for TLC. *)
EXTENDS OHPlaylist

CONSTANTS u1, u2

MCOne == {u1}
MCTwo == {u1, u2}
=============================================================================
