---------------------------- MODULE MCUprclServer ----------------------------
(* An instance of UprclServer for TLC. *)
EXTENDS UprclServer

CONSTANTS main, w1, u1, u2

MCWeb == {w1}
MCUpdaters == {u1, u2}
MCThreads == {main, w1, u1, u2}
=============================================================================
