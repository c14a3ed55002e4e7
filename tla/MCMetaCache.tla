---------------------------- MODULE MCMetaCache -----------------------------
(* An instance of MetaCache and MetaCodec for TLC.  A behaviour is about the  *)
(* saves and restarts ("cache") or about the coding of one line ("line"): five *)
(* characters of three bytes each are enough for a line which does not fit.    *)
EXTENDS MetaCache, MetaCodec

CONSTANTS u1, u2
VARIABLE part

MCUris == {u1, u2}
MCNoLong == {}

\* %, =, end of line, 2, 5 and D: the text of %25, %3D and of their encodings.
MCChar == {37, 61, 10, 50, 53, 68}

MCInit ==
    /\ Init
    /\ \/ part = "cache" /\ key = <<>> /\ value = <<>> /\ line = <<>> /\ got = <<>>
       \/ part = "line" /\ CodecInit /\ Len(key) + Len(value) <= 5

Cache == part = "cache" /\ Next /\ UNCHANGED <<part, codecvars>>
OneLine == part = "line" /\ CodecNext /\ UNCHANGED <<part, vars>>

MCSpec == MCInit /\ [][Cache \/ OneLine]_<<part, vars, codecvars>> /\ WF_vars(part = "cache" /\ SaveThread)
=============================================================================
