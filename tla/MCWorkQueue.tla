---------------------------- MODULE MCWorkQueue -----------------------------
(* Instances of WorkQueue for TLC. *)
EXTENDS WorkQueue

CONSTANTS c1, c2, w1, w2, t1, t2

MCClients == {c1, c2}
MCOneClient == {c1}
MCWorkers == {w1, w2}
MCOneWorker == {w1}
MCTasks == {t1, t2}
MCOneTask == {t1}
MCBoth == {TRUE, FALSE}
MCNoFlush == {FALSE}
MCAllOps == {"put", "idle", "term", "start", "close"}
MCEndOps == {"put", "idle", "term", "close"}
MCWorkOps == {"put", "idle"}
=============================================================================
