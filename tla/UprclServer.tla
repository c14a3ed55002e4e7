---------------------------- MODULE UprclServer -----------------------------
(***************************************************************************)
(* The Uprcl media server process: the main loop which answers browse and  *)
(* search (uprcl-app.py), the threads which create or update the index and *)
(* then rebuild the trees (uprclinit.py, uprclindex.py), and the threads   *)
(* of the web interface which ask for updates (uprclhttp.py).              *)
(*                                                                         *)
(* The trees of one update are abstracted to its number, their generation: *)
(* 0 is "no trees".                                                        *)
(***************************************************************************)
EXTENDS ReadWriteLock, Sequences

CONSTANTS
    Main,        \* the thread of msgproc.mainloop()
    Web,         \* the threads of the HTTP server
    Updaters,    \* the update threads which may be started
    NTrees       \* the number of trees in _g_trees_order

ASSUME ThreadsAssumption ==
    /\ Threads = {Main} \cup Web \cup Updaters
    /\ Main \notin Web \cup Updaters
    /\ Web \cap Updaters = {}
    /\ IsFiniteSet(Threads)
    /\ NTrees \in Nat \ {0}

NoProc == "none"

VARIABLES
    pc,          \* where each thread is
    initrunning, \* g_initrunning
    initstatus,  \* g_initstatus
    trees,       \* _g_trees: the generation of its content
    rootmap,     \* rootmap is not empty
    used,        \* the generations of the trees read by the answer in progress
    idxproc,     \* uprclindex._idxproc
    lastidxstatus, \* uprclindex._lastidxstatus: a process has ended
    nextgen,     \* the number of the next generation
    newtrees,    \* newtrees, local to each update
    overlap      \* whether two updates have been alive together (history)

appVars == <<rootmap, used>>
initVars == <<initrunning, initstatus, trees, nextgen, newtrees>>
idxVars == <<idxproc, lastidxstatus>>
vars == <<lockVars, pc, appVars, initVars, idxVars, overlap>>

Gens == 0..Cardinality(Updaters)
Unstarted == {u \in Updaters : pc[u] = "unstarted"}
Alive == {u \in Updaters : pc[u] \notin {"unstarted", "ended"}}
Reading == {t \in Threads : pc[t] \in {"entered", "root", "dispatch", "search", "asking", "leave", "starting"}}

TypeOK ==
    /\ LockTypeOK
    /\ pc \in [Threads -> {"idle", "entered", "root", "dispatch", "search", "leave",
                           "absent", "asking", "starting", "start",
                           "unstarted", "begin", "set", "run", "popen", "done?", "poll",
                           "reap", "build", "publish", "ok", "failed", "finish", "clear", "ended"}]
    /\ initrunning \in BOOLEAN
    /\ initstatus \in BOOLEAN
    /\ trees \in Gens
    /\ rootmap \in BOOLEAN
    /\ used \in Seq(Gens)
    /\ idxproc \in {NoProc, "running", "exited"}
    /\ lastidxstatus \in BOOLEAN
    /\ nextgen \in 1..Cardinality(Updaters) + 1
    /\ newtrees \in [Updaters -> Gens]
    /\ overlap \in BOOLEAN

\* uprcl_init() has started the first update and the HTTP server, or has found no
\* usable media directory and started neither.
Init ==
    /\ LockInit
    /\ \E first \in SUBSET Updaters :
         /\ Cardinality(first) <= 1
         /\ pc = [t \in Threads |-> IF t \in first THEN "begin"
                                    ELSE IF t \in Updaters THEN "unstarted"
                                    ELSE IF t \in Web /\ first = {} THEN "absent" ELSE "idle"]
    /\ initrunning = FALSE
    /\ initstatus = FALSE
    /\ trees = 0
    /\ rootmap = FALSE
    /\ used = <<>>
    /\ idxproc = NoProc
    /\ lastidxstatus = FALSE
    /\ nextgen = 1
    /\ newtrees = [u \in Updaters |-> 0]
    /\ overlap = FALSE

GoTo(t, label) == pc' = [pc EXCEPT ![t] = label]

----------------------------------------------------------------------------
(* The main loop: browse and search.                                        *)

\* Mutant: the flag is not tested.
initdoneAlways ==
    /\ pc[Main] = "idle"
    /\ acquire_read(Main)
    /\ GoTo(Main, "entered")
    /\ used' = <<>>
    /\ UNCHANGED <<rootmap, initVars, idxVars, overlap>>

\* initdone() takes the read lock and tests the flag.
initdone ==
    /\ pc[Main] = "idle"
    /\ acquire_read(Main)
    /\ IF initrunning THEN GoTo(Main, "leave") ELSE GoTo(Main, "entered")
    /\ used' = <<>>
    /\ UNCHANGED <<rootmap, initVars, idxVars, overlap>>

\* initstatus() decides between an error entry and a request to the trees: of
\* the root container, of another one, or a search.
dispatch_request ==
    /\ pc[Main] = "entered"
    /\ \/ ~initstatus /\ GoTo(Main, "leave")
       \/ initstatus /\ \E what \in {"root", "dispatch", "search"} : GoTo(Main, what)
    /\ UNCHANGED <<lockVars, appVars, initVars, idxVars, overlap>>

ReadTree == used' = Append(used, trees)

\* _rootentries() reads the trees one after the other.
rootentries ==
    /\ pc[Main] = "root"
    /\ ReadTree
    /\ rootmap' = TRUE
    /\ GoTo(Main, IF Len(used') = NTrees THEN "leave" ELSE "root")
    /\ UNCHANGED <<lockVars, initVars, idxVars, overlap>>

\* _browsedispatch(): a first browse below the root fills rootmap before it reads
\* its tree; an object id which is not in rootmap is an error, the lock is
\* released as well.
browsedispatch ==
    /\ pc[Main] = "dispatch"
    /\ \/ /\ ~rootmap /\ Len(used) < NTrees
          /\ ReadTree
          /\ rootmap' = (Len(used') = NTrees)
          /\ UNCHANGED pc
       \/ /\ rootmap
          /\ \/ used' = <<trees>>
             \/ used' = <<>>
          /\ GoTo(Main, "leave")
          /\ UNCHANGED rootmap
    /\ UNCHANGED <<lockVars, initVars, idxVars, overlap>>

search ==
    /\ pc[Main] = "search"
    /\ used' = <<trees>>
    /\ GoTo(Main, "leave")
    /\ UNCHANGED <<lockVars, rootmap, initVars, idxVars, overlap>>

answer ==
    /\ pc[Main] = "leave"
    /\ release_read(Main)
    /\ GoTo(Main, "idle")
    /\ UNCHANGED <<appVars, initVars, idxVars, overlap>>

----------------------------------------------------------------------------
(* The web interface.                                                       *)

\* "Update Index" or "Reset Index": start_index_update() takes the read lock ...
WebUpdate(w) ==
    /\ pc[w] = "idle"
    /\ acquire_read(w)
    /\ GoTo(w, IF initrunning THEN "asking" ELSE "starting")
    /\ UNCHANGED <<appVars, initVars, idxVars, overlap>>

\* Mutant: the early return keeps the lock.
WebRefusedLocked(w) ==
    /\ pc[w] = "asking"
    /\ GoTo(w, "idle")
    /\ UNCHANGED <<lockVars, appVars, initVars, idxVars, overlap>>

\* ... releases it if an update is running ...
WebRefused(w) ==
    /\ pc[w] = "asking"
    /\ release_read(w)
    /\ GoTo(w, "idle")
    /\ UNCHANGED <<appVars, initVars, idxVars, overlap>>

\* ... or before it starts the thread.
WebRelease(w) ==
    /\ pc[w] = "starting"
    /\ release_read(w)
    /\ GoTo(w, "start")
    /\ UNCHANGED <<appVars, initVars, idxVars, overlap>>

start_index_update(w) ==
    /\ pc[w] = "start"
    /\ \/ \E u \in Unstarted :
            /\ pc' = [pc EXCEPT ![w] = "idle", ![u] = "begin"]
            /\ overlap' = (overlap \/ Alive # {})
       \/ Unstarted = {} /\ GoTo(w, "idle") /\ UNCHANGED overlap
    /\ UNCHANGED <<lockVars, appVars, initVars, idxVars>>

----------------------------------------------------------------------------
(* _update_index().                                                         *)

\* The write lock, for the flag alone, at both ends.
update_lock(u) ==
    /\ pc[u] \in {"begin", "finish"}
    /\ \/ acquire_write(u) /\ GoTo(u, IF pc[u] = "begin" THEN "set" ELSE "clear")
       \/ wait_for_readers(u) /\ UNCHANGED pc
    /\ UNCHANGED <<appVars, initVars, idxVars, overlap>>

\* Mutant: the old trees are dropped first.
update_beginEmpty(u) ==
    /\ pc[u] = "set"
    /\ initrunning' = TRUE
    /\ trees' = 0
    /\ release_write(u)
    /\ GoTo(u, "run")
    /\ UNCHANGED <<appVars, initstatus, nextgen, newtrees, idxVars, overlap>>

update_begin(u) ==
    /\ pc[u] = "set"
    /\ initrunning' = TRUE
    /\ release_write(u)
    /\ GoTo(u, "run")
    /\ UNCHANGED <<appVars, initstatus, trees, nextgen, newtrees, idxVars, overlap>>

\* runindexer(): refused while the process of another update is there.
runindexer(u) ==
    /\ pc[u] = "run"
    /\ GoTo(u, IF idxproc # NoProc THEN "failed" ELSE "popen")
    /\ UNCHANGED <<lockVars, appVars, initVars, idxVars, overlap>>

\* _initconfdir() writes the configuration, which may fail, then recollindex is
\* started: the test is not repeated.
startprocess(u) ==
    /\ pc[u] = "popen"
    /\ \/ idxproc' = "running" /\ GoTo(u, "done?")
       \/ UNCHANGED idxproc /\ GoTo(u, "failed")
    /\ UNCHANGED <<lockVars, appVars, initVars, lastidxstatus, overlap>>

RecollindexExits ==
    /\ idxproc = "running"
    /\ idxproc' = "exited"
    /\ UNCHANGED <<lockVars, pc, appVars, initVars, lastidxstatus, overlap>>

\* indexerdone(): the test, the poll and the reset of the global are three steps.
indexerdone(u) ==
    /\ pc[u] = "done?"
    /\ GoTo(u, IF idxproc = NoProc THEN "build" ELSE "poll")
    /\ UNCHANGED <<lockVars, appVars, initVars, idxVars, overlap>>

\* None.poll() is an AttributeError, caught by _update_index().
poll(u) ==
    /\ pc[u] = "poll"
    /\ lastidxstatus' = IF idxproc = NoProc THEN lastidxstatus ELSE idxproc = "exited"
    /\ GoTo(u, IF idxproc = NoProc THEN "failed" ELSE "reap")
    /\ UNCHANGED <<lockVars, appVars, initVars, idxproc, overlap>>

\* Not ended: sleep half a second and ask again.
reap(u) ==
    /\ pc[u] = "reap"
    /\ idxproc' = IF lastidxstatus THEN NoProc ELSE idxproc
    /\ GoTo(u, IF lastidxstatus THEN "build" ELSE "done?")
    /\ UNCHANGED <<lockVars, appVars, initVars, lastidxstatus, overlap>>

\* The four trees are built, or one of the constructors raises.
buildtrees(u) ==
    /\ pc[u] = "build"
    /\ \/ /\ newtrees' = [newtrees EXCEPT ![u] = nextgen]
          /\ nextgen' = nextgen + 1
          /\ GoTo(u, "publish")
       \/ UNCHANGED <<newtrees, nextgen>> /\ GoTo(u, "failed")
    /\ UNCHANGED <<lockVars, appVars, initrunning, initstatus, trees, idxVars, overlap>>

\* _g_trees, then g_initstatus, without the lock.
publishtrees(u) ==
    /\ pc[u] = "publish"
    /\ trees' = newtrees[u]
    /\ GoTo(u, "ok")
    /\ UNCHANGED <<lockVars, appVars, initrunning, initstatus, nextgen, newtrees, idxVars, overlap>>

update_ok(u) ==
    /\ pc[u] = "ok"
    /\ initstatus' = TRUE
    /\ GoTo(u, "finish")
    /\ UNCHANGED <<lockVars, appVars, initrunning, trees, nextgen, newtrees, idxVars, overlap>>

update_failed(u) ==
    /\ pc[u] = "failed"
    /\ initstatus' = FALSE
    /\ GoTo(u, "finish")
    /\ UNCHANGED <<lockVars, appVars, initrunning, trees, nextgen, newtrees, idxVars, overlap>>

update_end(u) ==
    /\ pc[u] = "clear"
    /\ initrunning' = FALSE
    /\ release_write(u)
    /\ GoTo(u, "ended")
    /\ UNCHANGED <<appVars, initstatus, trees, nextgen, newtrees, idxVars, overlap>>

----------------------------------------------------------------------------
MainStep == dispatch_request \/ rootentries \/ browsedispatch \/ search \/ answer

WebStep(w) == WebRefused(w) \/ WebRelease(w) \/ start_index_update(w)

UpdateStep(u) ==
    \/ update_begin(u) \/ runindexer(u) \/ startprocess(u)
    \/ indexerdone(u) \/ poll(u) \/ reap(u)
    \/ buildtrees(u) \/ publishtrees(u) \/ update_ok(u) \/ update_failed(u) \/ update_end(u)

Next ==
    \/ initdone
    \/ MainStep
    \/ \E w \in Web : WebUpdate(w) \/ WebStep(w)
    \/ \E u \in Updaters : update_lock(u) \/ UpdateStep(u)
    \/ RecollindexExits

\* The control points and the users of the web page are free to ask or not; each
\* thread goes on, recollindex ends, and a writer gets its turn between two
\* requests (the lock itself prefers readers).
Fairness ==
    /\ WF_vars(MainStep)
    /\ \A w \in Web : WF_vars(WebStep(w))
    /\ \A u \in Updaters : WF_vars(UpdateStep(u)) /\ SF_vars(update_lock(u) /\ holder' = u)
    /\ WF_vars(RecollindexExits)

Spec == Init /\ [][Next]_vars
FairSpec == Spec /\ Fairness

----------------------------------------------------------------------------
(* Properties.                                                              *)

\* The count of the lock is the number of threads between initdone() and
\* release_read(), on every path through them, and a writer is alone
\* (uprcl-app.py 122-139, uprclinit.py 252-267).
ReadersCounted ==
    /\ readers = Cardinality(Reading)
    /\ holder # NoThread => readers = 0

\* A request which found g_initstatus set finds trees: getTree() never fails, also
\* when several updates succeed and fail at the same time (uprclinit.py 136-144).
AnswersHaveTrees == \A i \in 1..Len(used) : used[i] # 0

\* As long as no two updates are alive together an answer comes from the trees of
\* one update, although they are replaced without the lock (uprclinit.py 107-148).
OneGeneration == ~overlap => \A i, j \in 1..Len(used) : used[i] = used[j]

\* The same with no condition.  The code does not have this property: two updates can run at once
\* (start_index_update() starts its thread after the test), and the second replaces the trees which
\* a request is reading.
NeverMixed == \A i, j \in 1..Len(used) : used[i] = used[j]

\* If the readers leave the lock free again and again, every update ends and the
\* server says that it is ready (uprclinit.py 113-149): no wakeup of a writer is lost.
UpdatesEnd == []<>(readers = 0) => \A u \in Updaters : pc[u] = "begin" ~> pc[u] = "ended"
=============================================================================
