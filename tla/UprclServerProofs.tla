------------------------- MODULE UprclServerProofs -------------------------
(***************************************************************************)
(* Proofs about the Uprcl media server: the lock is given back on every    *)
(* path and keeps writers alone, requests find trees, and these are of one *)
(* update as long as no two updates are alive together.                    *)
(***************************************************************************)
EXTENDS UprclServer, FiniteSetTheorems, TLAPS

ReadLabels == {"entered", "root", "dispatch", "search", "asking", "leave", "starting"}
R(p) == {t \in Threads : p[t] \in ReadLabels}

Labels == {"idle", "entered", "root", "dispatch", "search", "leave", "absent", "asking", "starting", "start",
           "unstarted", "begin", "set", "run", "popen", "done?", "poll", "reap", "build", "publish", "ok",
           "failed", "finish", "clear", "ended"}

LEMMA ReadingIsR == Reading = R(pc)
BY DEF Reading, R, ReadLabels

\* The number of readers, when a thread goes from a place to another one.
LEMMA CountNat ==
  ASSUME NEW p
  PROVE  Cardinality(R(p)) \in Nat /\ IsFiniteSet(R(p))
<1>1. R(p) \subseteq Threads
  BY DEF R
<1> QED
  BY <1>1, ThreadsAssumption, FS_Subset, FS_CardinalityType

LEMMA Moves ==
  ASSUME NEW p \in [Threads -> Labels], NEW t \in Threads, NEW l \in Labels
  PROVE  LET q == [p EXCEPT ![t] = l]
         IN  /\ q \in [Threads -> Labels]
             /\ (p[t] \in ReadLabels) = (l \in ReadLabels) => Cardinality(R(q)) = Cardinality(R(p))
             /\ p[t] \notin ReadLabels /\ l \in ReadLabels => Cardinality(R(q)) = Cardinality(R(p)) + 1
             /\ p[t] \in ReadLabels /\ l \notin ReadLabels => Cardinality(R(q)) = Cardinality(R(p)) - 1
<1> DEFINE q == [p EXCEPT ![t] = l]
<1>1. q \in [Threads -> Labels]
  OBVIOUS
<1>2. (p[t] \in ReadLabels) = (l \in ReadLabels) => R(q) = R(p)
  BY DEF R
<1>3. p[t] \notin ReadLabels /\ l \in ReadLabels => R(q) = R(p) \cup {t} /\ t \notin R(p)
  BY DEF R
<1>4. p[t] \in ReadLabels /\ l \notin ReadLabels => R(q) = R(p) \ {t} /\ t \in R(p)
  BY DEF R
<1>5. IsFiniteSet(R(p)) /\ Cardinality(R(p)) \in Nat
  BY CountNat
<1> HIDE DEF q
<1>6. p[t] \notin ReadLabels /\ l \in ReadLabels => Cardinality(R(q)) = Cardinality(R(p)) + 1
  BY <1>3, <1>5, FS_AddElement
<1>7. p[t] \in ReadLabels /\ l \notin ReadLabels => Cardinality(R(q)) = Cardinality(R(p)) - 1
  BY <1>4, <1>5, FS_RemoveElement
<1> QED
  BY <1>1, <1>2, <1>6, <1>7 DEF q

-----------------------------------------------------------------------------
\* The lock: the count is that of the threads between initdone() and release_read(), and the
\* writer is the thread which sets or clears the flag.
LockInv ==
  /\ pc \in [Threads -> Labels]
  /\ holder \in Threads \cup {NoThread}
  /\ readers = Cardinality(R(pc))
  /\ \A t \in Threads : holder = t <=> pc[t] \in {"set", "clear"}
  /\ holder # NoThread => readers = 0

LEMMA LockInit_ == Init => LockInv
<1> SUFFICES ASSUME Init PROVE LockInv
  OBVIOUS
<1>1. pc \in [Threads -> {"begin", "unstarted", "absent", "idle"}]
  BY DEF Init
<1>2. R(pc) = {}
  BY <1>1 DEF R, ReadLabels
<1>3. Cardinality(R(pc)) = 0
  BY <1>2, FS_EmptySet
<1>4. pc \in [Threads -> Labels] /\ \A t \in Threads : pc[t] \notin {"set", "clear"}
  BY <1>1, SMT DEF Labels
<1>5. readers = 0 /\ holder = NoThread
  BY DEF Init, LockInit
<1> QED
  BY <1>3, <1>4, <1>5, NoThreadAssumption DEF LockInv

\* What a step of one thread does to the lock: nothing, ...
LEMMA OutsideLock ==
  ASSUME LockInv, NEW t \in Threads, NEW l \in Labels, GoTo(t, l), UNCHANGED <<readers, holder>>,
         (pc[t] \in ReadLabels) = (l \in ReadLabels), pc[t] \notin {"set", "clear"}, l \notin {"set", "clear"}
  PROVE  LockInv'
<1>1. pc' \in [Threads -> Labels] /\ Cardinality(R(pc')) = Cardinality(R(pc))
  BY Moves DEF GoTo, LockInv
<1>2. R(pc)' = R(pc')
  BY DEF R
<1>3. \A u \in Threads : pc'[u] = IF u = t THEN l ELSE pc[u]
  BY DEF GoTo, LockInv
<1> QED
  BY <1>1, <1>2, <1>3 DEF LockInv

LEMMA Stays ==
  ASSUME LockInv, UNCHANGED <<readers, holder, pc>>
  PROVE  LockInv'
<1>1. R(pc)' = R(pc)
  BY DEF R
<1> QED
  BY <1>1 DEF LockInv

\* ... a reader enters or leaves, ...
LEMMA ReaderEnters ==
  ASSUME LockInv, NEW t \in Threads, NEW l \in ReadLabels, GoTo(t, l), acquire_read(t), pc[t] \notin ReadLabels
  PROVE  LockInv'
<1>0. l \in Labels /\ l \notin {"set", "clear"}
  BY DEF Labels, ReadLabels
<1>1. pc' \in [Threads -> Labels] /\ Cardinality(R(pc')) = Cardinality(R(pc)) + 1
  BY <1>0, Moves DEF GoTo, LockInv
<1>2. R(pc)' = R(pc')
  BY DEF R
<1>3. \A u \in Threads : pc'[u] = IF u = t THEN l ELSE pc[u]
  BY DEF GoTo, LockInv
<1>4. holder = NoThread /\ holder' = NoThread /\ readers' = readers + 1
  BY DEF acquire_read, MutexFree
<1> QED
  BY <1>0, <1>1, <1>2, <1>3, <1>4, NoThreadAssumption DEF LockInv

LEMMA ReaderLeaves ==
  ASSUME LockInv, NEW t \in Threads, NEW l \in Labels, GoTo(t, l), release_read(t),
         pc[t] \in ReadLabels, l \notin ReadLabels, l \notin {"set", "clear"}
  PROVE  LockInv'
<1>1. pc' \in [Threads -> Labels] /\ Cardinality(R(pc')) = Cardinality(R(pc)) - 1
  BY Moves DEF GoTo, LockInv
<1>2. R(pc)' = R(pc')
  BY DEF R
<1>3. \A u \in Threads : pc'[u] = IF u = t THEN l ELSE pc[u]
  BY DEF GoTo, LockInv
<1>4. holder = NoThread /\ holder' = NoThread /\ readers' = readers - 1
  BY DEF release_read, MutexFree
<1> QED
  BY <1>1, <1>2, <1>3, <1>4, NoThreadAssumption DEF LockInv

\* ... a writer enters or leaves.
LEMMA WriterEnters ==
  ASSUME LockInv, NEW t \in Threads, NEW l \in {"set", "clear"}, GoTo(t, l), acquire_write(t), pc[t] \notin ReadLabels
  PROVE  LockInv'
<1>0. l \in Labels /\ l \notin ReadLabels
  BY DEF Labels, ReadLabels
<1>a. (pc[t] \in ReadLabels) = (l \in ReadLabels)
  BY <1>0
<1>1. pc' \in [Threads -> Labels] /\ Cardinality(R(pc')) = Cardinality(R(pc))
  BY <1>0, <1>a, Moves DEF GoTo, LockInv
<1>2. R(pc)' = R(pc')
  BY DEF R
<1>3. \A u \in Threads : pc'[u] = IF u = t THEN l ELSE pc[u]
  BY DEF GoTo, LockInv
<1>4. holder = NoThread /\ holder' = t /\ readers = 0 /\ readers' = readers
  BY DEF acquire_write, MutexFree
<1> QED
  BY <1>0, <1>1, <1>2, <1>3, <1>4, NoThreadAssumption DEF LockInv

LEMMA WriterLeaves ==
  ASSUME LockInv, NEW t \in Threads, NEW l \in Labels, GoTo(t, l), release_write(t),
         pc[t] \notin ReadLabels, l \notin ReadLabels, l \notin {"set", "clear"}
  PROVE  LockInv'
<1>a. (pc[t] \in ReadLabels) = (l \in ReadLabels)
  OBVIOUS
<1>1. pc' \in [Threads -> Labels] /\ Cardinality(R(pc')) = Cardinality(R(pc))
  BY <1>a, Moves DEF GoTo, LockInv
<1>2. R(pc)' = R(pc')
  BY DEF R
<1>3. \A u \in Threads : pc'[u] = IF u = t THEN l ELSE pc[u]
  BY DEF GoTo, LockInv
<1>4. holder = t /\ holder' = NoThread /\ readers' = readers
  BY DEF release_write
<1> QED
  BY <1>1, <1>2, <1>3, <1>4, NoThreadAssumption DEF LockInv

\* start_index_update() moves two threads, none of them near the lock.
LEMMA UpdateStarted ==
  ASSUME LockInv, NEW w \in Web, start_index_update(w)
  PROVE  LockInv'
<1>1. UNCHANGED <<readers, holder>> /\ w \in Threads /\ pc[w] = "start"
  BY ThreadsAssumption DEF start_index_update, lockVars
<1>2. CASE GoTo(w, "idle")
  <2>1. (pc[w] \in ReadLabels) = ("idle" \in ReadLabels)
    BY <1>1 DEF ReadLabels
  <2> QED
    BY <1>1, <1>2, <2>1, OutsideLock DEF Labels
<1>3. ASSUME NEW u \in Unstarted, pc' = [pc EXCEPT ![w] = "idle", ![u] = "begin"]
      PROVE  LockInv'
  <2>1. u \in Threads /\ pc[u] = "unstarted"
    BY ThreadsAssumption DEF Unstarted
  <2>2. pc' \in [Threads -> Labels]
    BY <1>3 DEF LockInv, Labels
  <2>3. \A t \in Threads : \/ pc'[t] = pc[t]
                           \/ pc[t] \in {"start", "unstarted"} /\ pc'[t] \in {"idle", "begin"}
    BY <1>1, <1>3, <2>1 DEF LockInv
  <2>4. \A t \in Threads : pc'[t] \in ReadLabels <=> pc[t] \in ReadLabels
    BY <2>3, SMT DEF ReadLabels
  <2>5. R(pc)' = R(pc)
    BY <2>4 DEF R
  <2> QED
    BY <1>1, <2>2, <2>3, <2>5, SMT DEF LockInv
<1> QED
  BY <1>2, <1>3 DEF start_index_update

LEMMA LockNext == LockInv /\ [Next]_vars => LockInv'
<1> SUFFICES ASSUME LockInv, [Next]_vars PROVE LockInv'
  OBVIOUS
<1> USE DEF lockVars
<1>0. Main \in Threads /\ Web \subseteq Threads /\ Updaters \subseteq Threads
  BY ThreadsAssumption
<1>1. CASE initdone
  <2>1. acquire_read(Main) /\ pc[Main] \notin ReadLabels
    BY <1>1 DEF initdone, ReadLabels
  <2>2. GoTo(Main, "leave") \/ GoTo(Main, "entered")
    BY <1>1 DEF initdone
  <2>3. "leave" \in ReadLabels /\ "entered" \in ReadLabels
    BY DEF ReadLabels
  <2> QED
    BY <1>0, <2>1, <2>2, <2>3, ReaderEnters
<1>2. ASSUME NEW l \in {"root", "dispatch", "search", "leave"}, GoTo(Main, l), UNCHANGED <<readers, holder>>,
             pc[Main] \in {"entered", "root", "dispatch", "search"}
      PROVE  LockInv'
  <2>1. (pc[Main] \in ReadLabels) = (l \in ReadLabels) /\ l \in Labels
    BY <1>2 DEF ReadLabels, Labels
  <2>2. pc[Main] \notin {"set", "clear"} /\ l \notin {"set", "clear"}
    BY <1>2
  <2> QED
    BY <1>0, <1>2, <2>1, <2>2, OutsideLock
<1>3. CASE dispatch_request
  BY <1>2, <1>3 DEF dispatch_request
<1>4. CASE rootentries
  BY <1>2, <1>4 DEF rootentries
<1>5. CASE browsedispatch
  BY <1>2, <1>5, Stays DEF browsedispatch
<1>6. CASE search
  BY <1>2, <1>6 DEF search
<1>7. CASE answer
  <2>1. release_read(Main) /\ GoTo(Main, "idle") /\ pc[Main] \in ReadLabels
    BY <1>7 DEF answer, ReadLabels
  <2>2. "idle" \in Labels /\ "idle" \notin ReadLabels
    BY DEF Labels, ReadLabels
  <2> QED
    BY <1>0, <2>1, <2>2, ReaderLeaves
<1>8. ASSUME NEW w \in Web, WebUpdate(w) \/ WebStep(w)
      PROVE  LockInv'
  <2>1. CASE WebUpdate(w)
    <3>1. acquire_read(w) /\ pc[w] \notin ReadLabels
      BY <2>1 DEF WebUpdate, ReadLabels
    <3>2. GoTo(w, "asking") \/ GoTo(w, "starting")
      BY <2>1 DEF WebUpdate
    <3>3. "asking" \in ReadLabels /\ "starting" \in ReadLabels
      BY DEF ReadLabels
    <3> QED
      BY <1>0, <3>1, <3>2, <3>3, ReaderEnters
  <2>2. CASE WebRefused(w)
    <3>1. release_read(w) /\ GoTo(w, "idle") /\ pc[w] \in ReadLabels
      BY <2>2 DEF WebRefused, ReadLabels
    <3>2. "idle" \in Labels /\ "idle" \notin ReadLabels
      BY DEF Labels, ReadLabels
    <3> QED
      BY <1>0, <3>1, <3>2, ReaderLeaves
  <2>3. CASE WebRelease(w)
    <3>1. release_read(w) /\ GoTo(w, "start") /\ pc[w] \in ReadLabels
      BY <2>3 DEF WebRelease, ReadLabels
    <3>2. "start" \in Labels /\ "start" \notin ReadLabels
      BY DEF Labels, ReadLabels
    <3> QED
      BY <1>0, <3>1, <3>2, ReaderLeaves
  <2> QED
    BY <1>8, <2>1, <2>2, <2>3, UpdateStarted DEF WebStep
<1>9. ASSUME NEW u \in Updaters, update_lock(u)
      PROVE  LockInv'
  <2>1. CASE wait_for_readers(u) /\ UNCHANGED pc
    BY <2>1, Stays DEF wait_for_readers
  <2>2. ASSUME NEW l \in {"set", "clear"}, acquire_write(u), GoTo(u, l)
        PROVE  LockInv'
    BY <1>0, <1>9, <2>2, WriterEnters DEF update_lock, ReadLabels
  <2> QED
    BY <1>9, <2>1, <2>2 DEF update_lock
<1>10. ASSUME NEW u \in Updaters, UpdateStep(u)
       PROVE  LockInv'
  <2>1. ASSUME NEW l \in {"run", "ended"}, release_write(u), GoTo(u, l), pc[u] \in {"set", "clear"}
        PROVE  LockInv'
    <3>1. pc[u] \notin ReadLabels /\ l \notin ReadLabels /\ l \in Labels
      BY <2>1 DEF ReadLabels, Labels
    <3> QED
      BY <1>0, <2>1, <3>1, WriterLeaves
  <2>2. ASSUME NEW l \in {"popen", "done?", "poll", "reap", "build", "publish", "ok", "failed", "finish"},
               GoTo(u, l), UNCHANGED <<readers, holder>>,
               pc[u] \in {"run", "popen", "done?", "poll", "reap", "build", "publish", "ok", "failed"}
        PROVE  LockInv'
    <3>1. pc[u] \notin ReadLabels /\ l \notin ReadLabels /\ l \in Labels
      BY <2>2 DEF ReadLabels, Labels
    <3>2. (pc[u] \in ReadLabels) = (l \in ReadLabels)
      BY <3>1
    <3> QED
      BY <1>0, <2>2, <3>1, <3>2, OutsideLock
  <2>3. CASE update_begin(u)
    BY <2>1, <2>3 DEF update_begin
  <2>4. CASE runindexer(u)
    BY <2>2, <2>4 DEF runindexer
  <2>5. CASE startprocess(u)
    BY <2>2, <2>5 DEF startprocess
  <2>6. CASE indexerdone(u)
    BY <2>2, <2>6 DEF indexerdone
  <2>7. CASE poll(u)
    BY <2>2, <2>7 DEF poll
  <2>8. CASE reap(u)
    BY <2>2, <2>8 DEF reap
  <2>9. CASE buildtrees(u)
    BY <2>2, <2>9 DEF buildtrees
  <2>10. CASE publishtrees(u)
    BY <2>2, <2>10 DEF publishtrees
  <2>11. CASE update_ok(u)
    BY <2>2, <2>11 DEF update_ok
  <2>12. CASE update_failed(u)
    BY <2>2, <2>12 DEF update_failed
  <2>13. CASE update_end(u)
    BY <2>1, <2>13 DEF update_end
  <2> QED
    BY <1>10, <2>3, <2>4, <2>5, <2>6, <2>7, <2>8, <2>9, <2>10, <2>11, <2>12, <2>13 DEF UpdateStep
<1>11. CASE RecollindexExits
  BY <1>11, Stays DEF RecollindexExits
<1>12. CASE UNCHANGED vars
  BY <1>12, Stays DEF vars
<1> QED
  BY <1>1, <1>3, <1>4, <1>5, <1>6, <1>7, <1>8, <1>9, <1>10, <1>11, <1>12 DEF Next, MainStep

\* The count of the readers is exact, on every path through browse, search and
\* start_index_update(), and a writer is alone (uprcl-app.py 122-139, uprclinit.py 252-267).
THEOREM LockCounts == Spec => []ReadersCounted
<1>1. LockInv => ReadersCounted
  BY ReadingIsR DEF LockInv, ReadersCounted
<1> QED
  BY <1>1, LockInit_, LockNext, PTL DEF Spec

-----------------------------------------------------------------------------
\* There are trees as soon as g_initstatus has been set once, and they stay.
AtTrees == {"root", "dispatch", "search"}

TreesInv ==
  /\ pc \in [Threads -> Labels]
  /\ trees \in Nat /\ nextgen \in Nat \ {0} /\ newtrees \in [Updaters -> Nat] /\ used \in Seq(Nat)
  /\ initstatus \/ pc[Main] \in AtTrees => trees # 0
  /\ \A u \in Updaters : pc[u] = "publish" => newtrees[u] # 0
  /\ \A u \in Updaters : pc[u] = "ok" => trees # 0
  /\ AnswersHaveTrees

\* Where one thread goes, the others stay.
LEMMA Place ==
  ASSUME pc \in [Threads -> Labels], NEW t \in Threads, NEW l, GoTo(t, l)
  PROVE  \A v \in Threads : pc'[v] = IF v = t THEN l ELSE pc[v]
BY DEF GoTo

LEMMA TreesInit == Init => TreesInv
<1> SUFFICES ASSUME Init PROVE TreesInv
  OBVIOUS
<1>1. pc \in [Threads -> {"begin", "unstarted", "absent", "idle"}]
  BY DEF Init
<1>2. Main \in Threads /\ Updaters \subseteq Threads
  BY ThreadsAssumption
<1> QED
  BY <1>1, <1>2, SMT DEF Init, TreesInv, AtTrees, Labels, AnswersHaveTrees

LEMMA TreesNext == LockInv' /\ TreesInv /\ [Next]_vars => TreesInv'
<1> SUFFICES ASSUME LockInv', TreesInv, [Next]_vars PROVE TreesInv'
  OBVIOUS
<1> USE DEF TreesInv, AnswersHaveTrees, AtTrees, initVars, appVars
<1>0. Main \in Threads /\ Web \subseteq Threads /\ Updaters \subseteq Threads /\ Main \notin Updaters /\ Main \notin Web
      /\ Web \cap Updaters = {} /\ pc' \in [Threads -> Labels]
  BY ThreadsAssumption DEF LockInv
<1>1. CASE initdone
  BY <1>0, <1>1, Place DEF initdone
<1>2. CASE dispatch_request
  BY <1>0, <1>2, Place DEF dispatch_request
<1>3. CASE rootentries
  BY <1>0, <1>3, Place DEF rootentries, ReadTree
<1>4. CASE browsedispatch
  <2>1. trees # 0 /\ UNCHANGED <<trees, nextgen, newtrees, initstatus>>
    BY <1>4 DEF browsedispatch
  <2>2. CASE ReadTree /\ UNCHANGED pc
    BY <2>1, <2>2 DEF ReadTree
  <2>3. CASE used' \in {<<trees>>, <<>>} /\ GoTo(Main, "leave")
    <3>1. CASE used' = <<>>
      BY <1>0, <2>1, <2>3, <3>1, Place
    <3>2. CASE used' = <<trees>>
      BY <1>0, <2>1, <2>3, <3>2, Place
    <3> QED
      BY <2>3, <3>1, <3>2
  <2> QED
    BY <1>4, <2>2, <2>3 DEF browsedispatch
<1>5. CASE search
  BY <1>0, <1>5, Place DEF search
<1>6. CASE answer
  BY <1>0, <1>6, Place DEF answer
<1>7. ASSUME NEW w \in Web, WebUpdate(w) \/ WebRefused(w) \/ WebRelease(w) PROVE TreesInv'
  BY <1>0, <1>7, Place DEF WebUpdate, WebRefused, WebRelease
<1>8. ASSUME NEW w \in Web, start_index_update(w) PROVE TreesInv'
  <2>1. UNCHANGED <<trees, nextgen, newtrees, used, initstatus>>
    BY <1>8 DEF start_index_update
  <2>2. \A t \in Threads : pc'[t] = pc[t] \/ pc'[t] \in {"idle", "begin"}
    BY <1>0, <1>8 DEF start_index_update, GoTo, Unstarted
  <2> QED
    BY <1>0, <2>1, <2>2
<1>9. ASSUME NEW u \in Updaters, update_lock(u) PROVE TreesInv'
  BY <1>0, <1>9, Place DEF update_lock
<1>10. ASSUME NEW u \in Updaters, UpdateStep(u) PROVE TreesInv'
  <2>1. CASE update_begin(u)
    BY <1>0, <2>1, Place DEF update_begin
  <2>2. CASE runindexer(u)
    BY <1>0, <2>2, Place DEF runindexer
  <2>3. CASE startprocess(u)
    BY <1>0, <2>3, Place DEF startprocess
  <2>4. CASE indexerdone(u)
    BY <1>0, <2>4, Place DEF indexerdone
  <2>5. CASE poll(u)
    BY <1>0, <2>5, Place DEF poll
  <2>6. CASE reap(u)
    BY <1>0, <2>6, Place DEF reap
  <2>7. CASE buildtrees(u)
    <3>1. CASE GoTo(u, "failed") /\ UNCHANGED <<newtrees, nextgen>>
      BY <1>0, <2>7, <3>1, Place DEF buildtrees
    <3>2. CASE GoTo(u, "publish") /\ newtrees' = [newtrees EXCEPT ![u] = nextgen] /\ nextgen' = nextgen + 1
      BY <1>0, <2>7, <3>2, Place DEF buildtrees
    <3> QED
      BY <2>7, <3>1, <3>2 DEF buildtrees
  <2>8. CASE publishtrees(u)
    BY <1>0, <2>8, Place DEF publishtrees
  <2>9. CASE update_ok(u)
    BY <1>0, <2>9, Place DEF update_ok
  <2>10. CASE update_failed(u)
    BY <1>0, <2>10, Place DEF update_failed
  <2>11. CASE update_end(u)
    BY <1>0, <2>11, Place DEF update_end
  <2> QED
    BY <1>10, <2>1, <2>2, <2>3, <2>4, <2>5, <2>6, <2>7, <2>8, <2>9, <2>10, <2>11 DEF UpdateStep
<1>11. CASE RecollindexExits
  BY <1>0, <1>11 DEF RecollindexExits
<1>12. CASE UNCHANGED vars
  BY <1>0, <1>12 DEF vars
<1> QED
  BY <1>1, <1>2, <1>3, <1>4, <1>5, <1>6, <1>7, <1>8, <1>9, <1>10, <1>11, <1>12 DEF Next, MainStep, WebStep

\* A request which found g_initstatus set finds trees, whatever the updates which run at the
\* same time do (uprclinit.py 136-144).
THEOREM RequestsFindTrees == Spec => []AnswersHaveTrees
<1>1. TreesInv => AnswersHaveTrees
  BY DEF TreesInv
<1> QED
  BY <1>1, LockInit_, LockNext, TreesInit, TreesNext, PTL DEF Spec

-----------------------------------------------------------------------------
\* The trees of one update.  Between the two write locks of the only update alive the flag is
\* set and no request is inside: those which were there have left before it was set.
InTrees == {"entered", "root", "dispatch", "search"}
InUpdate == {"run", "popen", "done?", "poll", "reap", "build", "publish", "ok", "failed", "finish", "clear"}

GenInv ==
  /\ ~overlap =>
       /\ \A u, v \in Alive : u = v
       /\ \A u \in Updaters : pc[u] \in InUpdate => initrunning /\ pc[Main] \notin InTrees
       /\ pc[Main] \in InTrees => \A i \in 1..Len(used) : used[i] = trees
  /\ OneGeneration

LEMMA GenInit == Init => GenInv
<1> SUFFICES ASSUME Init PROVE GenInv
  OBVIOUS
<1>1. PICK first \in SUBSET Updaters :
        /\ Cardinality(first) <= 1
        /\ pc = [t \in Threads |-> IF t \in first THEN "begin"
                                   ELSE IF t \in Updaters THEN "unstarted"
                                   ELSE IF t \in Web /\ first = {} THEN "absent" ELSE "idle"]
  BY DEF Init
<1>2. Main \in Threads /\ Updaters \subseteq Threads /\ IsFiniteSet(Threads)
  BY ThreadsAssumption
<1>3. Alive = first
  BY <1>1, <1>2 DEF Alive
<1>4. IsFiniteSet(first) /\ Cardinality(first) \in Nat
  BY <1>2, FS_Subset, FS_CardinalityType
<1>5. \A u, v \in first : u = v
  <2> SUFFICES ASSUME NEW u \in first, NEW v \in first, u # v PROVE FALSE
    OBVIOUS
  <2>1. Cardinality(first \ {u}) = Cardinality(first) - 1 /\ IsFiniteSet(first \ {u})
    BY <1>4, FS_RemoveElement
  <2>2. Cardinality(first \ {u}) \in Nat
    BY <2>1, FS_CardinalityType
  <2>3. first \ {u} = {}
    BY <1>1, <1>4, <2>1, <2>2, FS_EmptySet
  <2> QED
    BY <2>3
<1>6. \A t \in Threads : pc[t] \in {"begin", "unstarted", "absent", "idle"}
  BY <1>1
<1> QED
  BY <1>2, <1>3, <1>5, <1>6, SMT DEF Init, GenInv, InTrees, InUpdate, OneGeneration

\* The readers are gone when a writer is inside.
LEMMA WriterAlone ==
  ASSUME LockInv, NEW u \in Threads, pc[u] \in {"set", "clear"}
  PROVE  pc[Main] \notin InTrees
<1>1. R(pc) = {}
  <2>1. holder = u /\ u # NoThread
    BY NoThreadAssumption DEF LockInv
  <2> QED
    BY <2>1, CountNat, FS_EmptySet DEF LockInv
<1> QED
  BY <1>1, ThreadsAssumption DEF R, ReadLabels, InTrees

LEMMA GenNext == LockInv /\ LockInv' /\ TreesInv /\ GenInv /\ [Next]_vars => GenInv'
<1> SUFFICES ASSUME LockInv, LockInv', TreesInv, GenInv, [Next]_vars PROVE GenInv'
  OBVIOUS
<1> USE DEF GenInv, OneGeneration, InTrees, InUpdate, initVars, appVars
<1>0. Main \in Threads /\ Web \subseteq Threads /\ Updaters \subseteq Threads /\ Main \notin Updaters /\ Main \notin Web
      /\ Web \cap Updaters = {} /\ pc \in [Threads -> Labels] /\ pc' \in [Threads -> Labels]
      /\ used \in Seq(Nat)
  BY ThreadsAssumption DEF LockInv, TreesInv
\* The main loop and the web interface do not move the updates, but for start_index_update().
<1>a. ASSUME NEW t \in Threads \ Updaters, NEW l, GoTo(t, l)
      PROVE  Alive' = Alive /\ \A u \in Updaters : pc'[u] = pc[u]
  <2>1. \A u \in Updaters : pc'[u] = pc[u]
    BY <1>0, <1>a, Place
  <2> QED
    BY <2>1 DEF Alive
<1>1. CASE initdone
  <2>1. UNCHANGED <<trees, initrunning, overlap>> /\ used' = <<>>
    BY <1>1 DEF initdone
  <2>2. GoTo(Main, "leave") \/ (GoTo(Main, "entered") /\ ~initrunning)
    BY <1>1 DEF initdone
  <2>3. Alive' = Alive /\ \A u \in Updaters : pc'[u] = pc[u]
    BY <1>0, <1>a, <2>2
  <2>4. pc'[Main] = "leave" \/ ~initrunning
    BY <1>0, <2>2, Place
  <2> QED
    BY <2>1, <2>3, <2>4
<1>2. CASE dispatch_request
  <2>1. PICK l : GoTo(Main, l)
    BY <1>2 DEF dispatch_request
  <2>2. UNCHANGED <<trees, initrunning, overlap, used>> /\ pc[Main] \in InTrees
    BY <1>2 DEF dispatch_request
  <2> QED
    BY <1>0, <1>a, <2>1, <2>2
<1>3. ASSUME NEW l, GoTo(Main, l), pc[Main] \in InTrees, UNCHANGED <<trees, initrunning, overlap>>,
             used' \in {<<trees>>, <<>>, Append(used, trees)}
      PROVE  GenInv'
  <2>1. ~overlap => \A i \in 1..Len(used') : used'[i] = trees
    <3>1. CASE used' \in {<<trees>>, <<>>}
      BY <3>1
    <3>2. CASE used' = Append(used, trees)
      BY <1>0, <1>3, <3>2
    <3> QED
      BY <1>3, <3>1, <3>2
  <2> QED
    BY <1>0, <1>a, <1>3, <2>1
<1>4. CASE rootentries
  <2>1. \E l : GoTo(Main, l)
    BY <1>4 DEF rootentries
  <2> QED
    BY <1>3, <1>4, <2>1 DEF rootentries, ReadTree
<1>5. CASE browsedispatch
  <2>1. CASE UNCHANGED pc
    <3>1. GoTo(Main, pc[Main])
      BY <1>0, <2>1 DEF GoTo
    <3> QED
      BY <1>3, <1>5, <3>1 DEF browsedispatch, ReadTree
  <2>2. CASE GoTo(Main, "leave")
    BY <1>3, <1>5, <2>2 DEF browsedispatch, ReadTree
  <2> QED
    BY <1>5, <2>1, <2>2 DEF browsedispatch
<1>6. CASE search
  BY <1>3, <1>6 DEF search
<1>7. CASE answer
  <2>1. GoTo(Main, "idle") /\ UNCHANGED <<trees, initrunning, overlap, used>>
    BY <1>7 DEF answer
  <2>2. pc'[Main] = "idle"
    BY <1>0, <2>1, Place
  <2> QED
    BY <1>0, <1>a, <2>1, <2>2
<1>8. ASSUME NEW w \in Web, WebUpdate(w) \/ WebRefused(w) \/ WebRelease(w) PROVE GenInv'
  <2>1. PICK l : GoTo(w, l)
    BY <1>8 DEF WebUpdate, WebRefused, WebRelease
  <2>2. UNCHANGED <<trees, initrunning, overlap, used>>
    BY <1>8 DEF WebUpdate, WebRefused, WebRelease
  <2>3. Alive' = Alive /\ (\A u \in Updaters : pc'[u] = pc[u]) /\ pc'[Main] = pc[Main]
    BY <1>0, <1>a, <2>1, Place
  <2> QED
    BY <1>0, <2>2, <2>3
<1>9. ASSUME NEW w \in Web, start_index_update(w) PROVE GenInv'
  <2>1. UNCHANGED <<trees, initrunning, used>>
    BY <1>9 DEF start_index_update
  <2>2. CASE GoTo(w, "idle") /\ UNCHANGED overlap
    <3>1. Alive' = Alive /\ (\A u \in Updaters : pc'[u] = pc[u]) /\ pc'[Main] = pc[Main]
      BY <1>0, <1>a, <2>2, Place
    <3> QED
      BY <1>0, <2>1, <2>2, <3>1
  <2>3. ASSUME NEW u \in Unstarted, pc' = [pc EXCEPT ![w] = "idle", ![u] = "begin"],
               overlap' = (overlap \/ Alive # {})
        PROVE  GenInv'
    <3>1. pc'[Main] = pc[Main] /\ \A v \in Updaters : pc'[v] = IF v = u THEN "begin" ELSE pc[v]
      BY <1>0, <2>3 DEF Unstarted
    <3>2. Alive' \subseteq Alive \cup {u}
      BY <3>1 DEF Alive
    <3> QED
      BY <1>0, <2>1, <2>3, <3>1, <3>2
  <2> QED
    BY <1>9, <2>2, <2>3 DEF start_index_update
\* An update which goes on remains the only one.
<1>b. ASSUME NEW u \in Updaters, pc[u] \notin {"unstarted", "ended"}, NEW l, GoTo(u, l)
      PROVE  /\ Alive' \subseteq Alive /\ u \in Alive
             /\ pc'[Main] = pc[Main]
             /\ \A v \in Updaters : pc'[v] = IF v = u THEN l ELSE pc[v]
  <2>1. pc'[Main] = pc[Main] /\ \A v \in Updaters : pc'[v] = IF v = u THEN l ELSE pc[v]
    BY <1>0, <1>b, Place
  <2> QED
    BY <1>b, <2>1 DEF Alive
<1>10. ASSUME NEW u \in Updaters, update_lock(u) PROVE GenInv'
  <2>1. UNCHANGED <<trees, initrunning, overlap, used>>
    BY <1>10 DEF update_lock
  <2>2. CASE UNCHANGED pc
    BY <1>0, <2>1, <2>2 DEF Alive
  <2>3. CASE pc[u] = "begin" /\ GoTo(u, "set")
    BY <1>0, <1>b, <2>1, <2>3
  <2>4. CASE pc[u] = "finish" /\ GoTo(u, "clear")
    BY <1>0, <1>b, <2>1, <2>4
  <2> QED
    BY <1>10, <2>2, <2>3, <2>4 DEF update_lock
<1>11. ASSUME NEW u \in Updaters, UpdateStep(u) PROVE GenInv'
  <2>1. CASE update_begin(u)
    <3>1. GoTo(u, "run") /\ pc[u] = "set" /\ initrunning' /\ UNCHANGED <<trees, overlap, used>>
      BY <2>1 DEF update_begin
    <3>2. pc[Main] \notin InTrees
      BY <1>0, <3>1, WriterAlone
    <3> QED
      BY <1>0, <1>b, <3>1, <3>2
  <2>2. CASE update_end(u)
    <3>1. GoTo(u, "ended") /\ pc[u] = "clear" /\ UNCHANGED <<trees, overlap, used>>
      BY <2>2 DEF update_end
    <3>2. ~overlap => \A v \in Updaters : pc[v] \in InUpdate => v = u
      BY <1>0, <1>b, <3>1 DEF Alive
    <3> QED
      BY <1>0, <1>b, <3>1, <3>2
  <2>3. CASE publishtrees(u)
    <3>1. GoTo(u, "ok") /\ pc[u] = "publish" /\ UNCHANGED <<initrunning, overlap, used>>
      BY <2>3 DEF publishtrees
    <3> QED
      BY <1>0, <1>b, <3>1
  <2>4. ASSUME NEW l \in InUpdate, GoTo(u, l), pc[u] \in InUpdate, UNCHANGED <<trees, initrunning, overlap, used>>
        PROVE  GenInv'
    BY <1>0, <1>b, <2>4
  <2>5. CASE runindexer(u) \/ startprocess(u) \/ indexerdone(u) \/ poll(u) \/ reap(u)
    BY <2>4, <2>5 DEF runindexer, startprocess, indexerdone, poll, reap
  <2>6. CASE buildtrees(u) \/ update_ok(u) \/ update_failed(u)
    BY <2>4, <2>6 DEF buildtrees, update_ok, update_failed
  <2> QED
    BY <1>11, <2>1, <2>2, <2>3, <2>5, <2>6 DEF UpdateStep
<1>12. CASE RecollindexExits
  BY <1>0, <1>12 DEF RecollindexExits, Alive
<1>13. CASE UNCHANGED vars
  BY <1>0, <1>13 DEF vars, Alive
<1> QED
  BY <1>1, <1>2, <1>4, <1>5, <1>6, <1>7, <1>8, <1>9, <1>10, <1>11, <1>12, <1>13 DEF Next, MainStep, WebStep

\* As long as no two updates are alive together the trees are not replaced under a request,
\* although _g_trees is set without the lock (uprclinit.py 107-148).
THEOREM TreesOfOneUpdate == Spec => []OneGeneration
<1>1. GenInv => OneGeneration
  BY DEF GenInv
<1> QED
  BY <1>1, LockInit_, LockNext, TreesInit, TreesNext, GenInit, GenNext, PTL DEF Spec
=============================================================================
