-------------------------- MODULE MetaCacheProofs ---------------------------
(***************************************************************************)
(* Proofs about MetaCache, for all sets of tracks and all bounds: the file *)
(* always comes from one save, and is all of it without faults; saves are  *)
(* taken latest first and never reach the file in the wrong order.  Then   *)
(* about MetaCodec, for all strings: what is written is what is read.      *)
(***************************************************************************)
EXTENDS MetaCache, MetaCodec, SequenceTheorems, WellFoundedInduction, TLAPS

\* What every snapshot is: the lines of its version.
Saved(s) == s \in Snapshot /\ s.ver \in 1..Len(history) /\ s.lines = history[s.ver]

\* The saves which are under way, in the order file, running, tasks.
QueueInv ==
    /\ tasks # <<>> => tasks = <<tasks[1]>> /\ Saved(tasks[1]) /\ tasks[1].ver = Len(history)
    /\ running[Saver] # None => Saved(running[Saver]) /\ file.ver <= running[Saver].ver

FileInv ==
    /\ file.ver \in 1..Len(history)
    /\ file.lines \subseteq history[file.ver]
    /\ ~failed => file.lines = history[file.ver]

TmpInv ==
    /\ wpc \in {"write", "rename"} =>
          tmp.ver = running[Saver].ver /\ tmp.lines \subseteq running[Saver].lines
    /\ wpc = "rename" /\ ~failed => tmp.lines = running[Saver].lines

IInv == TypeOK /\ QueueInv /\ FileInv /\ TmpInv

-----------------------------------------------------------------------------
(* The state *)

LEMMA SequenceFacts ==
    ASSUME NEW S, NEW s \in Seq(S), NEW e \in S
    PROVE  /\ Append(s, e) \in Seq(S) /\ Len(Append(s, e)) = Len(s) + 1
           /\ \A i \in 1..Len(s) : Append(s, e)[i] = s[i]
           /\ Append(s, e)[Len(s) + 1] = e
           /\ Len(s) \in Nat
  OBVIOUS

LEMMA LinesType ==
    ASSUME NEW D \in SUBSET Uri, NEW m \in [D -> Meta]
    PROVE  Lines(m) \in SUBSET Line
  BY DEF Lines, Line

LEMMA InitInv == Init => IInv
<1> SUFFICES ASSUME Init PROVE IInv
  OBVIOUS
<1>1. mem \in [{} -> Meta]
  BY DEF Init
<1>2. running = [w \in {Saver} |-> None] /\ tasks = <<>> /\ running[Saver] = None
  BY DEF Init, TQ!Init
<1>3. file = [ver |-> 1, lines |-> {}] /\ file \in Snapshot
  BY SavesAssumption DEF Init, Snapshot
<1>4. history = <<{}>> /\ Len(history) = 1 /\ history[1] = {} /\ history \in Seq(SUBSET Line)
  BY DEF Init
<1>5. TypeOK
  <2>1. running \in [{Saver} -> Snapshot \cup {None}] /\ tasks \in Seq(Snapshot) /\ Len(tasks) <= 1
    BY <1>2
  <2>2. Len(history) \in 1..MaxSaves
    BY <1>4, SavesAssumption
  <2>3. restarts \in 0..MaxRestarts
    BY SavesAssumption DEF Init
  <2> QED BY <1>1, <1>2, <1>3, <1>4, <2>1, <2>2, <2>3 DEF Init, TypeOK
<1>6. QueueInv
  BY <1>2 DEF QueueInv
<1>7. FileInv
  BY <1>3, <1>4 DEF FileInv
<1>8. TmpInv
  BY DEF Init, TmpInv
<1> QED BY <1>5, <1>6, <1>7, <1>8 DEF IInv

-----------------------------------------------------------------------------
(* The steps *)

LEMMA CacheSetInv == ASSUME IInv, NEW u \in Uri, NEW m \in Meta, CacheSet(u, m) PROVE IInv'
<1>1. PICK D \in SUBSET Uri : mem \in [D -> Meta]
  BY DEF IInv, TypeOK
<1>2. D \cup {u} \in SUBSET Uri /\ mem' \in [D \cup {u} -> Meta]
  BY <1>1 DEF CacheSet, Meta
<1>3. \E E \in SUBSET Uri : mem' \in [E -> Meta]
  BY <1>2
<1>4. UNCHANGED <<tasks, running, wpc, tmp, file, failed, history, retitled, restarts>> /\ dirty' = TRUE
  BY DEF CacheSet, queue, files, ghosts
<1>5. TypeOK'
  BY <1>3, <1>4 DEF IInv, TypeOK
<1>6. QueueInv' /\ FileInv' /\ TmpInv'
  BY <1>4 DEF IInv, QueueInv, FileInv, TmpInv, Saved
<1> QED BY <1>5, <1>6 DEF IInv

\* What dmcacheSave() leaves: the old saves are the same, the new one waits.
LEMMA SaveInv ==
    ASSUME IInv, NEW m, \E D \in SUBSET Uri : m \in [D -> Meta],
           mem' = m, dirty' = FALSE, DmcacheSave(m), UNCHANGED <<wpc, files, failed, restarts>>
    PROVE  IInv'
<1> DEFINE n == Len(history) + 1
           s == [ver |-> n, lines |-> Lines(m)]
<1>1. Lines(m) \in SUBSET Line
  BY LinesType
<1>2. /\ history \in Seq(SUBSET Line) /\ Len(history) \in 1..MaxSaves
      /\ Len(history) < MaxSaves /\ history' = Append(history, Lines(m))
  BY DEF DmcacheSave, IInv, TypeOK
<1>3. /\ history' \in Seq(SUBSET Line) /\ Len(history') = n /\ n \in 1..MaxSaves
      /\ history'[n] = Lines(m) /\ \A i \in 1..Len(history) : history'[i] = history[i]
  BY <1>1, <1>2, SequenceFacts, SavesAssumption
<1>4. s \in Snapshot
  BY <1>1, <1>3 DEF Snapshot
<1>5. /\ tasks' = <<s>> /\ running' = running /\ retitled' = {}
      /\ UNCHANGED <<wpc, tmp, file, failed, restarts>>
  BY DEF DmcacheSave, TQ!Replace, files
<1>6. tasks' \in Seq(Snapshot) /\ Len(tasks') = 1 /\ tasks'[1] = s /\ tasks' = <<tasks'[1]>>
  BY <1>4, <1>5
<1>7. TypeOK'
  <2>1. (\E D \in SUBSET Uri : mem' \in [D -> Meta]) /\ dirty' \in BOOLEAN
    OBVIOUS
  <2>2. tasks' \in Seq(Snapshot) /\ Len(tasks') <= 1
    BY <1>6
  <2>3. history' \in Seq(SUBSET Line) /\ Len(history') \in 1..MaxSaves
    BY <1>3
  <2> HIDE DEF s, n
  <2> QED BY <1>5, <2>1, <2>2, <2>3 DEF IInv, TypeOK
<1>8. 1..Len(history) \subseteq 1..Len(history')
  BY <1>2, <1>3
<1>9. QueueInv'
  <2>1. tasks'[1].ver = Len(history') /\ Saved(tasks[1])'
    BY <1>3, <1>4, <1>6 DEF Saved, Snapshot
  <2>2. running[Saver] # None => Saved(running[Saver])' /\ file.ver <= running[Saver].ver
    BY <1>3, <1>5, <1>8 DEF IInv, QueueInv, Saved
  <2> QED BY <1>5, <1>6, <2>1, <2>2 DEF QueueInv
<1>10. FileInv'
  BY <1>3, <1>5, <1>8 DEF IInv, FileInv
<1>11. TmpInv'
  BY <1>5 DEF IInv, TmpInv
<1> QED BY <1>7, <1>9, <1>10, <1>11 DEF IInv

LEMMA MakeIdArrayInv == ASSUME IInv, NEW q \in SUBSET Uri, MakeIdArray(q) PROVE IInv'
<1> DEFINE m == [u \in q |-> IF u \in DOMAIN mem THEN mem[u] ELSE "title"]
<1>1. PICK D \in SUBSET Uri : mem \in [D -> Meta]
  BY DEF IInv, TypeOK
<1>2. m \in [q -> Meta]
  BY <1>1 DEF Meta, Titles
<1>3. \E E \in SUBSET Uri : m \in [E -> Meta]
  BY <1>2
<1>4. mem' = m /\ UNCHANGED <<wpc, files, failed, restarts>>
  BY DEF MakeIdArray
<1>5. CASE MustSave(m)
  <2>1. DmcacheSave(m) /\ dirty' = FALSE
    BY <1>5 DEF MakeIdArray
  <2> HIDE DEF m
  <2> QED BY <1>3, <1>4, <2>1, SaveInv
<1>6. CASE ~MustSave(m)
  <2>1. UNCHANGED <<dirty, tasks, running, history, retitled, wpc, tmp, file, failed, restarts>>
    BY <1>4, <1>6 DEF MakeIdArray, queue, files
  <2> HIDE DEF m
  <2>2. TypeOK'
    BY <1>3, <1>4, <2>1 DEF IInv, TypeOK
  <2>3. QueueInv' /\ FileInv' /\ TmpInv'
    BY <2>1 DEF IInv, QueueInv, FileInv, TmpInv, Saved
  <2> QED BY <2>2, <2>3 DEF IInv
<1> QED BY <1>5, <1>6
LEMMA MakeIdArraySameInv == ASSUME IInv, NEW u \in Uri, MakeIdArraySame(u) PROVE IInv'
<1>1. PICK D \in SUBSET Uri : mem \in [D -> Meta]
  BY DEF IInv, TypeOK
<1>2. mem' \in [D -> Meta]
  BY <1>1 DEF MakeIdArraySame, Meta, Titles
<1>3. UNCHANGED <<dirty, tasks, running, wpc, tmp, file, failed, history, restarts>>
  BY DEF MakeIdArraySame, queue, files
<1>4. retitled' \subseteq Uri
  BY DEF MakeIdArraySame, IInv, TypeOK
<1>5. TypeOK'
  BY <1>2, <1>3, <1>4 DEF IInv, TypeOK
<1>6. QueueInv' /\ FileInv' /\ TmpInv'
  BY <1>3 DEF IInv, QueueInv, FileInv, TmpInv, Saved
<1> QED BY <1>5, <1>6 DEF IInv

LEMMA TakeSnapshotInv == ASSUME IInv, TakeSnapshot PROVE IInv'
<1>1. tasks = <<tasks[1]>> /\ Saved(tasks[1]) /\ tasks[1].ver = Len(history)
  BY DEF TakeSnapshot, TQ!Take, IInv, QueueInv
<1>2. tasks' = <<>> /\ tasks' \in Seq(Snapshot) /\ Len(tasks') <= 1 /\ Head(tasks) = tasks[1]
  <2>1. tasks' = Tail(tasks)
    BY DEF TakeSnapshot, TQ!Take
  <2>2. PICK s : tasks = <<s>>
    BY <1>1
  <2>3. Tail(tasks) = <<>> /\ Head(tasks) = tasks[1]
    BY <2>2
  <2>4. tasks' = <<>>
    BY <2>1, <2>3
  <2>5. tasks' \in Seq(Snapshot) /\ Len(tasks') <= 1
    BY <2>4
  <2> QED BY <2>3, <2>4, <2>5
<1>3. /\ running' \in [{Saver} -> Snapshot \cup {None}] /\ running'[Saver] = tasks[1]
      /\ running'[Saver] # None
  BY <1>1, <1>2, NoneAssumption DEF TakeSnapshot, TQ!Take, IInv, TypeOK, Saved
<1>4. wpc' = "open" /\ UNCHANGED <<mem, dirty, tmp, file, failed, history, retitled, restarts>>
  BY DEF TakeSnapshot, service, files, ghosts
<1>5. TypeOK'
  BY <1>2, <1>3, <1>4 DEF IInv, TypeOK
<1>6. QueueInv'
  <2>1. file.ver <= tasks[1].ver
    BY <1>1 DEF IInv, FileInv, TypeOK
  <2> QED BY <1>1, <1>2, <1>3, <1>4, <2>1 DEF QueueInv, Saved
<1>7. FileInv' /\ TmpInv'
  BY <1>4 DEF IInv, FileInv, TmpInv
<1> QED BY <1>5, <1>6, <1>7 DEF IInv

LEMMA OpenInv == ASSUME IInv, Open PROVE IInv'
<1> DEFINE t == [ver |-> running[Saver].ver, lines |-> {}]
<1>1. running[Saver] # None /\ running[Saver] \in Snapshot
  BY DEF Open, IInv, TypeOK
<1>2. t \in Snapshot /\ t # None
  BY <1>1, NoneAssumption DEF Snapshot
<1>3. tmp' = t /\ wpc' = "write" /\ UNCHANGED <<mem, dirty, tasks, running, file, failed, history, retitled, restarts>>
  BY DEF Open, Truncated, service, queue, ghosts
<1>4. TypeOK'
  <2> HIDE DEF t
  <2> QED BY <1>1, <1>2, <1>3 DEF IInv, TypeOK
<1>5. QueueInv' /\ FileInv'
  BY <1>3 DEF IInv, QueueInv, FileInv, Saved
<1>6. TmpInv'
  BY <1>3 DEF TmpInv
<1> QED BY <1>4, <1>5, <1>6 DEF IInv

\* A step which ends the work on a snapshot and leaves the file.
LEMMA FinishInv ==
    ASSUME IInv, TQ!Finish(Saver), wpc' = "take", tmp' \in Snapshot \cup {None},
           UNCHANGED <<service, history, retitled, restarts>>, failed' \in BOOLEAN,
           file' \in Snapshot, FileInv'
    PROVE  IInv'
<1>1. running' \in [{Saver} -> Snapshot \cup {None}] /\ running'[Saver] = None
  BY DEF TQ!Finish, IInv, TypeOK
<1>2. UNCHANGED <<tasks, mem, dirty, history, retitled, restarts>>
  BY DEF TQ!Finish, service
<1>3. TypeOK'
  BY <1>1, <1>2 DEF IInv, TypeOK
<1>4. QueueInv'
  BY <1>1, <1>2 DEF IInv, QueueInv, Saved
<1>5. TmpInv'
  BY DEF TmpInv
<1> QED BY <1>3, <1>4, <1>5 DEF IInv

LEMMA OpenFailsInv == ASSUME IInv, OpenFails PROVE IInv'
<1>1. TQ!Finish(Saver) /\ wpc' = "take" /\ UNCHANGED <<service, tmp, file, history, retitled, restarts>>
  BY DEF OpenFails, files
<1>2. tmp' \in Snapshot \cup {None} /\ file' \in Snapshot
  BY <1>1 DEF IInv, TypeOK
<1>3. FileInv' /\ failed' \in BOOLEAN
  BY <1>1, Zenon DEF OpenFails, IInv, FileInv
<1> QED BY <1>1, <1>2, <1>3, FinishInv

LEMMA WriteLineInv == ASSUME IInv, WriteLine PROVE IInv'
<1>1. running[Saver] # None /\ running[Saver] \in Snapshot /\ tmp \in Snapshot
  BY DEF WriteLine, IInv, TypeOK
<1>2. PICK l \in running[Saver].lines \ tmp.lines : tmp' = [tmp EXCEPT !.lines = @ \cup {l}]
  BY DEF WriteLine
<1>3. /\ tmp' \in Snapshot /\ tmp' # None /\ tmp'.ver = tmp.ver
      /\ tmp'.lines = tmp.lines \cup {l}
  BY <1>1, <1>2, NoneAssumption DEF Snapshot
<1>4. wpc = "write" /\ UNCHANGED <<mem, dirty, tasks, running, wpc, file, failed, history, retitled, restarts>>
  BY DEF WriteLine, service, queue, ghosts
<1>5. TypeOK'
  BY <1>3, <1>4 DEF IInv, TypeOK
<1>6. QueueInv' /\ FileInv'
  BY <1>4 DEF IInv, QueueInv, FileInv, Saved
<1>7. TmpInv'
  BY <1>2, <1>3, <1>4 DEF IInv, TmpInv
<1> QED BY <1>5, <1>6, <1>7 DEF IInv

LEMMA EndWriteInv == ASSUME IInv, EndWrite PROVE IInv'
<1>1. /\ wpc = "write" /\ wpc' = "rename"
      /\ UNCHANGED <<mem, dirty, tasks, running, tmp, file, history, retitled, restarts>>
  BY DEF EndWrite, service, queue, files
<1>2. failed' \in BOOLEAN /\ (~failed' => ~failed /\ Complete)
  BY Zenon DEF EndWrite, IInv, TypeOK
<1>3. TypeOK'
  BY <1>1, <1>2 DEF IInv, TypeOK
<1>4. QueueInv' /\ FileInv'
  BY <1>1, <1>2 DEF IInv, QueueInv, FileInv, Saved
<1>5. TmpInv'
  BY <1>1, <1>2 DEF IInv, TmpInv, Complete
<1> QED BY <1>3, <1>4, <1>5 DEF IInv

\* What is renamed: a part of the snapshot of its version, not older than the file.
LEMMA RenameFile ==
    ASSUME IInv, Rename
    PROVE  /\ file' \in Snapshot /\ file'.ver \in 1..Len(history) /\ file'.ver >= file.ver
           /\ file'.lines \subseteq history[file'.ver]
           /\ failed' \in BOOLEAN
           /\ ~failed' => file'.lines = history[file'.ver]
<1>1. wpc = "rename" /\ running[Saver] # None /\ Len(history) \in Nat
  BY DEF Rename, IInv, TypeOK
<1>2. /\ tmp \in Snapshot /\ tmp.ver = running[Saver].ver
      /\ tmp.lines \subseteq running[Saver].lines
      /\ ~failed => tmp.lines = running[Saver].lines
  BY <1>1 DEF IInv, TypeOK, TmpInv
<1>3. Saved(running[Saver]) /\ file.ver <= running[Saver].ver
  BY <1>1 DEF IInv, QueueInv
<1>4. CASE file' = tmp /\ UNCHANGED failed
  <2>1. failed' \in BOOLEAN
    BY <1>4, Zenon DEF IInv, TypeOK
  <2> QED BY <1>1, <1>2, <1>3, <1>4, <2>1 DEF Saved, IInv, FileInv
<1>5. CASE failed' = TRUE /\ file' = file
  BY <1>1, <1>5 DEF IInv, FileInv, TypeOK
<1> QED BY <1>4, <1>5 DEF Rename, files

LEMMA RenameInv == ASSUME IInv, Rename PROVE IInv'
<1>1. /\ TQ!Finish(Saver) /\ wpc' = "take" /\ UNCHANGED <<service, history, retitled, restarts>>
      /\ tmp' = None \/ tmp' = tmp
  BY DEF Rename, files
<1>2. tmp' \in Snapshot \cup {None}
  BY <1>1 DEF IInv, TypeOK
<1>3. FileInv'
  BY <1>1, RenameFile DEF FileInv
<1> QED BY <1>1, <1>2, <1>3, RenameFile, FinishInv

LEMMA RestartInv == ASSUME IInv, Restart PROVE IInv'
<1>1. PICK lines \in Restored(file.lines) :
         mem' = [u \in {l[1] : l \in lines} |-> (CHOOSE l \in lines : l[1] = u)[2]]
  BY DEF Restart
<1>2. lines \subseteq file.lines /\ file.lines \subseteq Line
  <2>1. file \in Snapshot
    BY DEF IInv, TypeOK
  <2> QED BY <2>1 DEF Restored, Snapshot
<1>3. {l[1] : l \in lines} \in SUBSET Uri
  BY <1>2 DEF Line
<1>4. \A u \in {l[1] : l \in lines} : (CHOOSE l \in lines : l[1] = u)[2] \in Meta
  <2> SUFFICES ASSUME NEW u \in {l[1] : l \in lines}
               PROVE  (CHOOSE l \in lines : l[1] = u)[2] \in Meta
    OBVIOUS
  <2>1. \E l \in lines : l[1] = u
    OBVIOUS
  <2>2. (CHOOSE l \in lines : l[1] = u) \in lines
    BY <2>1
  <2> QED BY <1>2, <2>2 DEF Line
<1>5. mem' \in [{l[1] : l \in lines} -> Meta]
  BY <1>1, <1>4
<1>6. \E D \in SUBSET Uri : mem' \in [D -> Meta]
  BY <1>3, <1>5
<1>7. /\ running' \in [{Saver} -> Snapshot \cup {None}] /\ running'[Saver] = None
      /\ tasks' = <<>> /\ wpc' = "take" /\ dirty' = FALSE /\ retitled' = {}
      /\ restarts' \in 0..MaxRestarts /\ UNCHANGED <<tmp, file, failed, history>>
  BY SavesAssumption DEF Restart, files, IInv, TypeOK
<1>8. TypeOK'
  <2>1. tasks' \in Seq(Snapshot) /\ Len(tasks') <= 1
    BY <1>7
  <2> QED BY <1>6, <1>7, <2>1 DEF IInv, TypeOK
<1>9. QueueInv' /\ FileInv' /\ TmpInv'
  BY <1>7 DEF IInv, QueueInv, FileInv, TmpInv
<1> QED BY <1>8, <1>9 DEF IInv

LEMMA StepInv == ASSUME IInv, [Next]_vars PROVE IInv'
<1>1. CASE Service
  BY <1>1, CacheSetInv DEF Service, Meta, Titles
<1>2. CASE Array
  BY <1>2, MakeIdArrayInv, MakeIdArraySameInv DEF Array
<1>3. CASE SaveThread
  BY <1>3, TakeSnapshotInv, OpenInv, OpenFailsInv, WriteLineInv, EndWriteInv, RenameInv
     DEF SaveThread
<1>4. CASE Restart
  BY <1>4, RestartInv
<1>5. CASE UNCHANGED vars
  BY <1>5 DEF vars, service, queue, files, ghosts, IInv, TypeOK, QueueInv, FileInv, TmpInv, Saved
<1> QED BY <1>1, <1>2, <1>3, <1>4, <1>5 DEF Next

-----------------------------------------------------------------------------
(* The theorems *)

\* The inductive invariant: where each snapshot on its way to the file comes from.
THEOREM Invariance == Spec => []IInv
  BY InitInv, StepInv, PTL DEF Spec

\* The types, and that at most one snapshot waits on the queue.
THEOREM TypeCorrect == Spec => []TypeOK
<1>1. IInv => TypeOK
  BY DEF IInv
<1> QED BY <1>1, Invariance, PTL

\* With errors of the file system and restarts anywhere, the file never mixes two caches.
THEOREM FromOneSave == Spec => []FileFromOneSave
<1>1. IInv => FileFromOneSave
  BY DEF IInv, FileInv, FileFromOneSave
<1> QED BY <1>1, Invariance, PTL

\* As long as no write fails, the temporary file and the rename make the replacement
\* of the file atomic.
THEOREM IsOneSave == Spec => []FileIsOneSave
<1>1. IInv => FileIsOneSave
  BY DEF IInv, FileInv, FileIsOneSave
<1> QED BY <1>1, Invariance, PTL

\* What was saved later stays, in the process and across restarts.
THEOREM NeverOlder == Spec => FileNeverOlder
<1>1. ASSUME IInv, [Next]_vars PROVE [file'.ver >= file.ver]_file
  <2>1. CASE Rename
    BY <2>1, <1>1, RenameFile
  <2>2. CASE Service \/ Array \/ Restart \/ TakeSnapshot \/ Open \/ OpenFails \/ WriteLine \/ EndWrite
    <3>1. UNCHANGED file
      BY <2>2 DEF Service, Array, Restart, TakeSnapshot, Open, OpenFails, WriteLine, EndWrite,
         CacheSet, MakeIdArray, MakeIdArraySame, files
    <3> QED BY <3>1
  <2>3. CASE UNCHANGED vars
    BY <2>3 DEF vars, files
  <2> QED BY <1>1, <2>1, <2>2, <2>3 DEF Next, SaveThread
<1> QED BY <1>1, Invariance, PTL DEF Spec, FileNeverOlder

\* put() with flush: however many saves were requested, the thread takes the last.
THEOREM IsLatest == Spec => TakenIsLatest
<1> DEFINE A == running'[Saver] # None => running'[Saver].ver = Len(history)
<1>1. ASSUME IInv, [Next]_vars PROVE [A]_running
  <2>1. CASE TakeSnapshot
    <3>1. tasks # <<>> /\ tasks[1].ver = Len(history) /\ Head(tasks) = tasks[1]
      BY <2>1, <1>1 DEF TakeSnapshot, TQ!Take, IInv, QueueInv
    <3>2. running'[Saver] = tasks[1]
      BY <2>1, <1>1, <3>1 DEF TakeSnapshot, TQ!Take, IInv, TypeOK
    <3> QED BY <3>1, <3>2
  <2>2. CASE OpenFails \/ Rename \/ Restart
    <3>1. running'[Saver] = None
      BY <2>2, <1>1 DEF OpenFails, Rename, Restart, TQ!Finish, IInv, TypeOK
    <3> QED BY <3>1
  <2>3. CASE Service \/ Array \/ Open \/ WriteLine \/ EndWrite
    <3>1. UNCHANGED running
      BY <2>3 DEF Service, Array, Open, WriteLine, EndWrite, CacheSet, MakeIdArray, MakeIdArraySame, DmcacheSave,
         TQ!Replace, queue
    <3> QED BY <3>1
  <2>4. CASE UNCHANGED vars
    BY <2>4 DEF vars, queue
  <2> QED BY <1>1, <2>1, <2>2, <2>3, <2>4 DEF Next, SaveThread
<1> QED BY <1>1, Invariance, PTL DEF Spec, TakenIsLatest

-----------------------------------------------------------------------------
(* The line of an entry *)

\* Induction, for a set in the place of a formula.
LEMMA Upward ==
    ASSUME NEW n \in Nat, NEW T, 0 \in T, \A i \in 0..n - 1 : i \in T => i + 1 \in T
    PROVE  \A i \in 0..n : i \in T
<1> SUFFICES ASSUME NEW j \in 0..n, j \notin T PROVE FALSE
    OBVIOUS
<1> DEFINE R == OpToRel(<, Nat)
           U == {i \in 0..n : i \notin T}
<1>1. R = {p \in Nat \X Nat : p[1] < p[2]}
    BY Zenon DEF OpToRel
<1>2. IsWellFoundedOn(R, Nat)
    BY NatLessThanWellFounded
<1>3. U \subseteq Nat /\ U # {}
    OBVIOUS
<1> HIDE DEF R
<1>4. PICK i \in U : \A m \in U : ~(<<m, i>> \in R)
    BY <1>2, <1>3, WFMin
<1>5. i # 0 /\ i - 1 \in 0..n - 1 /\ i - 1 \notin U
    <2>1. i # 0 /\ i - 1 \in 0..n - 1
        OBVIOUS
    <2>2. <<i - 1, i>> \in R
        BY <1>1, <2>1
    <2>. QED BY <1>4, <2>1, <2>2
<1>6. i - 1 \in T /\ (i - 1) + 1 = i
    BY <1>5
<1>. QED BY <1>5, <1>6

\* What the loop of encode() has made of the first m characters.
Made(s, m, g) == g = [n \in 0..m |-> IF n = 0 THEN <<>> ELSE g[n - 1] \o Escape(s[n])]

LEMMA EncodeMakes == \A s : \E out : out = (CHOOSE g : Made(s, Len(s), g)) /\ Encode(s) = out[Len(s)]
BY DEF Encode, Made

\* What the loop of decode() makes of the rest from a position.
Read(s, i, g) ==
    CASE i > LastEscape(s) -> SubSeq(s, i, Len(s))
      [] i <= LastEscape(s) /\ s[i] = Percent -> Unescape(s[i + 1], s[i + 2]) \o g[i + 3]
      [] OTHER -> <<s[i]>> \o g[i + 1]
Reads(s, p, g) == g = [i \in p..(Len(s) + 1) |-> Read(s, i, g)]

LEMMA DecodeReads ==
    ASSUME NEW s
    PROVE  Decode(s) = IF Len(s) <= 2 THEN s ELSE (CHOOSE g : Reads(s, 1, g))[1]
BY Zenon DEF Decode, Reads, Read

\* The loops define their results: each depends on fewer characters.
LEMMA EncodeDefined ==
    ASSUME NEW s, Len(s) \in Nat
    PROVE  Made(s, Len(s), CHOOSE g : Made(s, Len(s), g))
<1> DEFINE T == {m \in 0..Len(s) : \E g : Made(s, m, g)}
<1>1. 0 \in T
    <2>1. PICK g : g = [i \in 0..0 |-> <<>>]
        OBVIOUS
    <2>2. Made(s, 0, g)
        BY <2>1 DEF Made
    <2>3. 0 \in 0..Len(s)
        OBVIOUS
    <2>. QED BY <2>2, <2>3, Zenon
<1>2. ASSUME NEW m \in 0..Len(s) - 1, m \in T PROVE m + 1 \in T
    <2>1. PICK g : g = [i \in 0..m |-> IF i = 0 THEN <<>> ELSE g[i - 1] \o Escape(s[i])]
        BY <1>2 DEF Made
    <2>2. PICK h : h = [i \in 0..m + 1 |-> IF i <= m THEN g[i] ELSE g[m] \o Escape(s[m + 1])]
        OBVIOUS
    <2>3. ASSUME NEW i \in 0..m + 1 PROVE h[i] = IF i = 0 THEN <<>> ELSE h[i - 1] \o Escape(s[i])
        <3>1. CASE i = 0
            <4>1. 0 \in 0..m /\ 0 \in 0..m + 1 /\ 0 <= m
                OBVIOUS
            <4>. QED BY <2>1, <2>2, <3>1, <4>1
        <3>2. CASE i \in 1..m
            <4>1. i \in 0..m /\ i - 1 \in 0..m + 1 /\ i - 1 <= m /\ i <= m /\ i # 0
                BY <3>2
            <4>2. h[i] = g[i] /\ h[i - 1] = g[i - 1] /\ g[i] = g[i - 1] \o Escape(s[i])
                BY <2>1, <2>2, <4>1
            <4>. QED BY <4>1, <4>2
        <3>3. CASE i = m + 1
            <4>1. m \in 0..m + 1 /\ ~(m + 1 <= m) /\ (m + 1) - 1 = m /\ m + 1 # 0 /\ m <= m
                OBVIOUS
            <4>2. h[m + 1] = g[m] \o Escape(s[m + 1]) /\ h[m] = g[m]
                BY <2>2, <4>1
            <4>. QED BY <3>3, <4>1, <4>2
        <3>. QED BY <3>1, <3>2, <3>3
    <2>4. h = [i \in 0..m + 1 |-> h[i]]
        BY <2>2
    <2>5. Made(s, m + 1, h)
        BY <2>3, <2>4 DEF Made
    <2>6. m + 1 \in 0..Len(s)
        OBVIOUS
    <2>. QED BY <2>5, <2>6, Zenon
<1>3. Len(s) \in T
    <2> HIDE DEF T
    <2>1. \A i \in 0..Len(s) : i \in T
        BY <1>1, <1>2, Upward
    <2>. QED BY <2>1
<1>. QED BY <1>3, Zenon

LEMMA DecodeDefined ==
    ASSUME NEW s, Len(s) \in Nat
    PROVE  Reads(s, 1, CHOOSE g : Reads(s, 1, g))
<1> DEFINE N == Len(s)
           T == {m \in 0..N : \E g : Reads(s, N + 1 - m, g)}
<1>1. 0 \in T
    <2>1. PICK g : g = [i \in (N + 1 - 0)..(N + 1) |-> SubSeq(s, i, N)]
        OBVIOUS
    <2>2. ASSUME NEW i \in (N + 1 - 0)..(N + 1) PROVE SubSeq(s, i, N) = Read(s, i, g)
        <3>1. i > LastEscape(s) /\ ~(i <= LastEscape(s))
            BY DEF LastEscape
        <3>. QED BY <3>1 DEF Read
    <2>3. Reads(s, N + 1 - 0, g)
        BY <2>1, <2>2 DEF Reads
    <2>4. 0 \in 0..N
        OBVIOUS
    <2>. QED BY <2>3, <2>4, Zenon
<1>2. ASSUME NEW m \in 0..N - 1, m \in T PROVE m + 1 \in T
    <2> DEFINE p == N + 1 - (m + 1)
    <2>1. p \in 1..N /\ N + 1 - m = p + 1 /\ m + 1 \in 0..N /\ N \in Nat
        OBVIOUS
    <2>2. PICK g : g = [i \in (p + 1)..(N + 1) |-> Read(s, i, g)]
        BY <1>2, <2>1 DEF Reads
    <2> HIDE DEF p, N
    <2>3. PICK h : h = [i \in p..(N + 1) |-> IF i > p THEN g[i] ELSE Read(s, i, g)]
        OBVIOUS
    <2>4. ASSUME NEW i \in p..(N + 1) PROVE h[i] = Read(s, i, h)
        <3>1. h[i] = Read(s, i, g)
            <4>1. CASE i > p
                <5>1. i \in (p + 1)..(N + 1)
                    BY <2>1, <4>1
                <5>2. g[i] = Read(s, i, g)
                    BY <2>2, <5>1
                <5>. QED BY <2>3, <4>1, <5>2
            <4>. QED BY <2>3, <4>1
        <3>2. i <= LastEscape(s) => g[i + 1] = h[i + 1] /\ g[i + 3] = h[i + 3]
            <4>1. i <= LastEscape(s) => /\ i + 1 \in p..(N + 1) /\ i + 3 \in p..(N + 1) /\ i + 1 > p /\ i + 3 > p
                BY <2>1 DEF LastEscape, N
            <4>. QED BY <2>3, <4>1
        <3>3. i > LastEscape(s) \/ i <= LastEscape(s)
            BY <2>1 DEF LastEscape, N
        <3>4. Read(s, i, g) = Read(s, i, h)
            BY <3>2, <3>3 DEF Read
        <3>. QED BY <3>1, <3>4
    <2>5. h = [i \in p..(N + 1) |-> h[i]]
        BY <2>3
    <2>6. Reads(s, p, h)
        BY <2>4, <2>5 DEF Reads, N
    <2>. QED BY <2>1, <2>6, Zenon DEF p
<1>3. N \in T
    <2> HIDE DEF T
    <2>1. \A i \in 0..N : i \in T
        BY <1>1, <1>2, Upward
    <2>. QED BY <2>1
<1>4. N + 1 - N = 1
    OBVIOUS
<1>5. \E g : Reads(s, N + 1 - N, g)
    BY <1>3, Zenon
<1>. QED BY <1>4, <1>5, Zenon

\* What a C string may have.
Byte == 1..255

\* An escape has three characters and stands for its first; the others are written as they are.
LEMMA Escapes ==
    ASSUME NEW c \in Byte
    PROVE  /\ Escape(c) \in Seq(Byte \ {Equals})
           /\ c \in Special => /\ Len(Escape(c)) = 3 /\ Escape(c)[1] = Percent
                               /\ Unescape(Escape(c)[2], Escape(c)[3]) = <<c>>
           /\ c \notin Special => Escape(c) = <<c>> /\ c # Percent
<1>1. CASE c \in Special
    <2>1. PICK a \in Byte \ {Equals}, b \in Byte \ {Equals} :
            /\ a = Hex(c \div 16) /\ b = Hex(c % 16)
            /\ H2d(a) # -1 /\ H2d(b) # -1 /\ (16 * H2d(a) + H2d(b)) % 256 = c
        <3>1. \/ c = 37 /\ Hex(c \div 16) = 50 /\ Hex(c % 16) = 53
              \/ c = 61 /\ Hex(c \div 16) = 51 /\ Hex(c % 16) = 68
              \/ c = 10 /\ Hex(c \div 16) = 48 /\ Hex(c % 16) = 65
              \/ c = 13 /\ Hex(c \div 16) = 48 /\ Hex(c % 16) = 68
            BY <1>1 DEF Special, Percent, Equals, Hex
        <3>2. H2d(50) = 2 /\ H2d(53) = 5 /\ H2d(51) = 3 /\ H2d(68) = 13 /\ H2d(48) = 0 /\ H2d(65) = 10
            BY DEF H2d
        <3>3. {50, 53, 51, 68, 48, 65} \subseteq Byte \ {Equals}
            BY DEF Byte, Equals
        <3>. QED BY <3>1, <3>2, <3>3
    <2>2. Escape(c) = <<Percent, a, b>>
        BY <1>1, <2>1 DEF Escape
    <2>3. Unescape(a, b) = <<c>>
        BY <2>1 DEF Unescape
    <2>4. Percent \in Byte \ {Equals}
        BY DEF Percent, Equals, Byte
    <2>. QED BY <1>1, <2>1, <2>2, <2>3, <2>4
<1>2. CASE c \notin Special
    <2>1. Escape(c) = <<c>> /\ c # Percent /\ c # Equals
        BY <1>2 DEF Escape, Special
    <2>. QED BY <1>2, <2>1
<1>. QED BY <1>1, <1>2

\* Two sequences, one after the other.
LEMMA Appended ==
    ASSUME NEW S, NEW a \in Seq(S), NEW b \in Seq(S), NEW o, o = a \o b
    PROVE  /\ o \in Seq(S) /\ Len(o) = Len(a) + Len(b) /\ Len(a) \in Nat /\ Len(b) \in Nat
           /\ \A i \in 1..Len(a) : o[i] = a[i]
           /\ \A i \in 1..Len(b) : o[Len(a) + i] = b[i]
<1>1. Len(a) \in Nat /\ Len(b) \in Nat
    BY LenProperties
<1>2. /\ o \in Seq(S) /\ Len(o) = Len(a) + Len(b)
      /\ \A i \in 1..Len(a) + Len(b) : o[i] = IF i <= Len(a) THEN a[i] ELSE b[i - Len(a)]
    BY ConcatProperties
<1>3. ASSUME NEW i \in 1..Len(b) PROVE o[Len(a) + i] = b[i]
    <2>1. Len(a) + i \in 1..Len(a) + Len(b) /\ ~(Len(a) + i <= Len(a)) /\ (Len(a) + i) - Len(a) = i
        BY <1>1
    <2>. QED BY <1>2, <2>1
<1>. QED BY <1>1, <1>2, <1>3

\* Where the characters of a string are in its encoding.
LEMMA Encoded ==
    ASSUME NEW s \in Seq(Byte)
    PROVE  /\ Encode(s) \in Seq(Byte \ {Equals})
           /\ \E pos : /\ pos[0] = 0 /\ pos[Len(s)] = Len(Encode(s))
                       /\ \A k \in 0..Len(s) : pos[k] \in 0..Len(Encode(s))
                       /\ \A k \in 1..Len(s) :
                             /\ pos[k] = pos[k - 1] + Len(Escape(s[k]))
                             /\ \A j \in 1..Len(Escape(s[k])) : Encode(s)[pos[k - 1] + j] = Escape(s[k])[j]
<1> DEFINE n == Len(s)
           S == Byte \ {Equals}
<1>1. n \in Nat /\ \A k \in 1..n : s[k] \in Byte
    BY LenProperties, ElementOfSeq
<1>2. PICK out : Made(s, n, out) /\ Encode(s) = out[n]
    BY <1>1, EncodeMakes, EncodeDefined
<1> HIDE DEF n, S
<1>3. out[0] = <<>> /\ \A k \in 1..n : out[k] = out[k - 1] \o Escape(s[k])
    BY <1>1, <1>2 DEF Made
<1>4. \A k \in 1..n : Escape(s[k]) \in Seq(S) /\ Len(Escape(s[k])) \in Nat
    BY <1>1, Escapes, LenProperties DEF S
<1> DEFINE T == {m \in 0..n : /\ out[m] \in Seq(S)
                              /\ \A k \in 0..m : /\ Len(out[k]) <= Len(out[m]) /\ Len(out[k]) \in Nat
                                                 /\ \A i \in 1..Len(out[k]) : out[m][i] = out[k][i]}
<1>5. 0 \in T
    <2>1. <<>> \in Seq(S) /\ Len(<<>>) = 0 /\ 0 \in 0..n
        BY <1>1
    <2>2. out[0] \in Seq(S) /\ Len(out[0]) = 0
        BY <1>3, <2>1
    <2>3. \A k \in 0..0 : k = 0
        OBVIOUS
    <2>4. \A k \in 0..0 : /\ Len(out[k]) <= Len(out[0]) /\ Len(out[k]) \in Nat
                          /\ \A i \in 1..Len(out[k]) : out[0][i] = out[k][i]
        BY <2>2, <2>3
    <2>. QED BY <2>1, <2>2, <2>4
<1>6. ASSUME NEW m \in 0..n - 1, m \in T PROVE m + 1 \in T
    <2>1. m + 1 \in 1..n /\ (m + 1) - 1 = m /\ m + 1 \in 0..n
        BY <1>1
    <2>2. out[m + 1] = out[m] \o Escape(s[m + 1]) /\ Escape(s[m + 1]) \in Seq(S) /\ Len(Escape(s[m + 1])) \in Nat
        BY <1>3, <1>4, <2>1
    <2>3. out[m] \in Seq(S) /\ Len(out[m]) \in Nat
        BY <1>6, LenProperties
    <2>4. /\ out[m + 1] \in Seq(S) /\ Len(out[m + 1]) = Len(out[m]) + Len(Escape(s[m + 1]))
          /\ \A i \in 1..Len(out[m]) : out[m + 1][i] = out[m][i]
        <3>1. PICK a \in Seq(S), b \in Seq(S) : a = out[m] /\ b = Escape(s[m + 1])
            BY <2>2, <2>3
        <3>2. PICK o : o = out[m + 1]
            OBVIOUS
        <3>3. o = a \o b
            BY <2>2, <3>1, <3>2, Zenon
        <3>4. o \in Seq(S) /\ Len(o) = Len(a) + Len(b) /\ \A i \in 1..Len(a) : o[i] = a[i]
            BY <3>3, Appended
        <3>. QED BY <3>1, <3>2, <3>4, Zenon
    <2> DEFINE a == out[m]
               b == out[m + 1]
    <2>5. ASSUME NEW k \in 0..m + 1
          PROVE  /\ Len(out[k]) <= Len(out[m + 1]) /\ Len(out[k]) \in Nat
                 /\ \A i \in 1..Len(out[k]) : out[m + 1][i] = out[k][i]
        <3>1. CASE k = m + 1
            <4>1. Len(b) \in Nat
                BY <2>4, LenProperties
            <4> HIDE DEF b
            <4>2. out[k] = b /\ Len(b) <= Len(b)
                BY <3>1, <4>1 DEF b
            <4>. QED BY <4>1, <4>2 DEF b
        <3>2. CASE k # m + 1
            <4>1. k \in 0..m
                BY <3>2
            <4>2. PICK c : c = out[k]
                OBVIOUS
            <4>3. Len(c) <= Len(a) /\ Len(c) \in Nat /\ \A i \in 1..Len(c) : a[i] = c[i]
                BY <1>6, <4>1, <4>2
            <4>4. Len(a) <= Len(b) /\ Len(b) \in Nat /\ Len(a) \in Nat /\ \A i \in 1..Len(a) : b[i] = a[i]
                <5>1. Len(b) = Len(a) + Len(Escape(s[m + 1])) /\ Len(a) \in Nat /\ Len(Escape(s[m + 1])) \in Nat
                    BY <2>2, <2>3, <2>4
                <5>2. \A i \in 1..Len(a) : b[i] = a[i]
                    BY <2>4
                <5> HIDE DEF a, b
                <5>. QED BY <5>1, <5>2
            <4> HIDE DEF a, b
            <4>5. Len(c) <= Len(b) /\ \A i \in 1..Len(c) : b[i] = c[i]
                BY <4>3, <4>4
            <4>. QED BY <4>2, <4>3, <4>5, Zenon DEF b
        <3>. QED BY <3>1, <3>2
    <2>. QED BY <2>1, <2>4, <2>5
<1>7. \A m \in 0..n : m \in T
    <2> HIDE DEF T
    <2>. QED BY <1>1, <1>5, <1>6, Upward
<1>8. PICK pos : pos = [k \in 0..n |-> Len(out[k])]
    OBVIOUS
<1>9. \A k \in 0..n : pos[k] = Len(out[k])
    BY <1>8
<1>10. \A k \in 0..n : pos[k] \in 0..Len(Encode(s)) /\ \A i \in 1..pos[k] : Encode(s)[i] = out[k][i]
    <2>1. n \in T
        BY <1>1, <1>7
    <2>. QED BY <1>2, <1>9, <2>1, LenProperties
<1>11. ASSUME NEW k \in 1..n
       PROVE  /\ pos[k] = pos[k - 1] + Len(Escape(s[k]))
              /\ \A j \in 1..Len(Escape(s[k])) : Encode(s)[pos[k - 1] + j] = Escape(s[k])[j]
    <2>1. k \in 0..n /\ k - 1 \in 0..n
        BY <1>1
    <2>2. out[k - 1] \in Seq(S) /\ Escape(s[k]) \in Seq(S) /\ Len(Escape(s[k])) \in Nat /\ pos[k - 1] \in Nat
        BY <1>4, <1>7, <1>9, <2>1, LenProperties
    <2>3. /\ Len(out[k - 1] \o Escape(s[k])) = Len(out[k - 1]) + Len(Escape(s[k]))
          /\ \A i \in 1..Len(out[k - 1]) + Len(Escape(s[k])) :
                (out[k - 1] \o Escape(s[k]))[i] =
                   IF i <= Len(out[k - 1]) THEN out[k - 1][i] ELSE Escape(s[k])[i - Len(out[k - 1])]
        BY <2>2, ConcatProperties
    <2>4. /\ pos[k] = pos[k - 1] + Len(Escape(s[k]))
          /\ \A i \in 1..pos[k] :
                out[k][i] = IF i <= pos[k - 1] THEN out[k - 1][i] ELSE Escape(s[k])[i - pos[k - 1]]
        BY <1>3, <1>9, <2>1, <2>3
    <2>5. ASSUME NEW j \in 1..Len(Escape(s[k])) PROVE Encode(s)[pos[k - 1] + j] = Escape(s[k])[j]
        <3>1. pos[k - 1] + j \in 1..pos[k] /\ ~(pos[k - 1] + j <= pos[k - 1]) /\ (pos[k - 1] + j) - pos[k - 1] = j
            BY <2>2, <2>4
        <3>. QED BY <1>10, <2>1, <2>4, <3>1
    <2>. QED BY <2>4, <2>5
<1>12. pos[0] = 0 /\ pos[n] = Len(Encode(s)) /\ Encode(s) \in Seq(S)
    <2>1. 0 \in 0..n /\ n \in 0..n
        BY <1>1
    <2>. QED BY <1>2, <1>3, <1>7, <1>9, <2>1
<1>. QED BY <1>10, <1>11, <1>12 DEF n, S

\* What decode() makes of the rest of a string, character by character.
LEMMA Decoded ==
    ASSUME NEW s \in Seq(Byte)
    PROVE  \E rest : /\ Decode(s) = rest[1] /\ rest[Len(s) + 1] = <<>>
                     /\ \A p \in 1..Len(s) : s[p] # Percent => rest[p] = <<s[p]>> \o rest[p + 1]
                     /\ \A p \in 1..Len(s) - 2 :
                           s[p] = Percent => rest[p] = Unescape(s[p + 1], s[p + 2]) \o rest[p + 3]
<1> DEFINE N == Len(s)
<1>1. N \in Nat
    BY LenProperties
<1>2. PICK rest : /\ Reads(s, 1, rest)
                  /\ Decode(s) = IF N <= 2 THEN s ELSE rest[1]
    BY <1>1, DecodeReads, DecodeDefined
<1>3. \A p \in 1..N + 1 : rest[p] = Read(s, p, rest)
    BY <1>1, <1>2 DEF Reads
<1>4. \A p \in 1..N + 1 : p > N - 2 => rest[p] = SubSeq(s, p, N)
    <2>1. ASSUME NEW p \in 1..N + 1, p > N - 2 PROVE rest[p] = SubSeq(s, p, N)
        <3>1. p > LastEscape(s) /\ ~(p <= LastEscape(s)) /\ rest[p] = Read(s, p, rest)
            BY <1>1, <1>3, <2>1 DEF LastEscape
        <3>. QED BY <3>1 DEF Read
    <2>. QED BY <2>1
<1>5. Decode(s) = rest[1]
    <2>1. CASE N <= 2
        <3>1. rest[1] = SubSeq(s, 1, N)
            BY <1>1, <1>4, <2>1
        <3>. QED BY <1>2, <2>1, <3>1
    <2>. QED BY <1>2, <2>1
<1>6. rest[N + 1] = <<>>
    <2>1. rest[N + 1] = SubSeq(s, N + 1, N)
        BY <1>1, <1>4
    <2>. QED BY <1>1, <2>1
<1>7. ASSUME NEW p \in 1..N, s[p] # Percent PROVE rest[p] = <<s[p]>> \o rest[p + 1]
    <2>1. CASE p <= N - 2
        <3>1. rest[p] = Read(s, p, rest)
            BY <1>1, <1>3
        <3>. QED BY <1>1, <1>7, <2>1, <3>1 DEF Read, LastEscape
    <2>2. CASE p > N - 2
        <3>1. rest[p] = SubSeq(s, p, N) /\ rest[p + 1] = SubSeq(s, p + 1, N)
            <4>1. p \in 1..N + 1 /\ p + 1 \in 1..N + 1 /\ p + 1 > N - 2
                BY <1>1, <2>2
            <4>. QED BY <1>4, <2>2, <4>1
        <3>2. SubSeq(s, p, N) = <<s[p]>> \o SubSeq(s, p + 1, N)
            BY <1>1
        <3>. QED BY <3>1, <3>2
    <2>. QED BY <1>1, <2>1, <2>2
<1>8. ASSUME NEW p \in 1..N - 2, s[p] = Percent PROVE rest[p] = Unescape(s[p + 1], s[p + 2]) \o rest[p + 3]
    <2>1. rest[p] = Read(s, p, rest) /\ p <= LastEscape(s) /\ ~(p > LastEscape(s))
        BY <1>1, <1>3 DEF LastEscape
    <2>. QED BY <1>8, <2>1 DEF Read
<1>. QED BY <1>5, <1>6, <1>7, <1>8

\* What encode() has written decode() reads, also when it ends in what looks like an escape.
LEMMA DecodeOfEncode ==
    ASSUME NEW s \in Seq(Byte)
    PROVE  Decode(Encode(s)) = s
<1> DEFINE n == Len(s)
           t == Encode(s)
<1>1. n \in Nat /\ \A k \in 1..n : s[k] \in Byte
    BY LenProperties, ElementOfSeq
<1>2. t \in Seq(Byte \ {Equals}) /\ t \in Seq(Byte) /\ Len(t) \in Nat
    <2>1. t \in Seq(Byte \ {Equals})
        BY Encoded
    <2>. QED BY <2>1, SeqMonotonic, LenProperties
<1>3. PICK pos : /\ pos[0] = 0 /\ pos[n] = Len(t)
                 /\ \A k \in 0..n : pos[k] \in 0..Len(t)
                 /\ \A k \in 1..n :
                       /\ pos[k] = pos[k - 1] + Len(Escape(s[k]))
                       /\ \A j \in 1..Len(Escape(s[k])) : t[pos[k - 1] + j] = Escape(s[k])[j]
    BY Encoded
<1>4. PICK rest : /\ Decode(t) = rest[1] /\ rest[Len(t) + 1] = <<>>
                  /\ \A p \in 1..Len(t) : t[p] # Percent => rest[p] = <<t[p]>> \o rest[p + 1]
                  /\ \A p \in 1..Len(t) - 2 :
                        t[p] = Percent => rest[p] = Unescape(t[p + 1], t[p + 2]) \o rest[p + 3]
    BY <1>2, Decoded
<1> HIDE DEF n, t
<1> DEFINE T == {m \in 0..n : rest[pos[n - m] + 1] = SubSeq(s, n - m + 1, n)}
<1>5. 0 \in T
    <2>1. n - 0 = n /\ 0 \in 0..n
        BY <1>1
    <2>2. SubSeq(s, n + 1, n) = <<>>
        BY <1>1
    <2>. QED BY <1>3, <1>4, <2>1, <2>2
<1>6. ASSUME NEW m \in 0..n - 1, m \in T PROVE m + 1 \in T
    <2> DEFINE k == n - m
               p == pos[k - 1] + 1
               c == s[k]
    <2>1. k \in 1..n /\ k - 1 \in 0..n /\ n - (m + 1) = k - 1 /\ (k - 1) + 1 = k /\ m + 1 \in 0..n /\ k \in 0..n
        BY <1>1
    <2>2. rest[pos[k] + 1] = SubSeq(s, k + 1, n)
        BY <1>6
    <2> HIDE DEF k
    <2>3. c \in Byte /\ pos[k - 1] \in Nat /\ pos[k] \in 0..Len(t) /\ p \in Nat
        BY <1>1, <1>3, <2>1
    <2>4. pos[k] = pos[k - 1] + Len(Escape(c)) /\ \A j \in 1..Len(Escape(c)) : t[pos[k - 1] + j] = Escape(c)[j]
        BY <1>3, <2>1
    <2>5. rest[p] = <<c>> \o rest[pos[k] + 1]
        <3>1. CASE c \in Special
            <4>1. Len(Escape(c)) = 3 /\ Escape(c)[1] = Percent /\ Unescape(Escape(c)[2], Escape(c)[3]) = <<c>>
                BY <2>3, <3>1, Escapes
            <4> HIDE DEF c
            <4>2. t[p] = Percent /\ t[p + 1] = Escape(c)[2] /\ t[p + 2] = Escape(c)[3]
                <5>1. 1 \in 1..3 /\ 2 \in 1..3 /\ 3 \in 1..3
                    OBVIOUS
                <5>2. pos[k - 1] + 2 = p + 1 /\ pos[k - 1] + 3 = p + 2
                    BY <2>3
                <5>. QED BY <2>4, <4>1, <5>1, <5>2
            <4>3. p \in 1..Len(t) - 2 /\ p + 3 = pos[k] + 1
                BY <1>2, <2>3, <2>4, <4>1
            <4>. QED BY <1>4, <4>1, <4>2, <4>3
        <3>2. CASE c \notin Special
            <4>1. Escape(c) = <<c>> /\ c # Percent
                BY <2>3, <3>2, Escapes
            <4>2. Len(<<c>>) = 1 /\ <<c>>[1] = c /\ 1 \in 1..1
                OBVIOUS
            <4> HIDE DEF c
            <4>3. t[p] = c
                BY <2>4, <4>1, <4>2
            <4>4. p \in 1..Len(t) /\ p + 1 = pos[k] + 1
                BY <1>2, <2>3, <2>4, <4>1, <4>2
            <4>. QED BY <1>4, <4>1, <4>3, <4>4
        <3>. QED BY <3>1, <3>2
    <2>6. SubSeq(s, k, n) = <<c>> \o SubSeq(s, k + 1, n)
        BY <1>1, <2>1 DEF n
    <2>7. rest[pos[k - 1] + 1] = SubSeq(s, k, n)
        BY <2>2, <2>5, <2>6
    <2>. QED BY <2>1, <2>7
<1>7. n \in T
    <2> HIDE DEF T
    <2>1. \A m \in 0..n : m \in T
        BY <1>1, <1>5, <1>6, Upward
    <2>. QED BY <1>1, <2>1
<1>8. rest[0 + 1] = SubSeq(s, 0 + 1, n)
    <2>1. n - n = 0
        BY <1>1
    <2>. QED BY <1>3, <1>7, <2>1
<1>9. SubSeq(s, 1, n) = s
    BY <1>1 DEF n
<1>10. 0 + 1 = 1
    OBVIOUS
<1>11. rest[1] = s
    BY <1>8, <1>9, <1>10, Zenon
<1>. QED BY <1>4, <1>11, Zenon DEF t

-----------------------------------------------------------------------------
\* A line is cut at its first separator.
LEMMA LineCut ==
    ASSUME NEW a \in Seq(Byte \ {Equals}), NEW b \in Seq(Byte), NEW l \in Seq(Byte),
           Len(l) = Len(a) + 1 + Len(b), l[Len(a) + 1] = Equals,
           \A i \in 1..Len(a) : l[i] = a[i], \A i \in 1..Len(b) : l[Len(a) + 1 + i] = b[i]
    PROVE  ReadLine(l) = IF Fits(l) THEN <<Decode(a), Decode(b)>> ELSE <<"error">>
<1>1. Len(a) \in Nat /\ Len(b) \in Nat /\ a \in Seq(Byte)
    BY LenProperties, SeqMonotonic
<1> DEFINE at == Len(a) + 1
<1>10. at \in Nat /\ at # 0
    BY <1>1
<1>11. l[at] = Equals /\ \A i \in 1..at - 1 : l[i] = a[i]
    BY <1>1 DEF at
<1>12. \A i \in 1..at - 1 : l[i] # Equals
    <2>1. \A i \in 1..Len(a) : a[i] \in Byte \ {Equals}
        BY ElementOfSeq
    <2>2. at - 1 = Len(a)
        BY <1>1
    <2>. QED BY <1>11, <2>1, <2>2
<1> HIDE DEF at
<1>13. SelectInSeq(l, LAMBDA c : c = Equals) = at
    <2> DEFINE I == {i \in 1..Len(l) : l[i] = Equals}
    <2>1. at \in I /\ I \subseteq Nat /\ \A i \in I : at <= i
        BY <1>1, <1>10, <1>11, <1>12 DEF at
    <2>2. SelectInSeq(l, LAMBDA c : c = Equals) = IF I # {} THEN Min(I) ELSE 0
        BY DEF SelectInSeq
    <2> HIDE DEF I
    <2>3. Min(I) = CHOOSE x \in I : \A y \in I : x <= y
        BY DEF Min
    <2>4. \A x \in I : (\A y \in I : x <= y) => x = at
        BY <1>10, <2>1
    <2>5. Min(I) = at
        BY <2>1, <2>3, <2>4
    <2>. QED BY <2>1, <2>2, <2>5
<1>14. SubSeq(l, 1, at - 1) = a
    <2>1. at - 1 \in Int /\ at - 1 - 1 + 1 = Len(a) /\ at - 1 = Len(a)
        BY <1>1 DEF at
    <2>2. \A i \in 1..at - 1 : l[i] \in Byte
        <3>1. \A i \in 1..Len(a) : a[i] \in Byte
            BY <1>1, ElementOfSeq
        <3>. QED BY <1>11, <2>1, <3>1
    <2>3. /\ SubSeq(l, 1, at - 1) \in Seq(Byte)
          /\ Len(SubSeq(l, 1, at - 1)) = IF 1 <= at - 1 THEN at - 1 - 1 + 1 ELSE 0
          /\ \A i \in 1..at - 1 - 1 + 1 : SubSeq(l, 1, at - 1)[i] = l[1 + i - 1]
        <3>1. PICK x \in Int : x = at - 1
            BY <2>1
        <3>2. 1 \in Int /\ \A i \in 1..x : l[i] \in Byte
            BY <2>2, <3>1
        <3>3. /\ SubSeq(l, 1, x) \in Seq(Byte)
              /\ Len(SubSeq(l, 1, x)) = IF 1 <= x THEN x - 1 + 1 ELSE 0
              /\ \A i \in 1..x - 1 + 1 : SubSeq(l, 1, x)[i] = l[1 + i - 1]
            BY <3>2, SubSeqProperties
        <3>. QED BY <3>1, <3>3, Zenon
    <2>4. Len(SubSeq(l, 1, at - 1)) = Len(a)
        BY <1>1, <2>1, <2>3
    <2>5. \A i \in 1..Len(a) : SubSeq(l, 1, at - 1)[i] = a[i]
        <3>1. ASSUME NEW i \in 1..Len(a) PROVE 1 + i - 1 = i
            BY <1>1
        <3>. QED BY <1>11, <2>1, <2>3, <3>1
    <2>. QED BY <1>1, <2>3, <2>4, <2>5, SeqEqual
<1>15. SubSeq(l, at + 1, Len(l)) = b
    <2>1. Len(l) = at + Len(b) /\ at \in Nat /\ Len(l) \in Int /\ at + 1 \in Int
        BY <1>1, <1>10 DEF at
    <2>2. \A i \in at + 1..Len(l) : l[i] \in Byte
        BY <2>1, ElementOfSeq
    <2>3. /\ SubSeq(l, at + 1, Len(l)) \in Seq(Byte)
          /\ Len(SubSeq(l, at + 1, Len(l))) = IF at + 1 <= Len(l) THEN Len(l) - (at + 1) + 1 ELSE 0
          /\ \A i \in 1..Len(l) - (at + 1) + 1 : SubSeq(l, at + 1, Len(l))[i] = l[(at + 1) + i - 1]
        BY <2>1, <2>2, SubSeqProperties
    <2>4. Len(SubSeq(l, at + 1, Len(l))) = Len(b) /\ Len(l) - (at + 1) + 1 = Len(b)
        <3>1. Len(l) - (at + 1) + 1 = Len(b) /\ (~(at + 1 <= Len(l)) => Len(b) = 0)
            <4>1. \A x, y, z \in Nat : z = x + y => z - (x + 1) + 1 = y /\ (~(x + 1 <= z) => y = 0)
                OBVIOUS
            <4>2. Len(l) \in Nat /\ Len(b) \in Nat /\ at \in Nat /\ Len(l) = at + Len(b)
                BY <1>1, <2>1, LenProperties
            <4>. QED BY <4>1, <4>2
        <3>. QED BY <2>3, <3>1
    <2>5. \A i \in 1..Len(b) : SubSeq(l, at + 1, Len(l))[i] = b[i]
        <3>1. ASSUME NEW i \in 1..Len(b) PROVE (at + 1) + i - 1 = at + i
            BY <2>1
        <3>2. \A i \in 1..Len(b) : l[at + i] = b[i]
            BY <1>1 DEF at
        <3>. QED BY <2>3, <2>4, <3>1, <3>2
    <2>. QED BY <1>1, <2>3, <2>4, <2>5, SeqEqual
<1>16. SelectInSeq(l, LAMBDA c : c = Equals) # 0
    BY <1>10, <1>13
<1>. QED BY <1>13, <1>14, <1>15, <1>16 DEF ReadLine

\* The first separator of a line is the one between the key and the value, which have none.
LEMMA LineRead ==
    ASSUME NEW k \in Seq(Byte), NEW v \in Seq(Byte)
    PROVE  LET l == Encode(k) \o <<Equals>> \o Encode(v)
           IN  ReadLine(l) = IF Fits(l) THEN <<k, v>> ELSE <<"error">>
<1>1. PICK a \in Seq(Byte \ {Equals}), b \in Seq(Byte \ {Equals}) : a = Encode(k) /\ b = Encode(v)
    BY Encoded
<1>2. Decode(a) = k /\ Decode(b) = v
    BY <1>1, DecodeOfEncode
<1>3. a \in Seq(Byte) /\ b \in Seq(Byte) /\ Len(a) \in Nat /\ Len(b) \in Nat
    BY LenProperties, SeqMonotonic
<1>4. PICK e \in Seq(Byte) : e = <<Equals>> /\ Len(e) = 1 /\ e[1] = Equals
    <2>1. Equals \in Byte
        BY DEF Equals, Byte
    <2>2. <<Equals>> \in Seq(Byte) /\ Len(<<Equals>>) = 1 /\ <<Equals>>[1] = Equals
        BY <2>1
    <2>. QED BY <2>2, Zenon
<1>5. PICK d : d = a \o e
    OBVIOUS
<1>6. /\ d \in Seq(Byte) /\ Len(d) = Len(a) + Len(e)
      /\ \A i \in 1..Len(a) : d[i] = a[i]
      /\ \A i \in 1..Len(e) : d[Len(a) + i] = e[i]
    BY <1>3, <1>5, Appended
<1>7. PICK l : l = d \o b
    OBVIOUS
<1>8. /\ l \in Seq(Byte) /\ Len(l) = Len(d) + Len(b)
      /\ \A i \in 1..Len(d) : l[i] = d[i]
      /\ \A i \in 1..Len(b) : l[Len(d) + i] = b[i]
    <2>1. d \in Seq(Byte) /\ b \in Seq(Byte)
        BY <1>3, <1>6
    <2>. QED BY <1>7, <2>1, Appended
<1>9. Len(d) = Len(a) + 1 /\ d[Len(a) + 1] = Equals
    <2>1. 1 \in 1..Len(e)
        BY <1>4
    <2>. QED BY <1>4, <1>6, <2>1
<1>10. l[Len(a) + 1] = Equals /\ \A i \in 1..Len(a) : l[i] = a[i]
    BY <1>3, <1>6, <1>8, <1>9
<1>11. Len(l) = Len(a) + 1 + Len(b) /\ \A i \in 1..Len(b) : l[Len(a) + 1 + i] = b[i]
    BY <1>8, <1>9
<1>12. ReadLine(l) = IF Fits(l) THEN <<Decode(a), Decode(b)>> ELSE <<"error">>
    BY <1>3, <1>8, <1>10, <1>11, LineCut
<1>13. l = Encode(k) \o <<Equals>> \o Encode(v)
    BY <1>1, <1>4, <1>5, <1>7
<1>. QED BY <1>2, <1>12, <1>13, Zenon

\* The line is that of the entry, and what was read is what is in the line.
CodecInv ==
    /\ key \in Seq(Byte) /\ value \in Seq(Byte)
    /\ line # <<>> => line = Encode(key) \o <<Equals>> \o Encode(value)
    /\ got # <<>> => line # <<>> /\ got = ReadLine(line)

\* What dmcacheSaveWorker() writes of an entry dmcacheRestore() reads as it was, for keys and values of any
\* bytes and of any length, if the line fits in the buffer (ohmetacache.cxx:56-106, 190-205).
THEOREM LinesRoundTrip == CodecSpec => []RoundTrip
<1>1. CodecInit => CodecInv
    <2> SUFFICES ASSUME CodecInit PROVE CodecInv
        OBVIOUS
    <2>1. \A n \in Nat : \A s \in [1..n -> Char] : s \in Seq(Byte)
        <3>1. ASSUME NEW n \in Nat, NEW s \in [1..n -> Char] PROVE s \in Seq(Byte)
            <4>1. \A i \in 1..n : s[i] \in Byte
                BY CharAssumption DEF Byte
            <4>2. [i \in 1..n |-> s[i]] \in Seq(Byte)
                BY <4>1, IsASeq
            <4>3. s = [i \in 1..n |-> s[i]]
                OBVIOUS
            <4>. QED BY <4>2, <4>3, Zenon
        <3>. QED BY <3>1
    <2>2. key \in Seq(Byte) /\ value \in Seq(Byte)
        BY <2>1 DEF CodecInit, Strings
    <2>. QED BY <2>2 DEF CodecInit, CodecInv
<1>2. CodecInv /\ [CodecNext]_codecvars => CodecInv'
    <2> SUFFICES ASSUME CodecInv, [CodecNext]_codecvars PROVE CodecInv'
        OBVIOUS
    <2>1. CASE Save
        BY <2>1 DEF Save, CodecInv
    <2>2. CASE Restore
        BY <2>2 DEF Restore, CodecInv
    <2>3. CASE UNCHANGED codecvars
        BY <2>3 DEF codecvars, CodecInv
    <2>. QED BY <2>1, <2>2, <2>3 DEF CodecNext
<1>3. CodecInv => RoundTrip
    BY LineRead DEF CodecInv, RoundTrip
<1>. QED BY <1>1, <1>2, <1>3, PTL DEF CodecSpec
=============================================================================
