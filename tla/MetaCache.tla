----------------------------- MODULE MetaCache ------------------------------
(***************************************************************************)
(* The file in which the playlist service keeps its metadata cache: when   *)
(* makeIdArray() saves the cache, the thread which writes it, and what the *)
(* next process reads back.                                                *)
(*                                                                         *)
(* The service and the save thread share a WorkQueue, of which only the    *)
(* promise is used here (TaskQueue).  The cache is a function from uris to *)
(* metadata; what is known of metadata is where it comes from and whether  *)
(* its line fits in the buffer of dmcacheRestore().  The interval between  *)
(* two saves (ohmetasleep) only delays the next take().                    *)
(***************************************************************************)
EXTENDS Naturals, Sequences

CONSTANTS
    Uri,           \* of the tracks
    Long,          \* those whose control point metadata does not fit in a line
    Faults,        \* BOOLEAN: the file system may refuse to open, write or rename
    MaxSaves,      \* bound: snapshots
    MaxRestarts,   \* bound: how often the process ends and is started again
    None           \* no task, no file

ASSUME UriAssumption == Long \subseteq Uri
ASSUME FaultsAssumption == Faults \in BOOLEAN
ASSUME SavesAssumption == MaxSaves \in Nat \ {0} /\ MaxRestarts \in Nat

VARIABLES
    mem,        \* OHPlaylist::m_metacache
    dirty,      \* OHPlaylist::m_cachedirty
    tasks,      \* the snapshots on saveQueue: [ver, lines]
    running,    \* the one which the save thread writes
    wpc,        \* where the save thread is: "take", "open", "write", "rename"
    tmp,        \* the temporary file, or None
    file,       \* the cache file
    failed,     \* ghost: the file system refused something
    history,    \* ghost: the lines of all snapshots, by version
    retitled,   \* ghost: the uris which got another title since the last snapshot
    restarts    \* bound

service == <<mem, dirty>>
queue == <<tasks, running>>
files == <<tmp, file>>
ghosts == <<failed, history, retitled>>
vars == <<service, queue, wpc, files, ghosts, restarts>>

Saver == "saver"
\* Metadata comes from a control point, or from MPD, with a title which changes if the
\* track is a stream.
Titles == {"title", "new title"}
Meta == {"control point"} \cup Titles
\* A line of the file.
Line == Uri \X Meta
Lines(m) == {<<u, m[u]>> : u \in DOMAIN m}
TooLong(l) == l[1] \in Long /\ l[2] = "control point"
Snapshot == [ver : 1..MaxSaves, lines : SUBSET Line]
ASSUME NoneAssumption == None \notin Snapshot

TQ == INSTANCE TaskQueue WITH
    Task <- Snapshot, Worker <- {Saver}, Client <- {"service"}, idle <- {}

\* The file is created empty, before the service.
Init ==
    /\ mem = <<>> /\ dirty = FALSE
    /\ TQ!Init /\ wpc = "take"
    /\ tmp = None /\ file = [ver |-> 1, lines |-> {}]
    /\ failed = FALSE /\ history = <<{}>> /\ retitled = {} /\ restarts = 0

-----------------------------------------------------------------------------
(* The service *)

\* cacheSet(): from insert(), or for a track which Read and ReadList do not find.
CacheSet(u, m) ==
    /\ m = "control point" \/ u \notin DOMAIN mem
    /\ mem' = [v \in DOMAIN mem \cup {u} |-> IF v = u THEN m ELSE mem[v]]
    /\ dirty' = TRUE
    /\ UNCHANGED <<queue, wpc, files, ghosts, restarts>>

\* Mutant: the older snapshots stay on the queue.
DmcacheSaveAppends(m) ==
    /\ Len(history) < MaxSaves
    /\ history' = Append(history, Lines(m)) /\ retitled' = {}
    /\ TQ!Put([ver |-> Len(history) + 1, lines |-> Lines(m)], "service")

\* Mutant: the latest snapshot is written first, then the older ones.
DmcacheSaveFirst(m) ==
    /\ Len(history) < MaxSaves
    /\ history' = Append(history, Lines(m)) /\ retitled' = {}
    /\ tasks' = <<[ver |-> Len(history) + 1, lines |-> Lines(m)]>> \o tasks
    /\ UNCHANGED running

\* dmcacheSave(): a snapshot which replaces the one which waits.
DmcacheSave(m) ==
    /\ Len(history) < MaxSaves
    /\ history' = Append(history, Lines(m)) /\ retitled' = {}
    /\ TQ!Replace([ver |-> Len(history) + 1, lines |-> Lines(m)], "service")

\* Mutant: tracks which leave the playlist are no reason to save.
MustSaveAdded(m) == dirty \/ DOMAIN m \ DOMAIN mem # {}
\* There were stale entries, or there are new ones.
MustSave(m) == dirty \/ DOMAIN m # DOMAIN mem

\* makeIdArray(), with the uris of MPD's queue, while the service is active.
MakeIdArray(q) ==
    LET nmeta == [u \in q |-> IF u \in DOMAIN mem THEN mem[u] ELSE "title"]
    IN  /\ mem' = nmeta
        /\ IF MustSave(nmeta)
           THEN DmcacheSave(nmeta) /\ dirty' = FALSE
           ELSE UNCHANGED <<dirty, queue, history, retitled>>
        /\ UNCHANGED <<wpc, files, failed, restarts>>

\* makeIdArray() for the same version of the queue: MPD has another title for the song
\* than the cache, which takes it.  This does not set m_cachedirty and saves nothing.
MakeIdArraySame(u) ==
    /\ u \in DOMAIN mem /\ mem[u] = "title"
    /\ mem' = [mem EXCEPT ![u] = "new title"]
    /\ retitled' = retitled \cup {u}
    /\ UNCHANGED <<dirty, queue, wpc, files, failed, history, restarts>>

-----------------------------------------------------------------------------
(* The save thread *)

TakeSnapshot ==
    /\ wpc = "take" /\ TQ!Take(Saver) /\ wpc' = "open"
    /\ UNCHANGED <<service, files, ghosts, restarts>>

\* Mutant: what an earlier process left in the temporary file is kept.
TruncatedKept(ver) == [ver |-> ver, lines |-> IF tmp = None THEN {} ELSE tmp.lines]
Truncated(ver) == [ver |-> ver, lines |-> {}]

Open ==
    /\ wpc = "open"
    /\ tmp' = Truncated(running[Saver].ver) /\ wpc' = "write"
    /\ UNCHANGED <<service, queue, file, ghosts, restarts>>

OpenFails ==
    /\ wpc = "open" /\ Faults
    /\ TQ!Finish(Saver) /\ wpc' = "take" /\ failed' = TRUE
    /\ UNCHANGED <<service, files, history, retitled, restarts>>

\* One entry, in the order of the hash table.
WriteLine ==
    /\ wpc = "write"
    /\ \E l \in running[Saver].lines \ tmp.lines : tmp' = [tmp EXCEPT !.lines = @ \cup {l}]
    /\ UNCHANGED <<service, queue, wpc, file, ghosts, restarts>>

Complete == running[Saver].lines \subseteq tmp.lines

\* The loop ends with the last entry, or with an error, which is logged.  A line cut
\* by the error is the last of the file and getline() meets the end of file in it.
EndWrite ==
    /\ wpc = "write"
    /\ \/ Complete /\ UNCHANGED failed
       \/ Faults /\ failed' = TRUE
    /\ wpc' = "rename"
    /\ UNCHANGED <<service, queue, files, history, retitled, restarts>>

Rename ==
    /\ wpc = "rename"
    /\ \/ file' = tmp /\ tmp' = None /\ UNCHANGED failed
       \/ Faults /\ failed' = TRUE /\ UNCHANGED files
    /\ TQ!Finish(Saver) /\ wpc' = "take"
    /\ UNCHANGED <<service, history, retitled, restarts>>

-----------------------------------------------------------------------------
(* The process *)

\* dmcacheRestore(): stops at the first line which does not fit.
Restored(lines) ==
    LET fit == {l \in lines : ~TooLong(l)}
    IN  IF fit = lines THEN {lines} ELSE SUBSET fit

\* The process ends anywhere, by a signal or a crash; the next one reads the file.
Restart ==
    /\ restarts < MaxRestarts /\ restarts' = restarts + 1
    /\ \E lines \in Restored(file.lines) :
          mem' = [u \in {l[1] : l \in lines} |-> (CHOOSE l \in lines : l[1] = u)[2]]
    /\ dirty' = FALSE /\ retitled' = {}
    /\ tasks' = <<>> /\ running' = [running EXCEPT ![Saver] = None] /\ wpc' = "take"
    /\ UNCHANGED <<files, failed, history>>

Service == \E u \in Uri, m \in {"control point", "title"} : CacheSet(u, m)
Array == (\E q \in SUBSET Uri : MakeIdArray(q)) \/ (\E u \in Uri : MakeIdArraySame(u))
SaveThread == TakeSnapshot \/ Open \/ OpenFails \/ WriteLine \/ EndWrite \/ Rename

Next == Service \/ Array \/ SaveThread \/ Restart

Spec == Init /\ [][Next]_vars
\* The save thread runs; nothing else has to happen.
FairSpec == Spec /\ WF_vars(SaveThread)

-----------------------------------------------------------------------------
(* Properties *)

TypeOK ==
    /\ \E D \in SUBSET Uri : mem \in [D -> Meta]
    /\ dirty \in BOOLEAN
    /\ tasks \in Seq(Snapshot) /\ Len(tasks) <= 1 /\ running \in [{Saver} -> Snapshot \cup {None}]
    /\ wpc \in {"take", "open", "write", "rename"} /\ (wpc = "take" <=> running[Saver] = None)
    /\ file \in Snapshot /\ tmp \in Snapshot \cup {None}
    /\ (wpc \in {"write", "rename"} => tmp # None)
    /\ failed \in BOOLEAN /\ history \in Seq(SUBSET Line) /\ Len(history) \in 1..MaxSaves
    /\ retitled \subseteq Uri /\ restarts \in 0..MaxRestarts

\* The write to a temporary file and the rename: wherever the process ends, the file
\* has all the entries of one saved cache (until a write or a rename fails).
FileIsOneSave == ~failed => file.lines = history[file.ver]

\* With errors of the file system it may have fewer, but it never mixes two caches.
FileFromOneSave == file.lines \subseteq history[file.ver]

\* An older cache never replaces a newer one, in a process or after a restart.
FileNeverOlder == [][file'.ver >= file.ver]_file

\* "Use the flush option to put() so that only the latest version stays on the queue".
TakenIsLatest == [][running'[Saver] # None => running'[Saver].ver = Len(history)]_running

\* makeIdArray(): "If we added entries or there are some stale entries, the new map
\* differs, save it".  Unless it has an entry which waits for the next makeIdArray(),
\* the cache gets to the file (if no write fails), but for the titles which changed
\* since it was last saved.
Of(lines) == {l \in lines : l[1] \notin retitled}
SavedInTheEnd == <>[](~dirty /\ ~failed => Of(file.lines) = Of(Lines(mem)))

-----------------------------------------------------------------------------
(* What the documentation says, and the code does not do *)

\* "the new map differs, save it": also when a title differs.
TitlesSavedInTheEnd == <>[](~dirty /\ ~failed => file.lines = Lines(mem))

\* ohmetapersist: "This allows persistence of the metadata information across
\* restarts": a process which was just started has what the file has.
Persistent == [][restarts' > restarts => Lines(mem') = file.lines]_vars
=============================================================================
