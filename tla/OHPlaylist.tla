----------------------------- MODULE OHPlaylist -----------------------------
(***************************************************************************)
(* The OpenHome playlist service on top of the MPD queue: the array of     *)
(* track ids and the metadata cache which OHPlaylist derives from the      *)
(* queue, the events it publishes, the insertions and deletions of the     *)
(* control points, and the position which MPDCli remembers from one        *)
(* insertion to the next.                                                  *)
(*                                                                         *)
(* Five actors: the SOAP thread (pc), the MPD event thread and the time    *)
(* poller, which runs while MPD plays (due, epc), other clients of MPD,    *)
(* and MPD itself.  Three locks matter: MPDCli::m_mutex, which an          *)
(* insertion holds, MPDCli::m_callbackmutex, which makes the callbacks of  *)
(* the two threads exclusive, and the service's m_statemutex, held while   *)
(* the state is made; other MPD clients obey none.                         *)
(***************************************************************************)
EXTENDS Naturals, FiniteSets, Sequences, SequencesExt

CONSTANTS
    Uri,         \* what control points and other MPD clients may queue
    MaxLen,      \* MPD's max_playlist_length
    MaxVers,     \* bound: no change is started once the queue has this version
    Others,      \* BOOLEAN: there are other MPD clients
    Switches     \* BOOLEAN: the control points select other sources

ASSUME ClientsAssumption == Others \in BOOLEAN /\ Switches \in BOOLEAN
ASSUME BoundsAssumption == MaxLen \in Nat \ {0} /\ MaxVers \in Nat

VARIABLES
    mq,       \* MPD's queue: entries [id, uri, by]; by is a ghost, who added it
    qv,       \* its version
    nid,      \* the next id MPD gives
    song,     \* the id of its current song, 0 for none; stopping leaves it
    play,     \* "play", "pause" or "stop"
    title,    \* the title of what it plays, which a web radio changes
    evt,      \* the idle connection has something to report
    stat,     \* MPDCli::m_stat: version, song id, uri and title of the song
    lastid, lastpos, lastqv,   \* MPDCli::m_lastinsertid, ...pos, ...qvers
    active,   \* OHPlaylist::m_active
    saved,    \* OHPlaylist::m_mpdsavedstate: the queue, the position played (0 when
              \* stopped), the play state
    upnp,     \* OHPlaylist::m_upnpstate["IdArray"]
    meta,     \* OHPlaylist::m_metacache: "cp", or the title of MPD's data
    arr,      \* OHPlaylist::m_idArrayCached
    arrqv,    \* OHPlaylist::m_mpdqvers
    pub,      \* OHService::m_state["IdArray"]: what was evented last
    epc,      \* who is reading the queue in its callback: "idle" (nobody), "event", "poll"
    eqv,      \* the version which it read in the status
    poller,   \* MPDCli::m_dopoll
    due,      \* the threads which have read the status and have their callbacks to run;
              \* "last": the poller which is being stopped reads it once more
    pc,       \* the SOAP thread
    req,      \* its request
    disturbed \* ghost: another client changed the queue during the insertion

mpd == <<mq, qv, nid, song, play, title>>
last == <<lastid, lastpos, lastqv>>
cache == <<meta, arr, arrqv>>
thread == <<epc, eqv, poller, due>>
soap == <<pc, req, disturbed>>
source == <<active, saved, upnp>>
vars == <<mpd, evt, stat, last, source, cache, pub, thread, soap>>

-----------------------------------------------------------------------------
(* MPD *)

Titles == {"title1", "title2"}
Origins == {"cp"} \cup Titles
Entry == [id : Nat \ {0}, uri : Uri, by : {"cp", "other"}]

Ids(q) == [i \in DOMAIN q |-> q[i].id]
Uris(q) == {q[i].uri : i \in DOMAIN q}
IdSet(q) == {q[i].id : i \in DOMAIN q}
IndexOf(q, id) == CHOOSE i \in DOMAIN q : q[i].id = id
\* The song which follows the one at i when that one ends or is removed.
Following(q, i) == IF i < Len(q) THEN q[i + 1].id ELSE 0

\* What updStatus() reads.
Live == [qv |-> qv, song |-> song, title |-> title,
         uri |-> IF song = 0 THEN {} ELSE {mq[IndexOf(mq, song)].uri}]

\* mpd_run_add_id_to: an error when the position is too large or the queue full.
CanAdd(pos) == pos <= Len(mq) /\ Len(mq) < MaxLen
AddAt(pos, uri, by) ==
    /\ mq' = InsertAt(mq, pos + 1, [id |-> nid, uri |-> uri, by |-> by])
    /\ nid' = nid + 1 /\ qv' = qv + 1 /\ evt' = TRUE
    /\ UNCHANGED <<song, play, title>>

\* mpd_run_delete_id, in the given play state: when the current song is deleted
\* the next one is played, or only selected if MPD was paused.
Delete(i, was) ==
    /\ mq' = RemoveAt(mq, i) /\ qv' = qv + 1 /\ evt' = TRUE
    /\ song' = IF song # mq[i].id THEN song
               ELSE IF was = "stop" THEN 0 ELSE Following(mq, i)
    /\ play' = IF song = mq[i].id /\ (was = "pause" \/ song' = 0) THEN "stop" ELSE was
    /\ UNCHANGED <<nid, title>>

NoRequest == [op |-> "none"]

\* MPDCli::m_mutex and OHService::m_statemutex.
MutexFree == pc \notin {"list", "add", "stat"}
StateFree == epc = "idle" /\ pc \notin {"arrread", "token", "save"}

Init ==
    /\ mq = <<>> /\ qv = 1 /\ nid = 1 /\ song = 0 /\ play = "stop"
    /\ title = "title1" /\ evt = FALSE
    /\ stat = Live
    /\ lastid = 0 /\ lastpos = 0 /\ lastqv = 0
    /\ active = TRUE /\ saved = [q |-> <<>>, pos |-> 0, play |-> "stop"] /\ upnp = <<>>
    /\ meta = <<>> /\ arr = <<>> /\ arrqv = 0 /\ pub = <<>>
    /\ epc = "idle" /\ eqv = 0 /\ poller = FALSE /\ due = {}
    /\ pc = "idle" /\ req = NoRequest /\ disturbed = FALSE

-----------------------------------------------------------------------------
(* OHPlaylist::makeIdArray *)

\* The version has not changed: the cached array, except when the title of a
\* stream changed under the metadata which MPD gave for it.  Then the array is
\* empty once, for the control points to drop their metadata.
TitleChanged ==
    /\ stat.song # 0
    /\ \E u \in stat.uri \cap DOMAIN meta : meta[u] \in Titles /\ meta[u] # stat.title
SameArray == IF TitleChanged THEN <<>> ELSE arr
\* Mutant: the new metadata is not remembered.
MakeSameForgets == UNCHANGED cache
MakeSame ==
    /\ meta' = [u \in DOMAIN meta |->
                   IF TitleChanged /\ u \in stat.uri THEN stat.title ELSE meta[u]]
    /\ UNCHANGED <<arr, arrqv>>

\* The queue is read again.  Metadata is kept for the uris which are in it, made
\* from MPD's data for those which the cache does not know, dropped for the rest.
MakeReadKnown(version) ==                        \* mutant: of the known uris only
    /\ arr' = Ids(mq) /\ arrqv' = version
    /\ meta' = [u \in Uris(mq) \cap DOMAIN meta |-> meta[u]]
MakeReadOnce(version) ==            \* mutant: the second of two equal uris is new
    /\ arr' = Ids(mq) /\ arrqv' = version
    /\ meta' = [u \in Uris(mq) |->
                   IF u \in DOMAIN meta /\ Cardinality({i \in DOMAIN mq : mq[i].uri = u}) = 1
                   THEN meta[u] ELSE title]
MakeReadAhead(version) ==                  \* mutant: records the next version
    /\ arr' = Ids(mq) /\ arrqv' = version + 1
    /\ meta' = [u \in Uris(mq) |-> IF u \in DOMAIN meta THEN meta[u] ELSE title]
MakeRead(version) ==
    /\ arr' = Ids(mq)
    /\ arrqv' = version
    /\ meta' = [u \in Uris(mq) |-> IF u \in DOMAIN meta THEN meta[u] ELSE title]

NeedRead == stat.qv # arrqv

-----------------------------------------------------------------------------
(* The event thread and the poller *)

\* eventLoop(): mpd_run_idle_mask() returns, updStatus(), pollerCtl(), which
\* starts the poller when MPD plays and stops it else.  The poller may have been
\* past its test of m_dopoll then: it reads the status once more.
EventWake ==
    /\ evt /\ "event" \notin due /\ MutexFree
    /\ evt' = FALSE /\ stat' = Live
    /\ poller' = (play = "play")
    /\ \E more \in {{}} \cup (IF poller /\ ~poller' /\ "poll" \notin due THEN {{"last"}} ELSE {}) :
          due' = due \cup {"event"} \cup more
    /\ UNCHANGED <<mpd, last, source, cache, pub, epc, eqv, soap>>

\* timepoller(): updStatus().
Poll ==
    /\ (poller /\ "poll" \notin due) \/ "last" \in due
    /\ MutexFree
    /\ stat' = Live
    /\ due' = (due \ {"last"}) \cup {"poll"}
    /\ UNCHANGED <<mpd, evt, last, source, cache, pub, epc, eqv, poller, soap>>

\* pollerCtl() waits for the poller which it has stopped.
Joined(th) == th = "event" => poller \/ due \cap {"poll", "last"} = {}

\* onEvent(), getEventData(), makestate() up to the reading of the queue.
Callback(th) ==
    /\ th \in due /\ Joined(th) /\ StateFree
    /\ IF ~active
       THEN pub' = upnp /\ due' = due \ {th} /\ UNCHANGED <<cache, epc, eqv>>
       ELSE IF NeedRead
       THEN epc' = th /\ eqv' = stat.qv /\ UNCHANGED <<cache, pub, due>>
       ELSE pub' = SameArray /\ MakeSame /\ due' = due \ {th} /\ UNCHANGED <<epc, eqv>>
    /\ UNCHANGED <<mpd, evt, stat, last, source, poller, soap>>

CallbackRead ==
    /\ epc # "idle" /\ MutexFree
    /\ MakeRead(eqv) /\ pub' = Ids(mq)
    /\ epc' = "idle" /\ eqv' = 0 /\ due' = due \ {epc}
    /\ UNCHANGED <<mpd, evt, stat, last, source, poller, soap>>

-----------------------------------------------------------------------------
(* The SOAP thread: Insert *)

Goto(l) == pc' = l
Finish == pc' = "idle" /\ req' = NoRequest

\* An inactive service is activated first.
Request(r) ==
    /\ pc = "idle" /\ qv < MaxVers
    /\ req' = r
    /\ Goto(IF ~active THEN "restore" ELSE IF r.op = "insert" THEN "set" ELSE "delete")
    /\ UNCHANGED <<mpd, evt, stat, last, source, cache, pub, thread, disturbed>>

\* Control points name the ids which they were given once, or 0.
InsertCall ==
    \E after \in 0..nid - 1, u \in Uri :
        Request([op |-> "insert", after |-> after, uri |-> u, pos |-> 0])

\* insertUri(): cacheSet().
CacheSet ==
    /\ pc = "set" /\ StateFree
    /\ meta' = [u \in DOMAIN meta \cup {req.uri} |-> IF u = req.uri THEN "cp" ELSE meta[u]]
    /\ Goto("insert")
    /\ UNCHANGED <<mpd, evt, stat, last, source, arr, arrqv, pub, thread, req, disturbed>>

\* Mutant: whatever changed the queue since then.
InsertAfterIdUnchecked ==
    /\ pc = "insert"
    /\ IF req.after = 0
       THEN Goto("add") /\ req' = [req EXCEPT !.pos = 0] /\ UNCHANGED stat
       ELSE /\ stat' = Live
            /\ IF lastid = req.after
               THEN Goto("add") /\ req' = [req EXCEPT !.pos = lastpos + 1]
               ELSE Goto("list") /\ UNCHANGED req
    /\ disturbed' = FALSE
    /\ UNCHANGED <<mpd, evt, last, source, cache, pub, thread>>

\* MPDCli::insertAfterId(): the remembered position is used if the request is to
\* insert after the last inserted track and the queue has the same version.
InsertAfterId ==
    /\ pc = "insert"
    /\ IF req.after = 0
       THEN Goto("add") /\ req' = [req EXCEPT !.pos = 0] /\ UNCHANGED stat
       ELSE /\ stat' = Live
            /\ IF lastid = req.after /\ lastqv = qv
               THEN Goto("add") /\ req' = [req EXCEPT !.pos = lastpos + 1]
               ELSE Goto("list") /\ UNCHANGED req
    /\ disturbed' = FALSE
    /\ UNCHANGED <<mpd, evt, last, source, cache, pub, thread>>

\* The position after an id, or the end of the queue if it is not there.
PositionAfter(id) ==
    IF mq = <<>> THEN 0 ELSE IF id \in IdSet(mq) THEN IndexOf(mq, id) ELSE Len(mq)
InsertList ==
    /\ pc = "list"
    /\ req' = [req EXCEPT !.pos = PositionAfter(req.after)]
    /\ Goto("add")
    /\ UNCHANGED <<mpd, evt, stat, last, source, cache, pub, thread, disturbed>>

\* insert_i(): the command, and the id it returns.
InsertAdd ==
    /\ pc = "add"
    /\ IF CanAdd(req.pos)
       THEN AddAt(req.pos, req.uri, "cp") /\ lastid' = nid /\ Goto("stat") /\ UNCHANGED req
       ELSE lastid' = 0 /\ Finish /\ UNCHANGED <<mpd, evt>>
    /\ disturbed' = FALSE
    /\ UNCHANGED <<stat, lastpos, lastqv, source, cache, pub, thread>>

\* insert_i(): the position and the version which the queue has now.
InsertStat ==
    /\ pc = "stat"
    /\ stat' = Live
    /\ lastpos' = req.pos /\ lastqv' = qv
    /\ Finish
    /\ UNCHANGED <<mpd, evt, lastid, source, cache, pub, thread, disturbed>>

-----------------------------------------------------------------------------
(* The SOAP thread: DeleteId, Play, the id array *)

DeleteCall == \E id \in 1..nid - 1 : Request([op |-> "delete", after |-> id])

\* DeleteId: stops first if the track is the current one, as far as is known.
DeleteId ==
    /\ pc = "delete"
    /\ LET was == IF stat.song = req.after THEN "stop" ELSE play
       IN  IF req.after \in IdSet(mq)
           THEN Delete(IndexOf(mq, req.after), was)
           ELSE /\ play' = was
                /\ evt' = (evt \/ was # play)
                /\ UNCHANGED <<mq, qv, nid, song, title>>
    /\ Finish
    /\ UNCHANGED <<stat, last, source, cache, pub, thread, disturbed>>

\* Play, SeekIndex, SeekId of the active service, which read the status again;
\* Pause and Stop, which do not, and act whichever service is active.
Play ==
    /\ pc = "idle" /\ active
    /\ song' \in IdSet(mq) /\ play' = "play" /\ (song' # song \/ play # "play")
    /\ UNCHANGED <<mq, qv, nid, title, last, source, cache, pub, thread, soap>>
    /\ stat' = Live' /\ evt' = TRUE

Pause ==
    /\ pc = "idle" /\ play = "play"
    /\ play' = "pause" /\ evt' = TRUE
    /\ UNCHANGED <<mq, qv, nid, song, title, stat, last, source, cache, pub, thread, soap>>

Stop ==
    /\ pc = "idle" /\ play # "stop"
    /\ play' = "stop" /\ evt' = TRUE
    /\ UNCHANGED <<mq, qv, nid, song, title, stat, last, source, cache, pub, thread, soap>>

\* IdArray: makestate() under the state lock, then the version as the token.  An
\* inactive service answers at once.
ArrayCall ==
    /\ pc = "idle" /\ StateFree /\ active
    /\ IF NeedRead
       THEN Goto("arrread") /\ req' = [op |-> "array", qv |-> stat.qv] /\ UNCHANGED cache
       ELSE MakeSame /\ Goto("token") /\ req' = [op |-> "array", arr |-> SameArray]
    /\ UNCHANGED <<mpd, evt, stat, last, source, pub, thread, disturbed>>

ArrayRead ==
    /\ pc = "arrread"
    /\ MakeRead(req.qv)
    /\ Goto("token") /\ req' = [op |-> "array", arr |-> Ids(mq)]
    /\ UNCHANGED <<mpd, evt, stat, last, source, pub, thread, disturbed>>

\* The answer is req.arr, with the token stat.qv.
ArrayToken ==
    /\ pc = "token"
    /\ Finish
    /\ UNCHANGED <<mpd, evt, stat, last, source, cache, pub, thread, disturbed>>

\* IdArrayChanged answers 1 when the versions are equal.
IdArrayChanged(token) == IF stat.qv = token THEN 1 ELSE 0

\* Read and ReadList of one id: metadata which is not cached is made from MPD's.
Read ==
    /\ pc = "idle" /\ StateFree /\ active
    /\ \E i \in DOMAIN mq :
          /\ mq[i].uri \notin DOMAIN meta
          /\ meta' = [u \in DOMAIN meta \cup {mq[i].uri} |-> IF u \in DOMAIN meta THEN meta[u] ELSE title]
    /\ UNCHANGED <<mpd, evt, stat, last, source, arr, arrqv, pub, thread, soap>>

-----------------------------------------------------------------------------
(* The SOAP thread: another source is selected, and this one again *)

\* setActive(false): makestate() for m_upnpstate, under the state lock.
Deactivate ==
    /\ Switches /\ pc = "idle" /\ active /\ StateFree /\ qv < MaxVers
    /\ IF NeedRead
       THEN MakeRead(stat.qv) /\ upnp' = Ids(mq)
       ELSE MakeSame /\ upnp' = SameArray
    /\ Goto("save") /\ req' = NoRequest
    /\ UNCHANGED <<mpd, evt, stat, last, active, saved, pub, thread, disturbed>>

\* saveState(), stop().
SaveState ==
    /\ pc = "save"
    /\ stat' = Live
    /\ saved' = [q |-> mq, pos |-> IF play = "stop" THEN 0 ELSE IndexOf(mq, song), play |-> play]
    /\ play' = "stop" /\ evt' = (evt \/ play # "stop")
    /\ active' = FALSE
    /\ Goto("idle")
    /\ UNCHANGED <<mq, qv, nid, song, title, last, upnp, cache, pub, thread, req, disturbed>>

Activate ==
    /\ pc = "idle" /\ ~active /\ qv < MaxVers
    /\ Goto("restore") /\ req' = NoRequest
    /\ UNCHANGED <<mpd, evt, stat, last, source, cache, pub, thread, disturbed>>

\* Mutant: the queue is not cleared.
RestoreStateAppends ==
    /\ pc = "restore"
    /\ LET n == Len(saved.q)
       IN  /\ mq' = mq \o [i \in 1..n |-> [saved.q[i] EXCEPT !.id = nid + i - 1]]
           /\ nid' = nid + n /\ qv' = qv + n + 1
    /\ evt' = TRUE
    /\ Goto("activate")
    /\ UNCHANGED <<title, song, play, stat, last, source, cache, pub, thread, req, disturbed>>

\* setActive(true): clearQueue(), restoreState(), which take the lock one after
\* the other; nothing looks at the queue in between.  The tracks have new ids.
RestoreState ==
    /\ pc = "restore"
    /\ LET n == Len(saved.q)
       IN  /\ mq' = [i \in 1..n |-> [saved.q[i] EXCEPT !.id = nid + i - 1]]
           /\ nid' = nid + n /\ qv' = qv + n + 1
           /\ song' = IF saved.pos = 0 THEN 0 ELSE nid + saved.pos - 1
           /\ play' = saved.play /\ title' = title
           /\ stat' = IF n = 0 THEN stat ELSE Live'
           /\ IF n = 0 THEN UNCHANGED last ELSE lastid' = nid' - 1 /\ lastpos' = n - 1 /\ lastqv' = qv'
    /\ evt' = TRUE
    /\ Goto("activate")
    /\ UNCHANGED <<source, cache, pub, thread, req, disturbed>>

\* onEvent() with the state saved at the deactivation; then the request whose
\* id, of the saved queue, is mapped to that of the first track with its uri.
IdFromOldId(id) ==
    LET uris == {saved.q[i].uri : i \in {j \in DOMAIN saved.q : saved.q[j].id = id}}
        found == {i \in DOMAIN mq : mq[i].uri \in uris}
    IN  IF found = {} THEN 0 ELSE mq[CHOOSE i \in found : \A j \in found : i <= j].id

Activated ==
    /\ pc = "activate" /\ StateFree
    /\ pub' = upnp /\ active' = TRUE
    /\ IF req.op = "none" \/ IdFromOldId(req.after) = 0
       THEN Finish
       ELSE /\ Goto(IF req.op = "insert" THEN "set" ELSE "delete")
            /\ req' = [req EXCEPT !.after = IdFromOldId(req.after)]
    /\ UNCHANGED <<mpd, evt, stat, last, saved, upnp, cache, thread, disturbed>>

-----------------------------------------------------------------------------
(* MPD and its other clients *)

\* While this service is inactive the other client may be the radio service.
OtherAdd ==
    /\ Others \/ (~active /\ pc = "idle")
    /\ qv < MaxVers
    /\ \E pos \in 0..Len(mq), u \in Uri : CanAdd(pos) /\ AddAt(pos, u, "other")
    /\ disturbed' = (pc \in {"list", "add"})
    /\ UNCHANGED <<stat, last, source, cache, pub, thread, pc, req>>

OtherDelete ==
    /\ Others \/ (~active /\ pc = "idle")
    /\ qv < MaxVers
    /\ \E i \in DOMAIN mq : Delete(i, play)
    /\ disturbed' = (pc \in {"list", "add"})
    /\ UNCHANGED <<stat, last, source, cache, pub, thread, pc, req>>

\* MPD goes on to the next track, or stops at the end of the queue.
Advance ==
    /\ play = "play"
    /\ song' = Following(mq, IndexOf(mq, song))
    /\ play' = IF song' = 0 THEN "stop" ELSE "play"
    /\ evt' = TRUE
    /\ UNCHANGED <<mq, qv, nid, title, stat, last, source, cache, pub, thread, soap>>

\* A web radio sends a new title (once, here).
NewTitle ==
    /\ play = "play" /\ title = "title1"
    /\ title' = "title2" /\ evt' = TRUE
    /\ UNCHANGED <<mq, qv, nid, song, play, stat, last, source, cache, pub, thread, soap>>

Threads == {"event", "poll"}
EventThreads == EventWake \/ Poll \/ (\E th \in Threads : Callback(th)) \/ CallbackRead
SoapWork ==
    \/ CacheSet \/ InsertAfterId \/ InsertList \/ InsertAdd \/ InsertStat \/ DeleteId
    \/ ArrayRead \/ ArrayToken \/ SaveState \/ RestoreState \/ Activated

Next ==
    \/ EventThreads \/ SoapWork
    \/ InsertCall \/ DeleteCall \/ Play \/ Pause \/ Stop \/ ArrayCall \/ Read \/ Deactivate \/ Activate
    \/ OtherAdd \/ OtherDelete \/ Advance \/ NewTitle

Spec == Init /\ [][Next]_vars

-----------------------------------------------------------------------------
(* Properties *)

TypeOK ==
    /\ mq \in Seq(Entry) /\ Len(mq) <= MaxLen /\ Cardinality(IdSet(mq)) = Len(mq)
    /\ qv \in Nat /\ nid \in Nat /\ song \in IdSet(mq) \cup {0}
    /\ play \in {"play", "pause", "stop"} /\ (song = 0 => play = "stop")
    /\ title \in Titles /\ evt \in BOOLEAN
    /\ stat \in [qv : 0..qv, song : 0..nid, title : Titles, uri : SUBSET Uri]
    /\ lastid \in 0..nid /\ lastpos \in 0..MaxLen /\ lastqv \in 0..qv
    /\ active \in BOOLEAN /\ saved.q \in Seq(Entry) /\ saved.pos \in 0..Len(saved.q)
    /\ saved.play \in {"play", "pause", "stop"} /\ (saved.pos = 0 => saved.play = "stop")
    /\ upnp \in Seq(Nat) /\ arr \in Seq(Nat) /\ arrqv \in Nat /\ pub \in Seq(Nat)
    /\ DOMAIN meta \subseteq Uri /\ \A u \in DOMAIN meta : meta[u] \in Origins
    /\ epc \in {"idle"} \cup (Threads \cap due) /\ eqv \in 0..qv
    /\ poller \in BOOLEAN /\ due \subseteq Threads \cup {"last"}
    /\ pc \in {"idle", "set", "insert", "list", "add", "stat", "delete", "arrread", "token",
              "save", "restore", "activate"}
    /\ disturbed \in BOOLEAN

\* makeIdArray() reads the status before the queue, so that the array which it
\* caches is never older than the version it is cached for: a cached array with
\* MPD's version is MPD's queue.
IdArrayFresh == arrqv = qv => arr = Ids(mq)

\* "not found" should not happen: queue should have been saved.  The metadata
\* of every track which the array shows is in the cache.
MetaCovers == active /\ arrqv = qv => Uris(mq) \subseteq DOMAIN meta

\* The tracks of the playlist, in MPD or in the saved state.
Playlist == IF active THEN mq ELSE saved.q

\* The metadata which a control point gave for a track is not replaced while the
\* track is in the playlist, through any number of events, switches of the
\* source and tracks with the same uri.
MetaStable ==
    [][\A u \in Uris(Playlist) \cap Uris(Playlist)' \cap DOMAIN meta :
          meta[u] = "cp" => u \in DOMAIN meta' /\ meta'[u] = "cp"]_vars

\* A track is inserted after the one which the control point asked for (when no
\* other client changes the queue between the search and the insertion), and it
\* is refused only when the queue is full: the remembered position is not used
\* once a deletion has moved the tracks.
InsertPlace ==
    [][pc = "add" /\ pc' # pc /\ ~disturbed =>
          IF Len(mq) = MaxLen THEN mq' = mq
          ELSE /\ nid \in IdSet(mq')
               /\ LET i == IndexOf(mq', nid)
                  IN  IF req.after = 0 THEN i = 1
                      ELSE req.after \in IdSet(mq) => i > 1 /\ mq'[i - 1].id = req.after]_vars

\* No event is on its way, and no thread or action is at work.
AtRest == active /\ pc = "idle" /\ ~evt /\ due = {}

\* No change is missed: at rest the control points have been sent the array of the
\* tracks which are in the queue, or the empty one after a title changed, and then
\* the next callback sends the array: that of the poller, which runs if MPD plays.
PublishedAtRest ==
    AtRest /\ ~Switches =>
        /\ \/ pub = Ids(mq)
           \/ pub = <<>> /\ ~NeedRead /\ SameArray = Ids(mq)
        /\ poller = (play = "play")

-----------------------------------------------------------------------------
(* What the documentation and the comments of the code say, and it does not do *)

\* ohplaylist.cxx: tracks for which the cache has no metadata were "added by
\* another MPD client".
MetaOfControlPointKept ==
    \A i \in DOMAIN mq : active /\ mq[i].by = "cp" =>
        mq[i].uri \in DOMAIN meta /\ meta[mq[i].uri] = "cp"

\* "Set the AfterId argument to 0 to insert a track at the start": also when the
\* service has to be activated first.
InsertAtStart ==
    [][pc = "activate" /\ pc' # pc /\ req.op = "insert" /\ req.after = 0 => pc' = "set"]_vars

\* "Reports a 800 fault code if AfterId is not 0 and doesn't appear".
UnknownAfterIdRefused ==
    [][pc = "add" /\ pc' = "stat" /\ ~disturbed => req.after \in IdSet(mq) \cup {0}]_vars

\* "if the new request is to insert after this id, and the queue did not
\* change": InsertPlace when there are other clients.
RememberedPlace == InsertPlace

\* onEvent() "is called from the mpd event loop when something changes", and sends
\* the new state: also when it changes because the source is selected again.
PublishedAfterSwitch == AtRest => pub \in {Ids(mq), <<>>}

\* "On the next event, with no title change, we will emit the real idarray": also
\* when MPD is paused at the same time as the title changes.
PublishedAfterPause == AtRest /\ play # "play" => pub = Ids(mq)

\* "Check if id array changed since last call (which returned a gen token)":
\* the token is that of the array it came with.
TokenOfArray == [][ArrayToken /\ stat.qv = qv => req.arr = Ids(mq)]_vars

\* "Bool indicating if array changed", since the call which returned the token.
ChangedAnswer == \A token \in 1..qv : IdArrayChanged(token) = 1 <=> stat.qv # token

\* "MPD skips to the next track if the current one is removed, but I think it's
\* better to stop in this case".
DeletedCurrentStops == [][DeleteId /\ song = req.after => play' = "stop"]_vars
=============================================================================
