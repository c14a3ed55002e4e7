# upmpdcli: a verification project

upmpdcli is a UPnP/OpenHome media renderer in front of the Music Player Daemon
(MPD). Control points send it SOAP actions, it sends commands to MPD, and it
publishes MPD's state back as UPnP events. A second part, the media server,
gives access to streaming services through helper processes.

This directory has TLA+ models of the core of the renderer and of the Python media
server plugins, TLC configurations which check them, and TLAPS proofs. `PROJECT.json` lists the runs, maps each definition to the
source lines it translates, and lists the hazards that the properties are aimed
at. To check a run or a proof:

    tlc -config OHPlaylist.cfg MCOHPlaylist
    tlapm SourceSwitchProofs.tla

Contents: 1 the system, 2 the modules, 3 the runs, 4 fairness, 5 the proofs,
6 where the code and its words disagree, 7 what is not modelled, 8 the plan.

## 1. The system

### Threads and shared state

| Thread | What it does | Locks |
|---|---|---|
| SOAP | runs one action of the device at a time (libupnpp serialises them) | takes the ones below as it calls |
| MPD event thread, `MPDCli::eventLoop` | waits in MPD's *idle* command, reads the status, calls each service's `onEvent`, at most once per second | `m_mutex` for the status, `m_callbackmutex` for the callbacks, each service's `m_statemutex` |
| poller, `MPDCli::timepoller` | the same once a second while MPD plays | the same |
| save thread | writes the metadata cache | the queue's mutex only |
| media server, fetch and HTTP threads | serve directories and streams | their own |
| each plugin process | a main loop which answers one command at a time over a pipe; threads of Uprcl's index updates and web server, of the radio list and of the BBC programmes | `ReadWriteLock` in Uprcl, none elsewhere |

MPD itself, and its other clients, obey none of these locks. Most of what can go
wrong is a decision taken from state read under one lock and used after it was
released, or across two commands to MPD.

### Components

| Component | State | Operations | Hard behaviour | What makes it correct |
|---|---|---|---|---|
| Source selection: `ohproduct.cxx`, `ohsndrcv.cxx` | current source, its persisted name, the external sender, which MPD the device uses | SetSourceIndex and every action that selects its own source; `SenderReceiver::start`, `stop` | about ten steps that may each fail, in which the MPD queue, the mixer and the MPD connection change hands; restart | one service owns MPD; the playlist comes back as it was; the mixer is restored; one MPD sounds |
| Playlist service: `ohplaylist.cxx` | the cached id array and its MPD version, metadata by uri, the saved queue, the state shown while inactive | Insert, DeleteId, DeleteAll, IdArray, IdArrayChanged, Read, ReadList, transport, `setActive` | event thread against SOAP thread; other MPD clients; ids which change when the queue is restored | the array is MPD's queue for its version; metadata survives; insertions land where asked; control points end up informed |
| MPD client: `mpdcli.cxx` | last status, position of the last insertion, subscriptions, idle and poller threads, pre-mute volume | one method per command, retries, event loop | stale status, reconnection, start and stop of the event loop | the remembered position is right; no event is lost; no deadlock |
| Metadata cache file: `ohmetacache.cxx` | queue of snapshots, temporary file, file | save, save thread, restore | crash at any step, file errors, saves faster than the disk | the file is one whole, never older cache |
| Task queue: `workqueue.h` | deque, flags, counts of waiting and exited threads | start, put, take, waitIdle, setTerminateAndWait, workerExit | notifications shared by clients which wait for different things | bounded, no lost wakeup, idle means idle |
| Radio: `ohradio.cxx` | channel, pending play, saved MPD state | SetId, Play, Stop, `setActive`, metadata script run by the event thread | a script which takes seconds while the service is deactivated | an inactive radio leaves MPD alone |
| Receiver: `ohreceiver.cxx` | sender uri, receiver process | SetSender, Play, Stop, `makestate` may stop | event thread stops what the SOAP thread starts | process and state agree |
| Device: `upmpd.cxx` | services, the current MPD client, radio flag | delegation, mute, format check | the MPD client is exchanged under the services | services always use the same MPD |
| Event publication: `ohservice.cxx` | last published state of each service | `onEvent`: make the state, send what differs | three threads call it | the last event sent is the last state |
| AVTransport: `avtransport.cxx` | current and next uri with metadata | SetAVTransportURI, SetNextAVTransportURI, Play, ... | MPD goes on to the next track by itself | metadata belongs to the track that plays |
| Volume: `renderctl.cxx`, `ohvolume.cxx` | desired volume, mute through volume 0 | SetVolume, SetMute, increments | MPD has no mute | unmute gives the volume back |
| OHInfo, OHTime | track counter, metatext | formatting | - | - |
| Streaming proxy: `bufxchange.h`, `curlfetch.cpp`, `streamproxy.cpp` | buffers in flight | put, take, recycle, reset with timeouts | late threads against a reset | bytes in order, no stuck thread |
| Plugin process: `cmdtalk.cpp`, `plgwithslave.cxx` | child, content cache, cached url | browse, search, get_media_url | child dies or is late | the plugin comes back; a listing is that of its place |
| Uprcl server: `uprcl/uprclinit.py`, `rwlock.py`, `uprclindex.py`, `uprcl-app.py` | flags, lock, trees, the indexer process | browse, search, index updates from the web page | two updates at once over shared globals; a lock given back by every path | the lock is exact; requests find the trees of one update; updates end |
| Uprcl trees: `uprclfolders.py`, `uprclplaylists.py`, `uprcluntagged.py`, `uprcltags*.py` | directories, playlists, tables of tracks, albums, tags | building from the index, browsing | documents in any order; passes over tables which they change | every track can be reached; albums share out the tracks; the views agree |
| Uprcl search: `uprclsearch.py` | - | criteria to a Recoll query, result to entries | priorities, negation, relations which are dropped | the query means what the criteria mean |
| Subsonic: `subsonic/` | art and initials caches | browse by identifier, pages, search, initial reading | pages are separate requests, some filtered after they are cut | pages add up to the list; entries lead where they say |
| Streaming: `qobuz/`, `tidal/`, `hra/`, `deezer/`, `spotify/` | session, token file | login, renewal, views | a request unanswered at any point; tokens age; process killed | a session is of one user; the root opens again; routes lead back |
| Radios: `upradios/`, `pycommon/upradioconf.py`, `src/rdpl2stream/`, `radio-browser/` | radios in the order of the configuration; country names | load in batches of threads, resolve playlists, browse by facets | threads end in any order, or never | radios are listed as configured; stations match the choices |
| BBC: `bbc/` | threads in flight, their results | stations, days, podcasts | threads which end late or raise | the first programmes, in order |
| Media server, credentials, connection manager, utilities, start-up, tools | see PROJECT.json | | | |

Interaction: `OHProduct` calls `setActive()` of the services and `SenderReceiver`;
the services call `UpMpd`, which holds the `MPDCli`; `MPDCli` calls the services
back from its threads; `OHPlaylist` hands snapshots of its metadata to the save
thread through a `WorkQueue`. The media server finds the plugin in the first part of an
object id and talks to its process through `PlgWithSlave` and `CmdTalk`; in the process
`cmdtalk.py` reads a command and calls a handler, and for the streaming plugins
`routing.py` finds the view for the rest of the object id.

## 2. The modules

    SourceSwitch          MCSourceSwitch   SourceSwitchProofs
    OHPlaylist            MCOHPlaylist     OHPlaylistProofs
    TaskQueue  <-  WorkQueue (implements)  MCWorkQueue  WorkQueueProofs
    TaskQueue  <-  MetaCache (uses)        )
    MetaCodec                              )   MCMetaCache   MetaCacheProofs
    ReadWriteLock  <-  UprclServer         MCUprclServer    UprclServerProofs
    UprclFolders  <-  UprclLists    )
    UprclTags, UprclTagView         )      MCUprcl
    UprclSearch                     )
    Places  <-  SubsonicBrowse             MCSubsonicBrowse  SubsonicProofs
    Places  <-  PluginRouting  <-  QobuzPlugin, TidalPlugin, HraPlugin, DeezerPlugin, SpotifyPlugin
                               <-  StreamPlugin        MCStreamPlugin  StreamPluginProofs
    ConfTree, RadioPlaylists, Places  <-  RadioDirectory   )
    RadioBrowser                                           )  MCRadio  RadioProofs
    PluginRouting, Places  <-  BbcPlugin                   )

`MC` modules define values for constants, and put together parts which share
nothing, so that each behaviour is about one of them (`MCMetaCache`, `MCUprcl`, `MCRadio`). A
definition whose comment says *Mutant* is not part of the model: it is a plausible
mistake in the definition which follows it, with which a property of the module must
fail.

**SourceSwitch** is `OHProduct::iSetSourceIndex` with everything it calls. `pc` is
the point the SOAP action has reached: `leave` (`setActive(false)` of the old
service), `sndstop`, `sndstart` (`SenderReceiver::stop`, `start`), `enter`
(`setActive(true)`), `commit` (index and persisted name). `mpd` holds the queue, the
play state and the mixer of the main and of the auxiliary MPD, `cur` says which one
the device uses. Each call to MPD has the set of its outcomes (`Saves`, `Restores`,
`Stops`): complete, or, when `Faulty`, failed before it did anything or in the
middle. The actions of an inactive service select their source and then do their
work (`resume`). The radio's metadata script is two actions of the event thread,
because it runs without any lock. `Restart` may happen between any two steps; MPD
survives it. Abstracted: names and indices are one thing; queue entries are their
uri; the receiver does not play through MPD (the ALSA mode).

**OHPlaylist** is the playlist service, the MPD status and MPD's queue with its
versions and ids. The SOAP thread (`pc`), the event thread with the poller
(`epc`), other MPD clients and MPD are interleaved. A step is what happens between two
points where another actor may get in: one command to MPD, or a section under a
mutex. `MutexFree` and `StateFree` are `MPDCli::m_mutex` and `OHService::m_statemutex`.
`makeIdArray` is `MakeSame` (the version has not changed) and `MakeRead` (read the
queue again); who calls it, with what status, is in `Callback`, `CallbackRead`,
`ArrayCall`, `ArrayRead` and `Deactivate`. The poller is started and stopped by the event thread, with the
play state which it has read (`pollerCtl`). `InsertAfterId`, `InsertList`, `InsertAdd` and
`InsertStat` are the four exchanges with MPD of one insertion. Metadata is
`"cp"`, given by a control point, or the title in MPD's data.

**TaskQueue** is what a task queue promises, without threads. **WorkQueue** is
`workqueue.h`: a step is what a thread does from taking the mutex to releasing
it. `cset` and `wset` are the wait sets of `m_ccond` and `m_wcond`;
`notify_one` removes any member, `notify_all` all of them, and a thread which was
removed competes for the mutex. Spurious wakeups are an action. The counters are
unsigned (`Inc` and `Dec` modulo `Modulus`). TaskQueue is the PROPERTY `Promise` of
WorkQueue, with `tasks <- queue, running <- task`.

**MetaCache** composes the service's decision to save (`MakeIdArray` when MPD's queue has a new version,
`MakeIdArraySame` when only a title changed, `MustSave`), the promise of the queue (`TQ!Replace`, `TQ!Take`, `TQ!Finish`: the module uses TaskQueue,
which WorkQueue implements), the steps of the save thread on the temporary file
and the file, and the next process which reads the file. **MetaCodec** is the
escaping of one line: `Encode` and `Decode` with the loop that stops two characters
before the end, and the buffer of the reader.

**ReadWriteLock** is `rwlock.py`: a reader has the mutex of the condition variable for a
moment, a writer keeps it until it releases. **UprclServer** is the process around it: `pc`
has a place for the main loop, for each thread of the web server and for each update.
The content of the trees is the number of the update which made them, so that `used`, the
trees read by one answer, shows a mixture. A step of an update is what it does between
two accesses to the globals it shares with another update (`_idxproc`,
`_lastidxstatus`, `_g_trees`, `g_initstatus`, the flag).

**UprclFolders** is the tree of directories. `AddDoc` is one turn of the loop of `_rcl2folders`
with everything it calls, in the order in which the index gives the documents;
playlists are completed afterwards. Indexes count from 0 as in the code, because 0 and None
are both false there. Browsing and metadata are operators over the finished tree.
**UprclLists** has the sections of playlists and of untagged items.
**UprclTags** has the tables of `uprcltagscreate.py` as sequences, one step for each document
and for each pass (artists, each candidate album), and the selections of `uprcltags.py`
as operators. SQL statements are modelled by what they select. **UprclTagView** is the list
`self.hidden` of `browseFolder`, which hides the tags of a folder for two seconds after a visit
to its *Hide Contents*; the clock is assumed not to go back. **UprclSearch** is the
parser of a criteria string as a sequence of tokens, the query which it makes, what Recoll
does with a query (external: `mime:` clauses filter the whole result, the rest is boolean), and the order of the entries of the result.

**SubsonicBrowse** has one operator for each handler of `subsonic-app.py`, with the code's names; an
identifier is the record of what the code packs into an object id. `browse` begins a request,
`ReadAlbums`, `ReadDone` and `ReadFails` are the loops which read a whole list, `Answer` ends it.
`seen` is what a client has collected by following *Next*.

**PluginRouting** has the route tables and their matching, and the entries made from views.
Each plugin module has its routes, its login, and `...Browse`: what each view lists, of a
catalogue given as a constant, and after how many requests. A command may get
`net` answers from the service; then requests fail, which for some plugins is an
exception and for others None. **StreamPlugin** is the Media Server side, common to the five:
start, one command at a time, kill after a timeout, exit, the content cache, credentials,
ageing of sessions and tokens.

**ConfTree** is the reader of configuration files, **RadioPlaylists** the way from an address to a
stream with its six decoders, **RadioDirectory** the loading of the radios by batches of threads
and the answers after it. **RadioBrowser** is the tree of facets where a place is all the
state there is. **BbcPlugin** has stations, days and podcasts, and the batches of threads
which ask for programmes; the slices of long lists are switched off in the source.

## 3. The runs

| Run | Instance | What it shows |
|---|---|---|
| switch | all six sources, playlists of 2 over one track, volumes 40 and 100, no external volume control, no failure | `PlaylistKept`, `FullScaleOnlyWhileSending` over every order of actions |
| switch_faults | Playlist, Radio with a metadata script, RD-to-Songcast, playlists of 1; external volume control, failures, restarts | `OneOwner` and `MainSilentWhileSending` whatever fails |
| playlist | two uris, a queue of 2, three versions, other clients, source switches, titles | `IdArrayFresh`, `MetaCovers`, `MetaStable` |
| playlist_insert | one uri, a queue of 3 and five versions: four changes, so that a full queue refuses, and an insertion comes after two others and a deletion | `InsertPlace`, `PublishedAtRest` |
| workqueue | 2 clients with 2 calls each, 2 workers which may fail, limit 2 | `QueueBound`, `WorkersCounted`, `TasksHaveWorkers`, `Promise`, `EveryCallReturns` |
| metacache | 2 uris, 3 snapshots with that of the start, one restart, file errors, titles which change; and lines of up to 5 characters of six | `FileFromOneSave`, `FileNeverOlder`, `TakenIsLatest`, `SavedInTheEnd`, `RoundTrip` |
| uprcl_server | main loop, one web thread, two updates, two trees | `ReadersCounted`, `AnswersHaveTrees`, `OneGeneration`, `UpdatesEnd` |
| uprcl | three top directories, the path of one being a prefix of that of another; up to 4 of 8 documents in every order, twice (folders, tags); two tag views over 6 s; about 500 criteria | `FoldersLeadToTracks`, `PlaylistsAgree`, `AlbumsShareTracks`, `SelectionReached`, `SearchAnswered` |
| subsonic | 4 albums, 7 songs, pages of 2, answers of 3 | `PagesCoverList`, `PagesKeepPromises`, `BrowseAnswered` |
| streaming | five plugins, catalogues of 1 to 3 things of each kind, 0, 1, 2 or 12 answered requests | `EntriesLeadBack`, `SessionHasOneUser`, `ListsWithFreshSession`, `RootOpens` |
| radio | five configurations of up to 7 radios over 20 addresses, among them m3u lists with lines of text; 3 stations; 6 programmes, 3 threads | `RadiosServed`, `LoadEnds`, `StationsAsChosen`, `ProgrammesInOrder` |
| radio_untyped | the same configurations | the counterexample to `UntypedIsDirect` (section 6) |

The bounds, and why they are enough:

* `MaxLen` of SourceSwitch: the queue is moved as a whole, so what matters is
  whether it is empty, equal to the radio's queue, cut in the middle by a failure
  or changed. One or two entries have all of these. The proof has no bound.
* `Sources` is what the configuration gives; the runs take all of them, or the ones
  with the most handovers.
* `MaxVers` of OHPlaylist: no request and no other client starts a change once the
  queue has this version (what was started goes on). Three versions are enough for a
  change between reading the version and the queue and another one after it. The run of the
  insertions has five: three fill the queue and the fourth is refused; and after two insertions and a deletion
  before them a fourth names the remembered id, whose place only the version check saves from being used.
* Two uris in a queue of two have every case of shared and of different uris.
* Titles: `title1` becomes `title2` once; it is the change that matters.
* WorkQueue: with two clients and two workers a notification can go to the wrong
  one of two clients which wait for different things, and to the wrong worker.
  `MaxCalls` bounds the calls of a client, not what the workers do. `Modulus`
  is 16, above the number of threads, so that only a decrement of zero wraps.
* `MaxSaves` 3 allows the initial file, a snapshot being written and one which waits;
  one restart separates two processes.
* MetaCodec: the characters are `%`, `=`, end of line and `2`, `5`, `D`: those of the
  escapes, and of escapes of escapes. Three characters contain a whole escape. `LL`
  is 14, so that lines fit or not: five escaped characters do not.
* UprclServer: two updates are enough for one to work on the process of the other, and two
  trees for a mixture. Each update runs once; the proof has no bound.
* Uprcl: a directory, a track below it, one below a directory which has no document, one in
  a group, the same path below two top directories, a top directory whose path begins with that of another, a file which is neither, and two
  playlists, one with an unknown and a repeated line. Four documents contain each pair with
  what lies between them. For tags: two disc folders and their parent, disc numbers from
  folder, title and tag, a track without an album; four tracks make up two discs, their
  sibling and a stranger. Criteria have up to three relations, all that priorities are about.
* Subsonic: pages of two over four elements end exactly at a page's end, and over three in the
  middle of one; an album has two versions, one of them two discs, one album has two
  artists, one has no song. The library is read in answers of three.
* Streaming: a slice is 2 and some lists have 3; an album and a track are unavailable. 0, 1 and 2
  answered requests stop a login and a view between any two of their requests.
* Radio: batches of one thread, of two, and all at once; an address with the content type of each
  decoder (that of asf raises before it reads one, that of ram after) and for the ways in which they fail;
  a line of text in an m3u, which is followed as an address; a playlist in a playlist; one which leads to itself.
* BBC: a programme twice in a page, one in two pages, versions without media or audio.

Deadlock is checked where the system cannot stop (SourceSwitch, UprclServer,
SubsonicBrowse). It is not where it can: MPD and the control points may have no more to do
(`MaxVers`), the clients of the queue make no more calls, the cache has been saved, the
tree has been built, the search is answered, the plugin is not enabled or its process has
exited. There the liveness properties say that nothing is left half done.

Each property has a mutant in PROJECT.json: a plausible mistake in the code which
makes it fail in that run.

**Ghosts.** `clean` of SourceSwitch is TRUE until MPD refuses something, the process
restarts while the playlist is not in the main MPD, or a script comes back to an
inactive radio; the properties about what is kept are stated under it, because the
code keeps the saved state in memory only. `userpl` is the playlist as the user last
made it. `chosen` is the set of the volumes which somebody chose for the main mixer, at the start or by a
control point. `retitled` of MetaCache has the uris whose title changed since the last snapshot. `disturbed` of OHPlaylist says that another client changed
the queue during the insertion, which no MPD client can prevent. `failed` and
`history` of MetaCache say whether a file operation failed and what was saved. `overlap` of
UprclServer remembers that two updates were alive together. `chosen` of RadioBrowser is what
the control point has selected, which the plugin does not keep. `seen` of SubsonicBrowse
is what a client has collected. `good` of StreamPlugin says that the service works from here on.

**Definitions of what is meant.** Some properties compare with a reference: `Meaning` of
UprclSearch is the ContentDirectory reading of a criteria, `stations` and `Meant` of RadioDirectory
are what a person reads in the configuration and in the playlists, `WholeList` of SubsonicBrowse
is the list of which a page is a part.

## 4. Fairness

* OHPlaylist: none. `PublishedAtRest` speaks of the states in which nothing is under way, so that it needs no
  fairness of threads; that the poller's next callback comes is its second conjunct, the poller runs.
* WorkQueue: weak fairness of each notified thread and of each worker: the
  mutex is held for a moment and a task ends. Clients need not call.
* MetaCache: weak fairness of the save thread.
* UprclServer: weak fairness of each thread between its first step and its last one, and of the end
  of recollindex; strong fairness of a writer which takes the lock, as readers hold the mutex only for
  a moment. The lock prefers readers: a writer may wait for ever while requests overlap, so
  `UpdatesEnd` has the premise that it becomes free again and again. Requests need not come.
* SubsonicBrowse: weak fairness of the plugin's one thread. `BrowseAnswered` holds for libraries in
  which no list read by a loop is empty or a multiple of the answer's size (section 6).
* StreamPlugin: from the moment at which the service works (`good`), the control point asks
  for the root again and again, and time makes a kept listing expire.
* RadioDirectory: weak fairness of the loading and of the threads together; `LoadEnds` is about
  configurations whose playlists and documents end (`Confs[files].ends`).
* SourceSwitch, MetaCodec, the trees of Uprcl, RadioBrowser and BbcPlugin have no liveness property:
  they are sequential, or (BBC) wait without a limit for answers of the network.

## 5. The proofs

TLAPS checks these for every value of the constants that satisfies the named
`ASSUME`s of the modules.

**SourceSwitchProofs.** `ExactlyOneOwner`: `OneOwner` says nothing of the middle of a
switch, so the invariant `OwnerInv` adds it: up to `leave` the services are active as
the current source wants, from `sndstop` to `enter` none is, at `commit` they are
active as the target wants. It uses only `SourcesAssumption`. `TypeCorrect` is in three
parts (`SwitchType`, `ServiceType`, `MpdType`), with lemmas about the outcomes of MPD
calls (`StopsType`, `SavesType`, `RestoresType`, `EditedType`). `PlaylistNeverLost`:
`PlaylistKept` is inductive only with the owner, because it is the active service
alone that works on the queue, and with `AfterInv`: what an action does after a
switch is for the service it switched to. `KeptInv` is their conjunction. It holds
for playlists of any length, since `Restored` gives the saved queue whatever it is.
`FullScaleEnds`: `FullScaleInv` is stronger than `FullScaleOnlyWhileSending`, which speaks
only of the time between two switches; it says that the mixer is not at full scale at any step at which the main MPD
is the one in use, because `SenderReceiver::stop` copies the volume back before the device
changes. That is so when upmpdcli sets the volume itself: `Restored` has the test of
`MPDCli::restoreState`, and with `ExternalVolume` the theorem has no content (section 6). `MainStaysSilent`: `MainSilentWhileSending` is inductive once the start of a
sender is known to begin with the main MPD in use (`SilentInv`); the work of a service then
touches only the MPD in use (`SilentAux`).

**OHPlaylistProofs.** `CacheInvariant`: `IInv` says that no version which somebody
remembers (the cache, the status, the event thread, a request) is newer than
MPD's, and `Cached` gives `IdArrayFresh` and `MetaCovers` also for an inactive
service. It is inductive because every change of the queue makes a new version
(`NewVersion`), so that only a reading can make the versions equal, and a reading
takes the version first (`MakeReadCached`). `ArrayFresh` and `CacheCovers` follow, with other
MPD clients, source switches and a queue of any length. `InsertedAfter` is `InsertPlace`
under `~Others`: `PlaceInv` adds that ids are below the next one, that the remembered
position is that of the remembered id while the queue has the remembered
version, and that between search and insertion the position is the one after the
requested track. With other clients it is false (`RememberedPlace`, section 6). The
lemmas `InsertAtElements` and `RemoveAtElements` say what the two sequence operators do.
`MetadataStable`: `MetaStable` follows from `MetaInv`: a thread which reads the queue again holds the
state mutex (`ReadLock`), so that the metadata which it began with is the metadata it
finishes with, and a track of an id keeps its uri (`OneUri`). `TypeCorrect`: the part of `TypeOK` about
the cached array, as many ids as tracks, needs the ids of a queue to be distinct and below the next one
(`MpdInv`, `DistinctCount`), and what each thread remembers to be of MPD's past (`ClientType`, with `IInv`); `TypeInv` is the conjunction.
`ChangesPublished` is `PublishedAtRest` under `~Switches`, with other MPD clients: `SentInv` says, for every thread
between a reading and its event, what it has read and what it will send, so that a change after
it leaves an event pending or a callback under way; and the poller is started and stopped with
the play state that the event thread has seen (`Polling`). With switches it is false (`PublishedAfterSwitch`, section 6).

**WorkQueueProofs.** `QueueInvariant`: `Inv` has the types, that a client which waits in
`put` has a task and no idle answer, that workers exist while the queue is
started and have a task exactly while they work, and that the counters are
the numbers of the threads at their places. The lemmas `CountSplit` and `CountAll` say
what one thread adds to a count, and that all threads are at a place if their
number is; that is what makes the sum tested by `waitIdle` mean that everybody
sleeps (`IdleIsIdle`), also in modular arithmetic because there are fewer workers
than `Modulus` (`ThreadsAssumption`). `QueueBounded`, `CountersExact` and `Implements` (the
refinement of TaskQueue, step by step) follow. `TasksServed`: `TasksHaveWorkers` is inductive with `Inv`.
`Awake` are the workers which will look at the queue without being notified; `put` adds a task
and wakes one worker if one sleeps (`PutServed`), and a worker falls asleep only when
the queue is empty.

**MetaCacheProofs.** `Invariance`: `IInv` says that at most one snapshot waits and that it
is the latest one, that the one which is written comes from a save not older than
the file, that the temporary file has lines of that one only, and, unless a
write failed, all of them when it is renamed. From it: `FromOneSave`, `IsOneSave`,
`NeverOlder` and `IsLatest`, the last two as action properties.

`LinesRoundTrip` is about one line, for keys and values of any bytes but 0 (`CharAssumption`) and of any length.
`Encode` and `Decode` are recursive functions, and what they compute for every string needs induction: `Upward` is
induction with a set in the place of a formula, which follows from the well-founded order of the naturals. By it
the two functions exist (`EncodeDefined`, `DecodeDefined`), each character has its place in the encoding
(`Encoded`), and, from the end to the beginning, what is decoded from the place of a character on is the rest of
the string (`DecodeOfEncode`). The last two characters, which `decode()` copies, are no
exception: an escape of `encode()` has three, so none begins there. `LineRead`: an encoded key has no `=`.

**UprclServerProofs.** `LockCounts`: `LockInv` says that the count is that of the threads between
`initdone()` and `release_read()`, and that the holder is the thread which sets or clears the flag.
The lemma `Moves` says what a step of one thread does to the count; `OutsideLock`,
`ReaderEnters`, `ReaderLeaves`, `WriterEnters` and `WriterLeaves` then treat every action.
`RequestsFindTrees`: `TreesInv` adds that there are trees whenever the flag of success is set, also when an
update which failed and one which succeeded end in any order. `TreesOfOneUpdate`: `GenInv` says
that between its two write locks the only update alive has the flag set, and that no request
is inside: those which were there have left before the writer got the lock (`WriterAlone`), and
no other enters. That is why the trees can be replaced without the lock. With two updates alive it is
false (`NeverMixed`, section 6). Any number of threads and updates; the assumption is
`ThreadsAssumption`.

**StreamPluginProofs.** `SessionInvariant`: `IInv` says that what the process remembers of its
login is of one user (`OneUser`) after any of the five logins, ended by any unanswered request: a
Deezer session which is not logged in remembers no user, an HRA session is that of the configured
user; that a token file has a user's token; and that the listing in the content cache and the one
which is being answered were made with one session (`Served`), which `ListsWithFreshSession` does not say of
the cache although a later browse shows it. One lemma per plugin (`QobuzKeeps`, ...) treats its
login. `OneUserPerSession` and `FreshListings` follow, for any catalogues and any numbers
of answered requests among which there is a largest one (`ServicesAssumption`, `NetsAssumption`).
The Spotify library keeps its user in a file of its own, and is not part of `OneUser`.

`EntriesReturn` is `EntriesLeadBack`. `LeadInv` says that the listing on show and the one in the cache
consist of `Leading` entries; that is inductive because the control point only asks for paths which the
plugin has shown, or has shown once (`Bookmarks`), and because the identifier in the address of a track
is asked for again. The argument has two halves. About the routes: `FittedPath` says that what
`make_path()` makes of a pattern and arguments which fit it is matched by that pattern, and that
`match()` finds these arguments; `ApartPatterns` that of two patterns which are `Apart` at most one matches a
place; and a `Table` has one rule for each view, patterns which are all apart, and words where words are meant
(`QobuzTable`, ... `SpotifyTable` check this for the five tables, for each pair of rules). So the first rule
which matches is the only one, in whatever order the decorators run (`Dispatched`). About the views: one
lemma for each service (`QobuzBrowseLeads`, `QobuzSearchLeads`, ...) says that all a view function lists
are entries of rules of its table with arguments which fit. The assumptions are about the identifiers
(`IsId`): one segment, not empty, and not beginning with "http". They are used: an identifier with a slash
has a path which no rule matches, and `urls_from_id()` leaves out one which begins with "http" while `view()`
keeps its title, so that the titles after it are those of other entries. A service which does
that is not modelled in a run; the services name their things with numbers and short codes.

**SubsonicProofs.** `PagesFollow`: the pages of a list are separate requests which share nothing but the
identifier of *Next*, so `PageInv` follows both sides of it. An identifier on a page is one that the handlers make
(`Known`): it begins a list, or it is the *Next* of that page, at the offset where the page ends (`Entry`); only the
first page of the favourite songs is that of `fs`, and its *Next* is a page of `fsl` (`NextOfSongs`). What the client
was shown is the list up to the end of the page it has, or up to its beginning while the request runs (`SeenTo`), and
without a *Next* the page's end is the list's (`IsTail`). `ElementAnswers` and `TagAnswers` treat every handler, `PagedAnswer` those
of the lists, `PageShown` joins a page to those before it. `ListsCovered` is `PagesCoverList`; it also holds of an empty last page,
which a list has whose length is a multiple of the size of a page. `LibraryAssumption` says only that the server's
answers are lists and that pages are not empty. The albums of an artist are excepted, as in the property (section 6).

`PagesKept` is `PagesKeepPromises`. An entry promises something only because its handler looked before making
it, so `GoodInv` says of every place and every entry in the client's hands that the library has it and
that what was looked for is there (`Good`); `FineTagAnswers` and `FineElementAnswers` go through the handlers, and
`Promised` finds the page of a good place not empty. The order of an album's songs: a sorted list is described by what it
is, each element at the place which is the number of those before it, so no induction is needed over the sort:
`RankOrders` shows that this places every song once and in order, `BeforeOrder` and `PrecedesOrder` that the
comparison of the code is a weak order made total by the places (the sort is stable), `Chosen` that the songs of
a version keep it, `TracksInOrder` that the page's numbers do. The art caches: the loops over the albums and the
initials are functions on the number of rounds, and every round keeps `AllBelong` (`InitialsBelong`, `StepArt`).
The assumptions: `ReferencesAssumption`, what the server's lists name is in the library, and an artist
is under one initial; `SongsAssumption`, songs are in folders, as the plugin takes the empty
path for no path, and disc and track are numbers. The hypothesis `ArtForTags`: the initial page takes the art
of each tag from an element of the library, and raises an exception, so is empty, when there is none.
`MCSubsonicBrowse` evaluates it as an `ASSUME`.

**RadioProofs**, the configured radios. `RadiosInPlace`: a radio is found by its place in a list which grows
while threads fill it, and which is cut when they have ended, so `DirInv` follows where each radio comes from:
the places of the list beyond those kept from the first file are those of the sections read so far, each thread has the
place and the station of its section, the address it is at leads to the stream of that station (`Leads`), and the
radios kept from the files before come from stations in increasing order and miss none which is reliable. `PlacesFollow`
and `CompactStep` show that cutting the list keeps this order; `FetchStep` that a thread puts a stream only at its own place. `RadiosListed`
is `RadiosServed`. The hypotheses are about data: `ConfsAsMeant`, the stations of a configuration
are the sections that the parser finds (what a parser computes for every file needs
induction over data), and `LeadsAsMeant`, one request at an address leads nowhere or to where the rest
of the way is the same, and does lead on from a reliable one. `MCRadio` evaluates them as `ASSUME`s. The m3u
decoder joins each line which is not `#EXTM3U` to the base url and the first one is followed: a
line of text becomes an address, and the second hypothesis says that nothing is there (`NotThere`). In a web
where something is, the radio would be listed with it (section 6).

The radio-browser. `PlacesTell`: the plugin keeps nothing, so that the invariant `RbInv` is about the
identifiers in the control point's hands: the path of each entry tells exactly the pairs of a criterion and a
value chosen on the way to it. The lemmas say what the parser finds in a path of odd and of even
length, and in one with a step more. `ChosenStations` is `StationsAsChosen`. The assumption `PlainNames` is
about the directory: the path is not quoted, and a value such as "pop/radios" would list the
radios of the tag "pop" (`MCRadio` has a value with a slash which satisfies it).

The BBC. `FoundInvariant`: `BbcInv` says that at each point of `_fetchdetails` the data are those of the
ended threads among the first `started` keys (`Found`), that the loop ends with all keys or with as many
programmes as may be shown (`Enough`), and that all threads have ended when the list is made.
`FirstProgrammes`: the data may have holes and extra programmes of a last batch; `FoundIsEnough`
shows that this does not matter, by counting places: the places of keys not asked for come after those of
all keys asked for (`AskedPlaces`, `AskedNext`), so the first `reqcount` of the found ones are the first
`reqcount` of all. The hypothesis `PagesOfProgrammes` says that a page is a list of programmes and the limit a number.
`MCRadio` evaluates `PlainNames` and `PagesOfProgrammes` as `ASSUME`s too.

**Only model-checked**: the liveness properties (`EveryCallReturns`,
`SavedInTheEnd`, `UpdatesEnd`, `BrowseAnswered`, `RootOpens`, `LoadEnds`), which need fairness and
ENABLED. `FoldersLeadToTracks`, `PlaylistsAgree`, `AlbumsShareTracks`, `SelectionReached` and
`SearchAnswered`: trees, tables and queries are built by folds over the whole input, with operators as
parameters; an induction like that of `LinesRoundTrip` would have to be made for each of them.

## 6. Where the code and its words disagree

`radio_untyped` is a run of PROJECT.json with its quote. The others are stated in their modules from
the words of the source; those with a configuration can be run by hand with it, and TLC finds the
counterexample (`OHPlaylistDoubts` has five of them, to be uncommented one at a time).

| Property | Configuration | What happens |
|---|---|---|
| `UntypedIsDirect` | RadioUntyped (a run) | `StreamDecoder.py:139-140` "Couldn't read content-type. Maybe direct stream...": `metadata["content-type"]` is None and does not raise, the first decoder raises instead, the radio is lost |
| `NoStreamWhileStopped` | - | `ohradio.cxx:309` "Don't do this while stopped": a script which was running when the radio was deactivated appends its stream to the playlist |
| `PublishedAfterSwitch` | OHPlaylistDoubts | `ohplaylist.cxx:336-339`: the event of the restored queue, handled before `m_active` is set, publishes the state saved at deactivation and nothing follows |
| `PublishedAfterPause` | OHPlaylistDoubts | `ohplaylist.cxx:193-197` "On the next event, with no title change, we will emit the real idarray": when the title changes and MPD is paused in one batch of events, the empty array is sent, `pollerCtl` (`mpdcli.cxx:178-197`) stops the poller, and no event follows |
| `TitlesSavedInTheEnd` | MetaCache, in the place of `SavedInTheEnd` | `ohplaylist.cxx:260-268` "the new map differs, save it": a title which changes without the queue (187-197) goes to the cache and not to the file, until something else changes |
| - | SourceSwitch, with `ExternalVolume = TRUE` and `FullScaleOnlyWhileSending` without its first premise | the 100 which `SenderReceiver::start` forces (`ohsndrcv.cxx:216-224`) is not undone, as `restoreState` leaves the volume to the scripts (`mpdcli.cxx:598-600`) |
| `TracksInTheirTopDir` | Uprcl, with this invariant | `uprclfolders.py:215-218` "We look with what topdir path this doc belongs to": by `startswith` (224-229, 249), so that what is below /m2 is listed below /m, and one of two files of the same path below the two is hidden |
| `BooleansForwarded` | Uprcl, with this invariant | `uprclsearch.py:192-193` "forwarding the booleans and parentheses": a class becomes a `mime:` clause, which Recoll takes for a filter of the whole query (167-170), also when it is one alternative of an `or` |
| `InsertAtStart` | - | `ohplaylist.cxx:709` "Set the AfterId argument to 0 to insert a track at the start": fails if the service has to be activated first |
| `RememberedPlace` | - | `mpdcli.hxx:189` "the queue did not change": the version is read after the insertion and may include another client's change |
| `Persistent` | - | `ohmetacache.cxx:195`: a line longer than the buffer ends the restoration |
| `RadioFlagSet` | SourceSwitch, with this invariant | `upmpd.hxx:165` "called by ohproduct when setting the source": not for the radio through Songcast, `ohproduct.cxx:337` |
| `MetaOfControlPointKept` | OHPlaylistDoubts | `ohplaylist.cxx:250` "probably added by another MPD client": an event between caching and inserting (775-777) drops the metadata of the inserted track |
| `UnknownAfterIdRefused` | - | `ohplaylist.cxx:711` "Reports a 800 fault code": `insertAfterId` appends (`mpdcli.cxx:1028`) |
| `TokenOfArray` | OHPlaylistDoubts | the token of IdArray is read after the array (`ohplaylist.cxx:841`) |
| `ChangedAnswer` | - | `ohplaylist.cxx:911` "Bool indicating if array changed": it is 1 when it did not |
| `DeletedCurrentStops` | OHPlaylistDoubts | `ohplaylist.cxx:806` "better to stop in this case": the current song is the one of the last event |
| `WaitIdleReturns` | WorkQueueLow | `workqueue.h:164`: with `lo` = 2 and one task, waitIdle never returns (no caller uses `lo` > 1) |
| `StartState` | - | `workqueue.h:238` "Reset to start state": a late client decrements a counter which was reset (without a serious effect) |
| `NeverMixed` | - | `uprclinit.py:252-266`: the flag is tested before the thread which sets it is started, so that two updates run, and the second replaces trees under a request |
| `EmptyDirsSkipped` | - | `uprclfolders.py:535` "Skip empty directories": one which has only empty directories is listed |

Other places where the models follow the code and a reader may expect something else:

* the entries of a playlist which are urls have no metadata, and neither has the first radio of the
  playlists section (`uprclplaylists.py:155` tests `idx1 > 0`); `PlaylistIdsResolve` and
  `FolderIdsResolve` leave both out;
* the loops of `subsonic_util.py` and `subsonic_init.py` go on while the last answer was full or empty:
  they do not end when a list is empty or its length a multiple of the answer's size;
* the last page of the albums of an artist shows as many as the remainder of their number (`subsonic-app.py:862`):
  none, if it is a multiple of the size of a page and there are more pages; `PagesCoverList` leaves it out;
* `uprcltags.py:164-166` makes an SQL statement with OFFSET and without LIMIT when the count is zero;
* the docstring of `uprclsearch.py` (16-17) says that the translation is not exact. `SearchAnswered` compares
  meaning and result only for criteria without `exists`, without `and` beside `or` outside of parentheses
  (262-268) and without a class among alternatives (`Translated`); what the others find is
  modelled and not judged. Classes are compared by their beginning, as in the code, and stand for the
  types of files which the constants `ContainerClasses` and `ItemClasses` give;
* the albums of an artist in a genre are those whose artist has the name of the first in his own
  (`subsonic_util.py:160`), so that other artists' albums may be among them;
* a line of text in an m3u is an address (`M3uPlaylistDecoder.py:73-78`): a radio whose list has one before the
  stream is lost, or listed with what the address leads to;
* `RootOpens` speaks of the root alone: with a token file of Spotify which was torn, all below it stays
  closed until the user authorizes the plugin again;
* the radio-browser keeps no names of countries until the process ends when `countries()` fails
  once (`radio-browser-app.py:43`), and shows no country by name meanwhile; `StationsAsChosen` is right of both;
* the root of the Tidal plugin raises, since `tidal-app.py` does not give `XbmcPlugin` its routes; Qobuz
  does not open once it has an application secret; a plugin process which has exited by itself is not started
  again (`cmdtalk.cpp:181-195`): `RootOpens` leaves the three out.

## 7. What is not modelled

In the modelled parts: the MPD connection is reliable in OHPlaylist (a command is
executed once, the idle connection is not lost) and MPD does not restart; standby,
source names and the Source XML; put with `waitminsz`, which nobody calls; cut lines of a
failed write are taken as absent, as `getline` treats them; clients which end and start
a WorkQueue concurrently.

In the Python plugins: art and its files (`folderart`, `embedded_open`), the serving of files by
`uprclhttp.py`, the minim configuration and the fixing of tag values, formats of tracks, the sorting of
the streaming services' search results, the parts of the API libraries which no plugin
calls (most of `spotipy/client.py`), the slices of the content cache, Windows code of
`rdpl2stream`. Two copies of `bottle.py` are a vendored web framework.

PROJECT.json gives for each remaining component the reason: no state or no
concurrency (OHInfo, OHTime, connection manager, credentials, utilities, start-up, media
server dispatch), foreign libraries (libspotify), not part of the renderer (tools, web pages
and packaging), or named below.

## 8. The plan

Done, in the order of importance: who owns MPD (SourceSwitch), what the playlist shows
(OHPlaylist), the queue and what depends on it (WorkQueue, MetaCache, MetaCodec); the Uprcl
server and its trees; the other plugins. Not done yet, and worth doing:

1. **IdleLoop** (`mpdcli.cxx:138-308`, destructor): start, stop, takeEvents and the
   poller against the loop. An abstract "stop returns, and no callback comes
   after it" with the loop as its implementation; the window before `run_idle`, the
   destructor which joins under `m_mutex`, reconnection without an event.
2. **Volume** (`mpdcli.cxx:714-779`, `upmpd.cxx`, `ohvolume.cxx`, `renderctl.cxx`): two control
   points, mute and volume in any order, the mixer changed by another client.
3. **Transport** (`avtransport.cxx`): current and next uri against MPD going on by
   itself, and the owned queue of at most two songs.
4. **BufXChange** and the streaming proxy: the exchange of buffers with timeouts and
   reset, implementing an abstract byte stream; it shares its idea with TaskQueue.
5. **Receivers** (`ohreceiver.cxx`, `ohradio.cxx`): processes started on the SOAP
   thread and stopped by the event thread.
6. Proofs: the trees of Uprcl (`FoldersLeadToTracks` first), by induction over the places of the input.
