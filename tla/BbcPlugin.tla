----------------------------- MODULE BbcPlugin ------------------------------
(***************************************************************************)
(* The BBC plugin (bbc-app.py): stations, their days and podcasts.  The    *)
(* programmes of a day or a podcast are asked for one by one, by threads   *)
(* which leave what they find in one dictionary; which of them can be      *)
(* streamed is only known then.                                            *)
(***************************************************************************)
EXTENDS PluginRouting, Places

CONSTANTS stations,
          Days,         \* the last _g_fetchdays days: year, month, day
          hasfeedparser,
          Podcasts,     \* podcasts.json: the ids which have an image
          Programmes,   \* for the place of a day or of a podcast its programmes, or NoPid
          Versions,     \* for a programme, what the service has for each version
          Unsteady,     \* the programmes for which an answer may come too late
          _nthreads, reqcount

VARIABLES asked,        \* the place, or <<"off">>
          late,         \* the programmes whose answer comes too late this time
          doing,        \* of the main loop: "wait", "start", "batch", "count", "join", "list"
          started,      \* the number of keys for which a thread was started
          thrcount, nthreads,
          running,      \* the programmes whose thread runs
          resdata,      \* the programmes which have data
          entries       \* the answer: [path, programme, trackno]
bbcvars == <<asked, late, doing, started, thrcount, nthreads, running, resdata, entries>>

NoPid == "no pid"

\* The page of a day or a podcast is a list of programmes.
PagesOfProgrammes ==
  /\ reqcount \in Nat
  /\ \A place \in DOMAIN Programmes : Programmes[place] \in Seq(DOMAIN Versions \cup {NoPid})

BbcRoutes ==
  << Route("root", <<>>), Route("root_stations", <<"root_stations">>), Route("station_view", <<"station", Arg>>),
     Route("station_date_view", <<"station", Arg, Arg, Arg, Arg>>),
     Route("root_podcasts", <<"root_podcasts">>), Route("podcast_view", <<"podcast", Arg>>) >>

\* The views without programmes.
root == Directories(BbcRoutes, IF hasfeedparser THEN <<"root_stations", "root_podcasts">> ELSE <<"root_stations">>)
root_stations == View(BbcRoutes, "station_view", stations)
station_view(id) ==
  [i \in DOMAIN Days |-> add_directory(BbcRoutes, "station_date_view", <<id, <<Days[i][1]>>, <<Days[i][2]>>, <<Days[i][3]>> >>)]
root_podcasts == [i \in DOMAIN Podcasts |-> add_directory(BbcRoutes, "podcast_view", <<Podcasts[i]>>)]
Listing(to) ==
  CASE to.view = "root" -> root
    [] to.view = "root_stations" -> root_stations
    [] to.view = "station_view" -> station_view(to.args[1])
    [] to.view = "root_podcasts" -> root_podcasts

\* resdata.keys(): each programme once, in the order of the page.
Page == AtPlaces(Programmes[asked], {i \in DOMAIN Programmes[asked] : Programmes[asked][i] # NoPid})
FirstPlaces == {i \in DOMAIN Page : \A j \in 1..i - 1 : Page[j] # Page[i]}
Keys == AtPlaces(Page, FirstPlaces)

\* _programmedetails(): the first version which has media decides.  When it has no audio the thread
\* ends with an IndexError, after a late answer with an UnboundLocalError.
Streamed(p) ==
  /\ p \notin late
  /\ \E i \in DOMAIN Versions[p] : Versions[p][i] = "audio" /\ \A j \in 1..i - 1 : Versions[p][j] = "no media"

BbcInit ==
  /\ asked = <<>> /\ late = {} /\ doing = "wait" /\ started = 0 /\ thrcount = 0 /\ nthreads = _nthreads
  /\ running = {} /\ resdata = {} /\ entries = <<>>
BbcOff ==
  /\ asked = <<"off">> /\ late = {} /\ doing = "wait" /\ started = 0 /\ thrcount = 0 /\ nthreads = _nthreads
  /\ running = {} /\ resdata = {} /\ entries = <<>>

\* browse() of what an answer showed, or of the root.  No route for the place is an error, and a day
\* whose page is not there or cannot be read has no entries.
Directory(place, to) ==
  /\ to.view \notin {"station_date_view", "podcast_view", "none"}
  /\ entries' = Listing(to) /\ doing' = "wait"
  /\ UNCHANGED <<late, started, thrcount, nthreads, running, resdata>>
FetchDetails(place, to) ==
  /\ to.view \in {"station_date_view", "podcast_view"}
  /\ \/ /\ place \in DOMAIN Programmes
        /\ doing' = "start" /\ late' \in SUBSET Unsteady
        /\ started' = 0 /\ thrcount' = 0 /\ nthreads' = _nthreads /\ running' = {} /\ resdata' = {} /\ entries' = <<>>
     \/ /\ doing' = "wait" /\ entries' = <<>>
        /\ UNCHANGED <<late, started, thrcount, nthreads, running, resdata>>
browse ==
  /\ doing = "wait" /\ asked # <<"off">>
  /\ \E place \in {<<>>} \cup {entries[i].path : i \in {j \in DOMAIN entries : entries[j].kind = "ct"}} :
       LET to == _dispatch(BbcRoutes, place)
       IN  asked' = place /\ (Directory(place, to) \/ FetchDetails(place, to))

-----------------------------------------------------------------------------
(* _fetchdetails()                                                                    *)

StartThread ==
  /\ doing = "start"
  /\ IF started = Len(Keys) THEN doing' = "join" /\ UNCHANGED <<started, thrcount, running>>
     ELSE /\ started' = started + 1
          /\ running' = running \cup {Keys[started']}
          /\ thrcount' = thrcount + 1
          /\ doing' = IF thrcount' = nthreads THEN "batch" ELSE "count"
  /\ UNCHANGED <<asked, late, nthreads, resdata, entries>>

AllJoined == running = {}
JoinBatch ==
  /\ doing = "batch" /\ AllJoined
  /\ thrcount' = 0 /\ doing' = "count"
  /\ UNCHANGED <<asked, late, started, nthreads, running, resdata, entries>>

\* Mutant: every programme which was asked for counts.
datacountStarted == started
datacount == Cardinality(resdata)
Count ==
  /\ doing = "count"
  /\ nthreads' = IF nthreads > reqcount - datacount THEN reqcount - datacount ELSE nthreads
  /\ doing' = IF datacount >= reqcount THEN "join" ELSE "start"
  /\ UNCHANGED <<asked, late, started, thrcount, running, resdata, entries>>

LastJoin ==
  /\ doing = "join" /\ AllJoined
  /\ doing' = "list"
  /\ UNCHANGED <<asked, late, started, thrcount, nthreads, running, resdata, entries>>

ThreadEnds(p) ==
  /\ p \in running
  /\ running' = running \ {p}
  /\ resdata' = IF Streamed(p) THEN resdata \cup {p} ELSE resdata
  /\ UNCHANGED <<asked, late, doing, started, thrcount, nthreads, entries>>

\* The end of station_date_view() and podcast_view(): the programmes which have data, in the order of
\* the page.
Prefix(list) == SubSeq(list, 1, IF Len(list) > reqcount THEN reqcount ELSE Len(list))
List ==
  /\ doing = "list"
  /\ doing' = "wait"
  /\ \E found \in {Prefix(AtPlaces(Page, {i \in DOMAIN Page : Page[i] \in resdata}))} :
       entries' = [i \in DOMAIN found |-> [kind |-> "it", path |-> Append(asked, found[i]),
                                           programme |-> found[i], trackno |-> i]]
  /\ UNCHANGED <<asked, late, started, thrcount, nthreads, running, resdata>>

BbcNext ==
  \/ browse \/ StartThread \/ JoinBatch \/ Count \/ LastJoin \/ List
  \/ \E p \in DOMAIN Versions : ThreadEnds(p)
BbcSpec == (BbcInit \/ BbcOff) /\ [][BbcNext]_bbcvars

-----------------------------------------------------------------------------
\* A day or a podcast shows the first programmes which can be streamed, in the order of the page and
\* as many as may be shown, whichever thread ends first and whatever cannot be streamed
\* (bbc-app.py:266-286, 350-400).
ProgrammesInOrder ==
  doing = "wait" /\ entries # <<>> /\ (\A i \in DOMAIN entries : entries[i].kind = "it") =>
    [i \in DOMAIN entries |-> entries[i].programme]
      = Prefix(AtPlaces(Page, {i \in DOMAIN Page : Streamed(Page[i])}))
=============================================================================
