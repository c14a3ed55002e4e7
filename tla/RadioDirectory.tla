---- MODULE RadioDirectory ----
(***************************************************************************)
(* The plugin of the configured radios (upradios-app.py, with              *)
(* upradioconf.py): when it starts it reads the radios of the main         *)
(* configuration, then those of the list which comes with the program, and *)
(* looks for the stream of each in a thread which runs fetchStream.py, a   *)
(* few at a time; then it answers.  The Media Server kills the process     *)
(* when its first answer is late (cmdtalk.cpp), and starts another one for *)
(* the next request.                                                       *)
(***************************************************************************)
EXTENDS ConfTree, RadioPlaylists, Places

CONSTANTS Confs,      \* the configurations, a sequence: "lines", those of the main file and of the list; "stations", what
                      \* was meant by who wrote them; "ends", whether all that they lead to ends
          IntOf,      \* int(), for the words which are numbers
          Flaky,      \* the addresses which stop answering at times
          Meant,      \* for the address of a radio, its stream as a reader of the documents finds it
          Reliable,   \* the addresses which always answer, and lead to a stream by working formats
          MaxKills    \* bound: the processes killed before they answer

VARIABLES files, down,
          kills,
          pc,         \* "off": the plugin is not enabled; "keys": at a section of a file; "join", "final": waiting for the threads;
                      \* "serving"
          conf,       \* the file at hand, as read
          maxthreads, \* _maxthreads
          at,         \* the file and the section
          radios,     \* _radios
          threads,    \* the threads of the file at hand: place in the list, radio, what it does
          cntt,
          answer      \* what a control point was last answered
dirvars == <<files, down, kills, pc, conf, maxthreads, at, radios, threads, cntt, answer>>

NoRadio == [title |-> <<>>, stream |-> NoUrl, uri |-> NoUrl]
Root == <<"0$upradios$">>
NoListing == [asked |-> <<>>, flag |-> "none", entries |-> <<>>]

\* The main file is read without regard to the case of names, the list with it.
Parsed == [n \in DOMAIN Confs |-> [f \in 1..2 |-> ConfSimple(Confs[n].lines[f], f = 2)]]
Opened(f) == Parsed[files][f]
Sections == getSubKeys_unsorted(conf)

\* _readRadios(): the number of threads, 5 when the file does not say.
MaxThreads(upconfig) ==
  LET v == get(upconfig, <<"upradiosmaxthreads">>, Top)
  IN  IF v \in {NoValue, <<>>} THEN 5 ELSE IntOf[v[1]]

Begun == /\ pc = "keys" /\ at = [file |-> 1, key |-> 1]
         /\ conf = Opened(1) /\ maxthreads = MaxThreads(conf)
         /\ radios = <<>> /\ threads = <<>> /\ cntt = 0
         /\ answer = NoListing
DirInit == files \in DOMAIN Confs /\ down = {} /\ kills = 0 /\ Begun
DirOff == /\ files = 1 /\ down = {} /\ kills = 0 /\ pc = "off" /\ conf = Opened(1) /\ maxthreads = 5
          /\ at = [file |-> 1, key |-> 1] /\ radios = <<>> /\ threads = <<>> /\ cntt = 0 /\ answer = NoListing

\* The thread of a section, with its own place in the list.
NewThread(title, uri) ==
  [idx |-> Len(radios) + 1, title |-> title, uri |-> uri,
   info |-> UrlInfo("begin", uri, "none"), doing |-> "info"]

\* A section is that of a radio when its name begins with "radio".
IsRadio(k) == k # <<>> /\ Head(k) = "radio"

\* A section which is not a radio is passed over; for a radio, a place is made and a thread started.
\* Without a "url" the arguments of fetchStream.py are no strings and the thread only logs it.
ReadKey ==
  /\ pc = "keys" /\ at.key <= Len(Sections)
  /\ at' = [at EXCEPT !.key = @ + 1]
  /\ LET k == Sections[at.key]
         uri == get(conf, <<"url">>, k)
     IN  IF ~IsRadio(k)
         THEN UNCHANGED <<pc, radios, threads, cntt>>
         ELSE /\ radios' = Append(radios, NoRadio)
              /\ threads' = Append(threads, IF uri = NoValue THEN [NewThread(Tail(k), NoUrl) EXCEPT !.doing = "done"]
                                            ELSE NewThread(Tail(k), uri))
              /\ cntt' = cntt + 1
              /\ pc' = IF cntt + 1 >= maxthreads THEN "join" ELSE pc
  /\ UNCHANGED <<files, down, kills, conf, maxthreads, answer>>

\* Mutant: the last threads are not waited for.
JoinedSome == cntt < maxthreads \/ \A i \in DOMAIN threads : threads[i].doing = "done"

\* The join() of every thread of the file.
Joined == \A i \in DOMAIN threads : threads[i].doing = "done"

JoinThreads ==
  /\ pc = "join" /\ Joined
  /\ pc' = "keys" /\ cntt' = 0
  /\ UNCHANGED <<files, down, kills, conf, maxthreads, at, radios, threads, answer>>

ReadLast ==
  /\ pc = "keys" /\ at.key > Len(Sections)
  /\ pc' = "final"
  /\ UNCHANGED <<files, down, kills, conf, maxthreads, at, radios, threads, cntt, answer>>

\* The places without a stream are dropped, and the next file is read.
Compact ==
  /\ pc = "final" /\ Joined
  /\ radios' = AtPlaces(radios, {i \in DOMAIN radios : radios[i] # NoRadio})
  /\ IF at.file = 1 THEN pc' = "keys" /\ at' = [file |-> 2, key |-> 1] /\ conf' = Opened(2)
     ELSE pc' = "serving" /\ UNCHANGED <<at, conf>>
  /\ threads' = <<>> /\ cntt' = 0
  /\ UNCHANGED <<files, down, kills, maxthreads, answer>>

\* A request of fetchStream.py: the type of an address, then the playlist at it.  The first has a
\* time-out; the second has none, and waits as long as the document does not end.  The stream which
\* is found is put at the thread's place: a place which is not there raises, and the radio is lost.
Fetch(i) ==
  /\ threads[i].doing # "done"
  /\ \E t \in {threads[i]} :
       \/ /\ t.doing = "info"
          /\ \E info \in {getMediaStreamInfo(t.info.url, down)} :
               /\ threads' = [threads EXCEPT ![i].info = info,
                                             ![i].doing = IF info.kind = "playlist" THEN "extract" ELSE "done"]
               /\ radios' = IF info.kind = "stream" /\ t.idx \in DOMAIN radios
                            THEN [radios EXCEPT ![t.idx] = [title |-> t.title, stream |-> info.url, uri |-> t.uri]]
                            ELSE radios
       \/ /\ t.doing = "extract"
          /\ Web[t.info.url].ends \/ t.info.url \in down
          /\ \E next \in {NextUrl(t.info, down)} :
               threads' = IF next = NoUrl THEN [threads EXCEPT ![i].doing = "done"]
                          ELSE [threads EXCEPT ![i].info.url = next, ![i].doing = "info"]
          /\ UNCHANGED radios
  /\ UNCHANGED <<files, down, kills, pc, conf, maxthreads, at, cntt, answer>>

\* radioToEntry(): an identifier is that of the list, and the place of the radio in it.
Entry(objid, i, r) == [id |-> Append(objid, i), title |-> r.title, uri |-> r.stream, from |-> r.uri]

\* browse(): the children, of any identifier, are the radios.
BrowseChildren(objid) ==
  /\ pc = "serving"
  /\ answer' = [asked |-> objid, flag |-> "children", entries |-> [i \in DOMAIN radios |-> Entry(objid, i, radios[i])]]
  /\ UNCHANGED <<files, down, kills, pc, conf, maxthreads, at, radios, threads, cntt>>

\* The metadata of a radio; nothing for the root or for a place beyond the list.
BrowseMeta(objid) ==
  /\ pc = "serving"
  /\ answer' = [asked |-> objid, flag |-> "meta",
                entries |-> IF Len(objid) = 2 /\ objid[2] \in DOMAIN radios THEN <<Entry(Root, objid[2], radios[objid[2]])>> ELSE <<>>]
  /\ UNCHANGED <<files, down, kills, pc, conf, maxthreads, at, radios, threads, cntt>>

\* CmdTalk: the first request is not answered in time.
Killed ==
  /\ pc \notin {"off", "serving"} /\ kills < MaxKills
  /\ kills' = kills + 1
  /\ pc' = "keys" /\ at' = [file |-> 1, key |-> 1] /\ conf' = Opened(1)
  /\ radios' = <<>> /\ threads' = <<>> /\ cntt' = 0 /\ answer' = NoListing
  /\ UNCHANGED <<files, down, maxthreads>>

\* The environment: an address stops answering, or answers again.
Flicker(u) ==
  /\ pc # "off"
  /\ down' = IF u \in down THEN down \ {u} ELSE down \cup {u}
  /\ UNCHANGED <<files, kills, pc, conf, maxthreads, at, radios, threads, cntt, answer>>

Load == ReadKey \/ JoinThreads \/ ReadLast \/ Compact
DirNext == \/ Load
           \/ \E i \in DOMAIN threads : Fetch(i)
           \/ \E id \in {Root} \cup {Append(Root, i) : i \in 1..(Len(radios) + 1)} : BrowseChildren(id) \/ BrowseMeta(id)
           \/ Killed
           \/ \E u \in Flaky : Flicker(u)
DirSpec == (DirInit \/ DirOff) /\ [][DirNext]_dirvars
\* The loading goes on, and so do the threads together.
DirFairness == WF_dirvars(Load) /\ WF_dirvars(\E i \in DOMAIN threads : Fetch(i))

-----------------------------------------------------------------------------
\* The stations which were meant are those which the parser finds, in both files: for each section of a
\* radio its title and its address, or none.
StationsOf(c) ==
  LET keys == getSubKeys_unsorted(c)
      sections == AtPlaces(keys, {i \in DOMAIN keys : IsRadio(keys[i])})
      url(k) == IF get(c, <<"url">>, k) = NoValue THEN NoUrl ELSE get(c, <<"url">>, k)
  IN  [i \in DOMAIN sections |-> <<Tail(sections[i]), url(sections[i])>>]
ConfsAsMeant ==
  \A n \in DOMAIN Confs :
    /\ \A f \in 1..2 : getSubKeys_unsorted(Parsed[n][f]) \in Seq(Seq(STRING))
    /\ Confs[n].stations = StationsOf(Parsed[n][1]) \o StationsOf(Parsed[n][2])
    /\ \A i \in DOMAIN Confs[n].stations : Confs[n].stations[i][2] \in DOMAIN Meant \cup {NoUrl}

\* Each request of fetchStream.py leads on to the stream which was meant, or nowhere (the address of a
\* line of text among the first is one which is not there), whichever of the flaky addresses do not
\* answer; and a reliable address leads to a stream or to a reliable address.
NotThere(u) == Head(u) = "http" /\ u \notin DOMAIN Web
MeantFrom(u) == IF u \in DOMAIN Meant THEN Meant[u] ELSE u
LeadsAsMeant ==
  \A u \in DOMAIN Web \cup DOMAIN Meant \cup Reliable, down1, down2 \in SUBSET Flaky :
    LET info == getMediaStreamInfo(u, down1)
        next == NextUrl(info, down2)
    IN  /\ info.kind = "stream" => info.url = MeantFrom(u)
        /\ info.kind = "playlist" => next = NoUrl \/ NotThere(next) \/ MeantFrom(next) = MeantFrom(u)
        /\ u \in Reliable => info.kind = "stream" \/ (info.kind = "playlist" /\ next \in Reliable \ {NoUrl})

\* What is listed follows the configuration: the radios are some of those which were meant, in their
\* order, each with its own title, address and stream, whatever the order in which the threads ended;
\* and a radio which leads to a stream by working formats and answered all along is among them
\* (upradioconf.py: the places given to the threads, their removal; conftree.py and rdpl2stream).
RadiosServed ==
  answer.flag = "children" =>
    LET meant == Confs[files].stations
    IN  \E S \in SUBSET DOMAIN meant :
          LET listed == AtPlaces(meant, S)
          IN  /\ Len(listed) = Len(answer.entries)
              /\ \A i \in DOMAIN listed :
                   LET e == answer.entries[i]
                   IN  <<e.title, e.from>> = listed[i] /\ e.uri = Meant[e.from]
              /\ \A j \in DOMAIN meant : meant[j][2] \in Reliable => j \in S

\* The plugin comes to answer: the threads which are waited for all end, when no playlist leads back to
\* itself and every document ends (fetchStream.py has no limit of its own, upradioconf.py waits for it).
LoadEnds == (pc # "off" /\ Confs[files].ends) ~> (pc = "serving")
====
