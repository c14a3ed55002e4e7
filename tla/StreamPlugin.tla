---- MODULE StreamPlugin ----
(***************************************************************************)
(* A streaming service plugin at work: the Media Server side               *)
(* (plgwithslave.cxx, cmdtalk.cpp) starts the Python process, sends it one *)
(* command at a time over a pipe and keeps the listings for a while; the   *)
(* process (cmdtalk.py, cmdtalkplugin.py and the app of the service) logs  *)
(* in when it must, finds the view of the place and answers with entries,  *)
(* or with a status when the handler raises.  Sessions age, requests to    *)
(* the service stay unanswered, the process is killed when its answer is   *)
(* late or is not an answer, and does not come back once it has exited.    *)
(***************************************************************************)
EXTENDS QobuzPlugin, TidalPlugin, HraPlugin, DeezerPlugin, SpotifyPlugin

CONSTANTS Services,    \* the services to look at
          Configured,  \* the user in the configuration
          CredsUsers,  \* the users which OpenHome Credentials may have left in shared memory, or nobody
          Accounts,    \* for each service, what it may say of a user: "full", "free", "anonymous", "refused"
          Nets,        \* the numbers of requests which may be answered during a command
          SearchKinds, \* the kinds of object which are searched for
          Bookmarks,   \* for each service, the places that control points have kept
          Kept,        \* the places whose listing stays in the cache (the others are as if expired)
          Exits        \* whether the process may exit by itself

ASSUME ServicesAssumption == Services \subseteq {"qobuz", "tidal", "hra", "deezer", "spotify"}
ASSUME NetsAssumption == Nets \subseteq Nat /\ \E n \in Nets : \A m \in Nets : m <= n
ASSUME BookmarksAssumption == \A s \in Services : Bookmarks[s] \subseteq Seq(STRING)

VARIABLES service, creds,
          appid,       \* for Qobuz: "configured", or "spoofed" from the web player, with a
                       \* secret which is "accepted" or with none that is
          proc,        \* "none": not started, or killed; "up"; "exited"
          session,     \* what the process knows of its login
          file,        \* the token file of Deezer (whose token it is) or of Spotify
          cache,       \* bcache: the listing which the Media Server has kept
          answer,      \* the last answer, with what was asked and the session which served it
          good         \* from here on the service answers everything, in time
vars == <<service, appid, creds, proc, session, file, cache, answer, good>>

Routes == CASE service = "qobuz" -> QobuzRoutes [] service = "tidal" -> TidalRoutes
            [] service = "hra" -> HraRoutes [] service = "deezer" -> DeezerRoutes
            [] service = "spotify" -> SpotifyRoutes

LoggedOut == [on |-> FALSE, api |-> FALSE, s4 |-> FALSE, age |-> "fresh", user |-> "nobody", token |-> "nobody"]
NoCache == [place |-> <<"nowhere">>, entries |-> <<>>, as |-> LoggedOut]
NoAnswer == [asked |-> "nothing", place |-> <<>>, kind |-> "none", entries |-> <<>>, as |-> LoggedOut]
Most == CHOOSE n \in Nets : \A m \in Nets : m <= n

\* maybelogin() of each of the apps, as "user".  Tidal and Spotify leave the requests as they
\* are, Qobuz takes one for its login.
LoginAs(s, f, user, net, account) ==
  LET left == IF net > 0 THEN net - 1 ELSE 0
      Result(r, fl, n, raised) == [session |-> r, file |-> fl, net |-> n, raised |-> raised]
  IN  CASE service = "qobuz" ->
             LET r == QobuzLogin(s, user, net, account, appid)
             IN  Result(r.session, f, IF s.on THEN net ELSE left, r.raised)
        [] service = "tidal" -> LET r == TidalLogin(s, user, net, account)
                                IN  Result(r.session, f, IF s.on THEN net ELSE left, r.raised)
        [] service = "hra" -> LET r == HraLogin(s, user, net, account) IN Result(r.session, f, r.net, FALSE)
        [] service = "deezer" -> DeezerLogin(s, user, net, account, f)
        [] service = "spotify" -> Result(SpotifyLogin(s, user), f, net, FALSE)

\* PlgWithSlave::Internal::maybeStartCmd(): a new process begins with the credentials of the
\* shared memory, when its app has a login command; whether that works is not looked at.
Started(net, account) ==
  IF proc = "up" THEN [session |-> session, file |-> file, net |-> net]
  ELSE IF creds = "nobody" \/ service \notin {"qobuz", "tidal"}
       THEN [session |-> LoggedOut, file |-> file, net |-> net]
       ELSE LET r == LoginAs(LoggedOut, file, creds, net, account)
            IN  [session |-> r.session, file |-> r.file, net |-> r.net]

\* The login with which every command begins.
Ready(net, account) ==
  LET st == Started(net, account)
  IN  LoginAs(st.session, st.file, Configured, st.net, account)

\* root() of HRA and of Deezer asks for the login once more.
Again(place, r, account) ==
  IF r.raised \/ service \notin {"hra", "deezer"} \/ _dispatch(Routes, place).view # "root" THEN r
  ELSE LoginAs(r.session, r.file, Configured, r.net, account)

\* The first request of a Spotify command reads the token file, and may write it.
Auth(r, account, requests) ==
  IF requests = 0 THEN [file |-> r.file, net |-> r.net, token |-> TRUE] ELSE get_cached_token(r.file, r.net, account)

\* What becomes of a browse of the children of a place.
Browsed(place, r, account) ==
  LET to == _dispatch(Routes, place)
      v == to.view
      on == r.session.on
      who == r.session.user
      auth == Auth(r, account, IF v = "none" \/ service # "spotify" THEN 0 ELSE SpotifyRequests(v))
      raises == \/ r.raised \/ v = "none"
                \/ service = "qobuz" /\ QobuzRaises(v, who, r.net)
                \/ service = "tidal" /\ TidalRaises(v, to.args, who, r.net)
                \/ service = "hra" /\ HraRaises(v, on, r.net)
                \/ service = "deezer" /\ DeezerRaises(v, on, who, r.net)
                \/ service = "spotify" /\ SpotifyRaises(SpotifyRequests(v), auth)
      entries == CASE service = "qobuz" -> IF QobuzEmpty(v, who) THEN <<>> ELSE QobuzBrowse(v, to.args, r.net)
                   [] service = "tidal" -> TidalBrowse(v, to.args, IF who = "nobody" THEN "US" ELSE "local")
                   [] service = "hra" -> HraBrowse(v, to.args, on, r.net)
                   [] service = "deezer" -> DeezerBrowse(v, to.args, on)
                   [] service = "spotify" -> SpotifyBrowse(v)
  IN  [raised |-> raises, entries |-> IF raises THEN <<>> ELSE entries, file |-> auth.file]

\* What becomes of a search from a place.
Searched(place, kind, r, account) ==
  LET on == r.session.on
      auth == Auth(r, account, IF service = "spotify" THEN SpotifySearchRequests(kind) ELSE 0)
      raises == \/ r.raised
                \/ service = "tidal" /\ TidalSearchRaises(kind, r.net)
                \/ service = "deezer" /\ DeezerSearchRaises(kind, on, r.net)
                \/ service = "spotify" /\ SpotifyRaises(SpotifySearchRequests(kind), auth)
      entries == CASE service = "qobuz" -> QobuzSearch(kind, r.net)
                   [] service = "tidal" -> TidalSearch(kind)
                   [] service = "hra" -> HraSearch(place, r.net)
                   [] service = "deezer" -> DeezerSearch(kind)
                   [] service = "spotify" -> SpotifySearch(kind)
  IN  [raised |-> raises, entries |-> IF raises THEN <<>> ELSE entries, file |-> auth.file]

\* CmdTalk.processmessage(): the answer of the process, or the status of what its handler
\* raised, which the Media Server shows as an entry of its own (errorEntries()).
Answer(asked, place, r, result) ==
  /\ proc' = "up" /\ session' = r.session /\ file' = result.file
  /\ answer' = [asked |-> asked, place |-> place, as |-> r.session, entries |-> result.entries,
                kind |-> IF result.raised THEN "error" ELSE "entries"]
  /\ UNCHANGED <<service, appid, creds, good>>

\* The circumstances of a command: what the service answers and says of the user.
NetNow == IF good THEN {Most} ELSE Nets
AccountNow == IF good THEN {"full"} ELSE Accounts[service]
Command(Treat(_, _)) ==
  proc # "exited" /\ \E net \in NetNow, account \in AccountNow : Treat(Ready(net, account), account)

\* The places a control point may ask for.
Places == {<<>>} \cup Bookmarks[service] \cup {answer.entries[i].path : i \in
             {j \in 1..Len(answer.entries) : answer.entries[j].kind = "ct"}}
Tracks == {answer.entries[i].path : i \in {j \in 1..Len(answer.entries) : answer.entries[j].kind = "it"}}

\* PlgWithSlave::browse(), once the process is up: from the cache, or from the process, and then kept.
browse(place) ==
  \/ /\ cache.place = place /\ proc # "exited" /\ proc' = "up"
     /\ \E net \in NetNow, account \in AccountNow :
          LET st == Started(net, account) IN session' = st.session /\ file' = st.file
     /\ answer' = [asked |-> "browse", place |-> place, kind |-> "entries", entries |-> cache.entries, as |-> cache.as]
     /\ UNCHANGED <<service, appid, creds, cache, good>>
  \/ /\ cache.place # place
     /\ Command(LAMBDA ready, account :
          LET r == Again(place, ready, account)
              b == Browsed(place, r, account)
          IN  /\ Answer("browse", place, r, b)
              /\ cache' = IF b.raised \/ place \notin Kept THEN cache ELSE [place |-> place, entries |-> b.entries, as |-> r.session])
BrowseRoot == browse(<<>>)
Browse == \E place \in Places \ {<<>>} : browse(place)

\* The metadata of a track, which is not kept.
Meta ==
  /\ UNCHANGED cache
  /\ \E track \in Tracks : Command(LAMBDA r, account :
       LET id == trackid_from_urlpath(track)
           raises == \/ r.raised \/ service = "spotify" \/ (service = "tidal" /\ r.net = 0)
                     \/ (service = "qobuz" /\ QobuzRaises("track", r.session.user, r.net))
                     \/ (service = "hra" /\ HraRaises("track", r.session.on, r.net))
                     \/ (service = "deezer" /\ DeezerRaises("track", r.session.on, r.session.user, r.net))
       IN  Answer("meta", track, r, [raised |-> raises, file |-> r.file,
                                     entries |-> IF raises THEN <<>> ELSE trackentries(<<id>>)]))

Search == \E place \in Places, kind \in SearchKinds : UNCHANGED cache
            /\ Command(LAMBDA r, account : Answer("search", place, r, Searched(place, kind, r, account)))

\* trackuri(): the address of the stream.
Uri(s, early, net) ==
  CASE service = "qobuz" -> QobuzUri(s, net) [] service = "tidal" -> TidalUri(net)
    [] service = "hra" -> HraUri(s.on, early, net) [] service = "deezer" -> DeezerUri(net)
    [] service = "spotify" -> SpotifyUri
Play ==
  /\ UNCHANGED cache
  /\ \E track \in Tracks : Command(LAMBDA r, account :
       LET early == service = "hra" /\ ~(proc = "up" /\ session.api)
           u == Uri(r.session, early, r.net)
           raises == r.raised \/ u.raises
       IN  Answer("trackuri", track, IF early THEN [r EXCEPT !.session = LoggedOut] ELSE r,
                  [raised |-> raises, file |-> r.file,
                   entries |-> IF raises \/ ~u.served THEN <<>> ELSE trackentries(<<trackid_from_urlpath(track)>>)]))

\* CmdTalk::Internal::talk(): no answer in time, or a line which is not one of an answer: the
\* process is killed, and the next command starts another.  A token file which was being
\* written is left half written.
Killed ==
  /\ proc # "exited" /\ ~good /\ proc' = "none"
  /\ session' = LoggedOut
  /\ file' \in IF service = "spotify" /\ file = "expired" THEN {file, "torn"} ELSE {file}
  /\ answer' = [NoAnswer EXCEPT !.kind = "error"]
  /\ UNCHANGED <<service, appid, creds, cache, good>>

\* CmdTalk::Internal::running(): a process which has exited by itself is not started again.
ProcessExits ==
  /\ Exits /\ proc = "up" /\ ~good /\ proc' = "exited" /\ session' = LoggedOut /\ answer' = NoAnswer
  /\ UNCHANGED <<service, appid, creds, file, cache, good>>
AfterExit == /\ proc = "exited" /\ answer' = [NoAnswer EXCEPT !.kind = "error"]
             /\ UNCHANGED <<service, appid, creds, proc, session, file, cache, good>>

\* Time goes by: ContentCache::purge(), the age of the session, the token in the file.
Expire == /\ cache # NoCache /\ cache' = NoCache
          /\ UNCHANGED <<service, appid, creds, proc, session, file, answer, good>>
Older == /\ service = "hra" /\ session.on /\ session.age # "expired"
         /\ session' = [session EXCEPT !.age = IF @ = "fresh" THEN "old" ELSE "expired"]
         /\ UNCHANGED <<service, appid, creds, proc, file, cache, answer, good>>
TokenExpires == /\ service = "spotify" /\ file = "good" /\ file' = "expired"
                /\ UNCHANGED <<service, appid, creds, proc, session, cache, answer, good>>
\* spotiauthinit.py: the user goes through the authorization and installs the token file.
Authorize == /\ service = "spotify" /\ file # "good" /\ file' = "good"
             /\ UNCHANGED <<service, appid, creds, proc, session, cache, answer, good>>
Settle == /\ ~good /\ good' = TRUE
          /\ UNCHANGED <<service, appid, creds, proc, session, file, cache, answer>>

Init ==
  /\ service \in Services /\ creds \in IF service \in {"qobuz", "tidal"} THEN CredsUsers ELSE {"nobody"}
  /\ appid \in IF service = "qobuz" THEN {"configured", "accepted", "spoofed"} ELSE {"none"}
  /\ proc = "none" /\ session = LoggedOut /\ cache = NoCache /\ answer = NoAnswer /\ good = FALSE
  /\ file \in CASE service = "deezer" -> {"nobody"} [] service = "spotify" -> {"none", "good"} [] OTHER -> {"none"}

Next == \/ BrowseRoot \/ Browse \/ Meta \/ Search \/ Play
        \/ Killed \/ ProcessExits \/ AfterExit
        \/ Expire \/ Older \/ TokenExpires \/ Authorize \/ Settle

\* Once the service works the control point asks for the root again and again, and the clock
\* makes listings expire.
Spec == Init /\ [][Next]_vars /\ WF_vars(good /\ BrowseRoot) /\ WF_vars(good /\ Expire)

-----------------------------------------------------------------------------
\* Every entry leads back to what it was made for: the routes find the view and the arguments
\* of a container, its title is that of the same thing, and the address of a track has its
\* identifier (the comment at qobuz-app.py:157 tells of a route which was taken for another).
EntriesLeadBack ==
  \A i \in 1..Len(answer.entries) :
    LET e == answer.entries[i]
    IN  IF e.kind = "it" THEN trackid_from_urlpath(e.path) = e.to.args[1] /\ e.to.args[1] \notin Unavailable
        ELSE /\ _dispatch(Routes, e.path) = e.to
             /\ (e.title = <<>> \/ e.title[1] = e.to.args[1])

\* A session which says that it is logged in is that of one user: what it reads of "me" and
\* the token it sends belong together, whatever went wrong on the way (Session.login()).
SessionHasOneUser == session.on /\ service # "spotify" => session.user \in {session.token, "nobody"}

\* The HRA plugin lists what a login is needed for only with a session which has been renewed
\* in time (HRAAPI.isloggedin()).
ListsWithFreshSession ==
  service = "hra" /\ answer.asked \in {"browse", "trackuri"} /\ answer.entries # <<>>
  /\ (\A e \in ToSet(answer.entries) : e.to.view \notin {"root", "edplaylist_view"})
    => answer.as.on /\ answer.as.age = "fresh" /\ answer.as.user = Configured

\* Once the service answers, the root of a plugin opens, whatever happened before: no failed
\* login, killed process, torn file or kept listing makes it unusable for good.  Left out are
\* what never opens, whatever the service does: the root of Tidal, which asks for the route
\* table that it did not give; Qobuz once it has an application secret; and a process which has
\* exited (CmdTalk::Internal::running()).
Opens == answer.asked = "browse" /\ answer.place = <<>> /\ \E e \in ToSet(answer.entries) : e.path # <<>>
MayOpen == service # "tidal" /\ appid \in {"none", "spoofed"} /\ proc # "exited"
RootOpens == (good /\ MayOpen) ~> Opens
====
