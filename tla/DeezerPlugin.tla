---- MODULE DeezerPlugin ----
(***************************************************************************)
(* The Deezer plugin: the views of deezer-app.py and the calls of          *)
(* deezersession.py and deezerapi.py.  The access token is kept in a file  *)
(* and read back after a restart.  "net" is the number of requests which   *)
(* are answered during a command; _api_request() returns None for the      *)
(* others, and no caller expects that.                                     *)
(***************************************************************************)
EXTENDS PluginRouting

CONSTANTS DeezerLib,   \* what the service has: a record of sequences of identifiers
          DSlice       \* the size of the pages the service answers

\* The service names its things with identifiers of one segment, which are not addresses.
ASSUME DeezerAssumption ==
  /\ DSlice \in Nat \ {0}
  /\ \A kind \in {"artist", "album", "playlist", "track", "user"} : IsIdList(DeezerLib[kind])

DeezerRoutes == <<
  Route("root", <<>>),
  Route("my_family", <<"my_family">>),
  Route("my_favourite_albums", <<"my_favourite_albums">>),
  Route("my_favourite_playlists", <<"my_favourite_playlists">>),
  Route("my_favourite_artists", <<"my_favourite_artists">>),
  Route("my_favourite_tracks", <<"my_favourite_tracks">>),
  Route("favourite_albums", <<"favourite_albums", Arg>>),
  Route("favourite_playlists", <<"favourite_playlists", Arg>>),
  Route("favourite_artists", <<"favourite_artists", Arg>>),
  Route("favourite_tracks", <<"favourite_tracks", Arg>>),
  Route("playlist_view", <<"userplaylist", Arg>>),
  Route("user_view", <<"user", Arg>>),
  Route("artist_view", <<"artist", Arg>>),
  Route("album_view", <<"album", Arg>>) >>

DView(view, ids) == View(DeezerRoutes, view, ids)

\* DeezerAPI._api_request(): None, which no caller expects, for the requests past these.
DeezerAnswers(requests, net) == net >= requests

\* _loopit() and _search1(): pages until one is empty or "limit" things are there; the requests
\* this takes, and what it collects when all of them are answered.
Loop(things, limit) ==
  LET full == (Len(things) + DSlice - 1) \div DSlice
      enough == (limit + DSlice - 1) \div DSlice
  IN  [requests |-> IF enough <= full THEN enough ELSE full + 1,
       things |-> Pages(things, limit, DSlice, full)]

\* The list that a view walks, with the limit of its loop.
Listed(view) ==
  CASE view \in {"my_favourite_albums", "favourite_albums"} -> Loop(DeezerLib.album, 1000)
    [] view \in {"my_favourite_playlists", "favourite_playlists"} -> Loop(DeezerLib.playlist, 1000)
    [] view \in {"my_favourite_artists", "favourite_artists"} -> Loop(DeezerLib.artist, 1000)
    [] view = "artist_view" -> Loop(DeezerLib.album, 500)
    [] view \in {"my_favourite_tracks", "favourite_tracks", "playlist_view"} -> Loop(DeezerLib.track, 2000)
    [] view = "my_family" -> [requests |-> 1, things |-> DeezerLib.user]
    [] view = "album_view" -> [requests |-> 1, things |-> DeezerLib.track]
    [] OTHER -> [requests |-> 0, things |-> <<>>]

DeezerRoot(on) ==
  IF ~on THEN <<>>
  ELSE Directories(DeezerRoutes, <<"my_favourite_albums", "my_favourite_playlists", "my_favourite_tracks",
                                   "my_favourite_artists", "my_family">>)

DeezerBrowse(view, args, on) ==
  LET things == Listed(view).things
  IN  CASE view = "root" -> DeezerRoot(on)
        [] view = "user_view" ->
             [i \in 1..4 |-> add_directory(DeezerRoutes, (<<"favourite_albums", "favourite_playlists",
                                                          "favourite_tracks", "favourite_artists">>)[i], args)]
        [] view = "my_family" -> DView("user_view", things)
        [] view \in {"my_favourite_albums", "favourite_albums", "artist_view"} -> DView("album_view", things)
        [] view \in {"my_favourite_playlists", "favourite_playlists"} -> DView("playlist_view", things)
        [] view \in {"my_favourite_artists", "favourite_artists"} -> DView("artist_view", things)
        [] view \in {"my_favourite_tracks", "favourite_tracks", "playlist_view", "album_view"} -> trackentries(things)

\* A request which is not answered raises, a getter which is not logged in gives nothing to
\* walk, and the views of the user ask for "None" when getUser() has not told who it is.  The
\* place of a track, which browse() does not tell from a container, leads nowhere.
DeezerRaises(view, on, user, net) ==
  \/ ~DeezerAnswers(Listed(view).requests, net)
  \/ ~on /\ Listed(view).requests > 0 /\ view # "album_view"
  \/ /\ user = "nobody"
     /\ view \in {"my_family", "my_favourite_albums", "my_favourite_playlists", "my_favourite_artists",
                  "my_favourite_tracks"}
  \/ view = "track"

\* search(): a kind which is not known is an album; no kind means the three of them.
DeezerFound(kind) ==
  LET k == IF kind \in {"any", "album", "artist", "track"} THEN kind ELSE "album"
      All == [artist |-> Loop(DeezerLib.artist, 30), album |-> Loop(DeezerLib.album, 50),
              track |-> Loop(DeezerLib.track, 200)]
  IN  [c \in DOMAIN All |-> IF k \in {"any", c} THEN All[c] ELSE [requests |-> 0, things |-> <<>>]]
DeezerSearch(kind) ==
  DView("artist_view", DeezerFound(kind).artist.things) \o DView("album_view", DeezerFound(kind).album.things)
  \o trackentries(DeezerFound(kind).track.things)
DeezerSearchRaises(kind, on, net) ==
  LET f == DeezerFound(kind)
  IN  ~on \/ ~DeezerAnswers(f.artist.requests + f.album.requests + f.track.requests, net)

\* trackuri(), through request_stream().
DeezerUri(net) == [raises |-> ~DeezerAnswers(1, net), served |-> TRUE]

\* maybelogin() and DeezerAPI.user_login(): the token of the file is taken as it is; without the
\* file the service is asked for one, and the file is written.  getUser() raises when it is not
\* answered, with the token already there: the next command takes the session for logged in.
DeezerLogin(s, user, net, account, tokenfile) ==
  LET asks == tokenfile = "nobody"
      who == IF asks THEN user ELSE tokenfile
      left == IF asks THEN net - 1 ELSE net
      Result(sess, file, rest, raised) == [session |-> sess, file |-> file, net |-> rest, raised |-> raised]
  IN  CASE s.on -> Result(s, tokenfile, net, FALSE)
        [] ~s.on /\ asks /\ net = 0 -> Result(s, tokenfile, 0, TRUE)
        [] ~s.on /\ asks /\ net > 0 /\ account = "refused" ->
             Result([s EXCEPT !.user = "nobody", !.token = "nobody"], tokenfile, left, FALSE)
        [] ~s.on /\ (~asks \/ (net > 0 /\ account # "refused")) ->
             LET on == [s EXCEPT !.on = TRUE, !.token = who]
             IN  CASE left = 0 -> Result(on, who, 0, TRUE)
                   [] left > 0 /\ account = "anonymous" -> Result(on, who, left - 1, FALSE)
                   [] left > 0 /\ account # "anonymous" -> Result([on EXCEPT !.user = who], who, left - 1, FALSE)
====
