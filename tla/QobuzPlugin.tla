---- MODULE QobuzPlugin ----
(***************************************************************************)
(* The Qobuz plugin: the views of qobuz-app.py, the calls of session.py    *)
(* and api/raw.py, and the login.  "net" is the number of requests to the  *)
(* service which are answered while one command of the parent is treated:  *)
(* _api_request() returns None for the others.                             *)
(***************************************************************************)
EXTENDS PluginRouting

CONSTANTS QobuzLib,    \* what the service has: a record of sequences of identifiers
          QSlice       \* loopget(): the size of a page

\* The service names its things with identifiers of one segment, which are not addresses.
ASSUME QobuzAssumption ==
  /\ QSlice \in Nat \ {0} /\ IsId(NoneArg)
  /\ \A kind \in {"artist", "album", "genrealbum", "playlist", "track", "genre"} : IsIdList(QobuzLib[kind])

QobuzRoutes == <<
  Route("root", <<>>),
  Route("root_genres", <<"root_genres">>),
  Route("genre_view", <<"genre", Arg>>),
  Route("genre_view_type", <<"featured", Arg, Arg>>),
  Route("genre_view_playlists", <<"featured_playlists", Arg>>),
  Route("whats_new", <<"whats_new">>),
  Route("featured", <<"featured", Arg>>),
  Route("my_music", <<"my_music">>),
  Route("album_view", <<"album", Arg>>),
  Route("playlist_view", <<"playlist", Arg>>),
  Route("artist_view", <<"artist", Arg>>),
  Route("similar_artists", <<"artist", Arg, "similar">>),
  Route("favourite_tracks", <<"favourite_tracks">>),
  Route("favourite_artists", <<"favourite_artists">>),
  Route("favourite_albums", <<"favourite_albums">>),
  Route("favourite_playlists", <<"favourite_playlists">>) >>

\* RawApi._api_request(): None when the service cannot be reached or answers with an error.
QobuzAnswers(net) == net > 0

QDir(view, args) == add_directory(QobuzRoutes, view, args)
QView(view, ids) == View(QobuzRoutes, view, ids)

\* get_featured_albums(): no genre when the path holds the text of None; nothing when not answered.
get_featured_albums(genre, net) ==
  IF ~QobuzAnswers(net) THEN <<>>
  ELSE Available(IF genre = NoneArg THEN QobuzLib.album ELSE QobuzLib.genrealbum)
get_featured_playlists(genre, net) ==
  IF ~QobuzAnswers(net) THEN <<>> ELSE IF genre = NoneArg THEN QobuzLib.playlist ELSE Pages(QobuzLib.playlist, 1, 1, 1)

\* get_featured_items(), by the type in the path.
get_featured_items(type) ==
  CASE type = <<"artists">> -> QView("artist_view", QobuzLib.artist)
    [] type = <<"albums">> -> QView("album_view", QobuzLib.album)
    [] type = <<"playlists">> -> QView("playlist_view", QobuzLib.playlist)
    [] OTHER -> <<>>

\* get_genres(): the bogus genre of all the genres, then those of the service.
get_genres == <<NoneArg>> \o QobuzLib.genre

genre_view(genre, net) ==
  LET Type(t) == QDir("genre_view_type", <<genre, <<t>>>>)
  IN  <<Type("new-releases"), QDir("genre_view_playlists", <<genre>>), Type("most-streamed"),
        Type("best-sellers"), Type("editor-picks"), Type("press-awards")>>
      \o QView("album_view", get_featured_albums(genre, net))

QobuzBrowse(view, args, net) ==
  CASE view = "root" -> Directories(QobuzRoutes, <<"whats_new", "root_genres", "my_music">>)
    [] view = "root_genres" -> QView("genre_view", get_genres)
    [] view = "genre_view" -> genre_view(args[1], net)
    [] view = "genre_view_type" -> QView("album_view", get_featured_albums(args[1], net))
    [] view = "genre_view_playlists" -> QView("playlist_view", get_featured_playlists(args[1], net))
    [] view = "whats_new" ->
         [i \in 1..3 |-> QDir("featured", <<<<(<<"playlists", "albums", "artists">>)[i]>>>>)]
    [] view = "featured" -> get_featured_items(args[1])
    [] view = "my_music" -> Directories(QobuzRoutes, <<"favourite_albums", "favourite_tracks",
                                                      "favourite_artists", "favourite_playlists">>)
    [] view = "album_view" -> trackentries(QobuzLib.track)
    [] view = "playlist_view" -> trackentries(Pages(QobuzLib.track, 1000, QSlice, net))
    [] view = "artist_view" ->
         <<QDir("similar_artists", args)>> \o QView("album_view", Available(QobuzLib.album))
    [] view = "similar_artists" -> QView("artist_view", QobuzLib.artist)
    [] view = "favourite_tracks" -> trackentries(Available(Pages(QobuzLib.track, 0, QSlice, net)))
    [] view = "favourite_artists" -> QView("artist_view", Pages(QobuzLib.artist, 0, QSlice, net))
    [] view = "favourite_albums" -> QView("album_view", Available(Pages(QobuzLib.album, 0, QSlice, net)))
    [] view = "favourite_playlists" -> QView("playlist_view", Pages(QobuzLib.playlist, 0, QSlice, net))

\* The views which read an answer that is not there, or a user who is not there:
\* favourite_artists catches the exception.
QobuzRaises(view, user, net) ==
  \/ ~QobuzAnswers(net) /\ view \in {"root_genres", "featured", "album_view", "artist_view", "similar_artists", "track"}
  \/ user = "nobody" /\ view \in {"favourite_tracks", "favourite_albums", "favourite_playlists"}
QobuzEmpty(view, user) == user = "nobody" /\ view = "favourite_artists"

\* Session._search1(): what the nth request of a command finds; what is not answered ends it.
QobuzFound(kind, nth, net) ==
  IF net < nth THEN <<>> ELSE IF kind = "album" THEN Available(QobuzLib.album) ELSE QobuzLib[kind]

\* search(): a kind which is not known is a track; a search for albums is followed by one for
\* playlists.
QobuzSearch(kind, net) ==
  LET k == IF kind \in {"any", "artist", "album", "playlist", "track"} THEN kind ELSE "track"
      Nth(c) == IF k = "any" THEN CASE c = "artist" -> 1 [] c = "album" -> 2
                                    [] c = "track" -> 3 [] OTHER -> 4
                ELSE IF k = "album" /\ c = "playlist" THEN 2 ELSE 1
      Found(c) == QobuzFound(c, Nth(c), net)
      Show(c, entries) == IF k \in {"any", c} \/ (k = "album" /\ c = "playlist") THEN entries ELSE <<>>
  IN  Show("artist", QView("artist_view", Found("artist")))
      \o Show("album", QView("album_view", Found("album")))
      \o Show("playlist", QView("playlist_view", Found("playlist")))
      \o Show("track", trackentries(Found("track")))

\* trackuri(): without a login there may be no RawApi to ask, or no secret to sign the request.
QobuzUri(s, net) == [raises |-> ~s.api \/ ~s.s4, served |-> net > 0]

\* Mutant: a free user is logged in, with the token of before.
LoginFreeUsers(s, user, net, account, appid) ==
  IF account = "refused" THEN [session |-> [s EXCEPT !.token = "nobody"], raised |-> FALSE]
  ELSE IF account = "free" THEN [session |-> [s EXCEPT !.user = user, !.on = TRUE], raised |-> FALSE]
  ELSE [session |-> [s EXCEPT !.token = user, !.user = user, !.on = TRUE], raised |-> FALSE]

\* RawApi.user_login() and setSec(), with what the service says of the user.  A refused user
\* loses the token, a free one keeps what was there.  setSec() raises when the application
\* identifier is configured, as there is no spoofer then, and on the misspelt name of the saved
\* log level when the probe with an accepted secret is answered.  Without these the user is
\* logged in, whatever became of the probes, with the last secret.
user_login(s, user, net, account, appid) ==
  LET known == [s EXCEPT !.token = user, !.s4 = TRUE]
  IN  CASE account = "refused" -> [session |-> [s EXCEPT !.token = "nobody"], raised |-> FALSE]
        [] account = "free" -> [session |-> s, raised |-> FALSE]
        [] account \notin {"refused", "free"} ->
             IF appid = "configured" \/ (appid = "accepted" /\ QobuzAnswers(net))
             THEN [session |-> known, raised |-> TRUE]
             ELSE [session |-> [known EXCEPT !.user = user, !.on = TRUE], raised |-> FALSE]

\* maybelogin() and Session.login(): the spoofer of a new RawApi needs an answer too, a
\* configured application has its secret from the start.
QobuzLogin(s, user, net, account, appid) ==
  IF s.on THEN [session |-> s, raised |-> FALSE]
  ELSE IF ~QobuzAnswers(net) /\ ~s.api /\ appid # "configured" THEN [session |-> s, raised |-> TRUE]
  ELSE user_login([s EXCEPT !.api = TRUE, !.s4 = @ \/ appid = "configured"], user,
                  IF net > 0 THEN net - 1 ELSE 0, IF QobuzAnswers(net) THEN account ELSE "refused", appid)
====
