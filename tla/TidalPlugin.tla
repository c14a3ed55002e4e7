---- MODULE TidalPlugin ----
(***************************************************************************)
(* The Tidal plugin: the views of tidal-app.py and the calls of tidalapi.  *)
(* A request which fails raises here (raise_for_status), and so does every *)
(* entry made from a view function: browse() and search() create the       *)
(* XbmcPlugin without the route table it asks for the url.                 *)
(***************************************************************************)
EXTENDS PluginRouting

CONSTANT TidalLib    \* what the service has: a record of sequences of identifiers

\* The service names its tracks with identifiers of one segment (what else it lists raises).
ASSUME TidalAssumption == IsIdList(TidalLib.track)

TidalRoutes == <<
  Route("root", <<>>),
  Route("track_radio", <<"track_radio", Arg>>),
  Route("moods", <<"moods">>),
  Route("moods_playlists", <<"moods", Arg>>),
  Route("genres", <<"genres">>),
  Route("genre_view", <<"genre", Arg>>),
  Route("genre_playlists", <<"genre", Arg, "playlists">>),
  Route("genre_albums", <<"genre", Arg, "albums">>),
  Route("genre_tracks", <<"genre", Arg, "tracks">>),
  Route("featured_playlists", <<"featured_playlists">>),
  Route("whats_new", <<"whats_new">>),
  Route("featured", <<"featured", Arg, Arg>>),
  Route("my_music", <<"my_music">>),
  Route("album_view", <<"album", Arg>>),
  Route("artist_view", <<"artist", Arg>>),
  Route("artist_radio", <<"artist", Arg, "radio">>),
  Route("top_tracks", <<"artist", Arg, "top">>),
  Route("similar_artists", <<"artist", Arg, "similar">>),
  Route("playlist_view", <<"playlist", Arg>>),
  Route("my_playlists", <<"user_playlists">>),
  Route("favourite_playlists", <<"favourite_playlists">>),
  Route("favourite_artists", <<"favourite_artists">>),
  Route("favourite_albums", <<"favourite_albums">>),
  Route("favourite_tracks", <<"favourite_tracks">>) >>

\* Session.request(): raises when fewer requests are answered than a command makes.
TidalAnswers(requests, net) == net >= requests

TDir(view, args) == add_directory(TidalRoutes, view, args)

\* whats_new(): the local lists are left out while the session is in its trial country.
WhatsNew(country) ==
  LET Group(g, types) == [i \in 1..Len(types) |-> TDir("featured", <<<<g>>, <<types[i]>>>>)]
      all == <<"playlists", "albums", "tracks">>
  IN  Group("recommended", all) \o Group("new", all) \o Group("top", <<"albums", "tracks">>)
      \o (IF country = "US" THEN <<>> ELSE Group("local", all))

\* The views whose entries are tracks or are made from a url, and so do not need the table.
TidalBrowse(view, args, country) ==
  CASE view = "genre_view" -> [i \in 1..3 |-> TDir((<<"genre_playlists", "genre_albums", "genre_tracks">>)[i], args)]
    [] view = "whats_new" -> WhatsNew(country)
    [] view = "artist_view" ->
         [i \in 1..3 |-> TDir((<<"top_tracks", "artist_radio", "similar_artists">>)[i], args)]
    [] view \in {"track_radio", "genre_tracks", "album_view", "artist_radio", "top_tracks",
                 "playlist_view", "favourite_tracks"} -> trackentries(TidalLib.track)
    [] view = "featured" /\ args[2] = <<"tracks">> -> trackentries(TidalLib.track)
    [] OTHER -> <<>>

\* What the other views list: they raise in urls_from_id() when there is something to list.
TidalLinked(view, args) ==
  CASE view = "moods" -> TidalLib.mood
    [] view = "genres" -> TidalLib.genre
    [] view = "featured" -> IF args[2] = <<"albums">> THEN TidalLib.album
                            ELSE IF args[2] = <<"playlists">> THEN TidalLib.playlist ELSE <<>>
    [] view \in {"moods_playlists", "genre_playlists", "featured_playlists", "my_playlists",
                 "favourite_playlists"} -> TidalLib.playlist
    [] view \in {"genre_albums", "artist_view", "favourite_albums"} -> TidalLib.album
    [] view \in {"similar_artists", "favourite_artists"} -> TidalLib.artist
    [] OTHER -> <<>>

\* The number of requests of a view.
TidalRequests(view) ==
  CASE view \in {"root", "genre_view", "whats_new", "my_music"} -> 0
    [] view = "artist_view" -> 3
    [] OTHER -> 1

\* favourite_artists catches what its request raises, and then has nothing to list.
TidalCaught(view, user, net) == view = "favourite_artists" /\ (net = 0 \/ user = "nobody")
TidalRaises(view, args, user, net) ==
  \/ view \in {"root", "my_music"}
  \/ /\ ~TidalCaught(view, user, net)
     /\ \/ ~TidalAnswers(TidalRequests(view), net)
        \/ user = "nobody" /\ view \in {"my_playlists", "favourite_playlists", "favourite_albums", "favourite_tracks"}
        \/ \E i \in 1..Len(TidalLinked(view, args)) : TidalLinked(view, args)[i] \notin HttpIds

\* search(): one request for each kind, and no kind means all of them, in this order.
TidalSearched(kind) == IF kind = "any" THEN <<"artist", "album", "playlist", "track">> ELSE <<kind>>
TidalSearch(kind) == IF kind \in {"any", "track"} THEN trackentries(TidalLib.track) ELSE <<>>
TidalSearchRaises(kind, net) ==
  LET kinds == SelectSeq(TidalSearched(kind), LAMBDA k : k \in DOMAIN TidalLib)
  IN  \/ ~TidalAnswers(Len(kinds), net)
      \/ \E i \in 1..Len(kinds) : kinds[i] # "track" /\ \E j \in 1..Len(TidalLib[kinds[i]]) :
           TidalLib[kinds[i]][j] \notin HttpIds

\* trackuri(), through get_media_url().
TidalUri(net) == [raises |-> ~TidalAnswers(1, net), served |-> TRUE]

\* maybelogin() and Session.login(): a request which is not answered raises; the result of the
\* login is not looked at, so after a refused one the plugin goes on in trial mode for good.
TidalLogin(s, user, net, account) ==
  LET who == IF net > 0 /\ account # "refused" THEN user ELSE "nobody"
  IN  IF s.on THEN [session |-> s, raised |-> FALSE]
      ELSE [session |-> [s EXCEPT !.on = TidalAnswers(1, net), !.user = who, !.token = who],
            raised |-> ~TidalAnswers(1, net)]
====
