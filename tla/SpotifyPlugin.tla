---- MODULE SpotifyPlugin ----
(***************************************************************************)
(* The Spotify plugin: the views of spotify-app.py, the calls of           *)
(* session.py, and the token file of spotipy/oauth2.py, which is read for  *)
(* every request, refreshed when it has expired and written again.  "net"  *)
(* is the number of requests which are answered during a command; the      *)
(* others raise.                                                           *)
(***************************************************************************)
EXTENDS PluginRouting

CONSTANTS SpotifyLib,    \* what the service has: a record of sequences of identifiers
          Owner,         \* the owner of the playlists
          SSlice         \* the size of the pages the service answers

\* The service names its things with identifiers of one segment, which are not addresses.
ASSUME SpotifyAssumption ==
  /\ SSlice \in Nat \ {0} /\ IsId(Owner)
  /\ \A kind \in {"artist", "album", "playlist", "track", "category"} : IsIdList(SpotifyLib[kind])

SpotifyRoutes == <<
  Route("root", <<>>),
  Route("my_music", <<"my_music">>),
  Route("album_view", <<"album", Arg>>),
  Route("playlist_view", <<"playlist", Arg, Arg>>),
  Route("category_view", <<"category", Arg>>),
  Route("artist_view", <<"artist", Arg>>),
  Route("new_releases", <<"new_releases">>),
  Route("recently_played", <<"recently_played">>),
  Route("favourite_tracks", <<"favourite_tracks">>),
  Route("favourite_albums", <<"favourite_albums">>),
  Route("featured_playlists", <<"featured_playlists">>),
  Route("genres_and_moods", <<"genres_and_moods">>),
  Route("my_playlists", <<"my_playlists">>),
  Route("favourite_artists", <<"favourite_artists">>) >>

SView(view, ids) == View(SpotifyRoutes, view, ids)
\* The entries of playlists: the path has the owner too.
SPlaylists == [i \in 1..Len(SpotifyLib.playlist) |->
                 add_directory(SpotifyRoutes, "playlist_view", <<SpotifyLib.playlist[i], Owner>>)]

FirstPage(things) == SubSeq(things, 1, IF Len(things) < SSlice THEN Len(things) ELSE SSlice)
\* The pages of a list which is followed to its end with next().
AllPages(things) == IF things = <<>> THEN 1 ELSE (Len(things) + SSlice - 1) \div SSlice

SpotifyBrowse(view) ==
  CASE view = "root" -> Directories(SpotifyRoutes, <<"my_music", "new_releases", "featured_playlists", "genres_and_moods">>)
    [] view = "my_music" -> Directories(SpotifyRoutes, <<"recently_played", "favourite_tracks", "favourite_albums",
                                                        "favourite_artists", "my_playlists">>)
    [] view = "album_view" -> trackentries(SpotifyLib.track)
    [] view \in {"playlist_view", "recently_played", "favourite_tracks"} -> trackentries(FirstPage(SpotifyLib.track))
    [] view \in {"category_view", "featured_playlists", "my_playlists"} ->
         SubSeq(SPlaylists, 1, Len(FirstPage(SpotifyLib.playlist)))
    [] view \in {"artist_view", "favourite_albums"} -> SView("album_view", SpotifyLib.album)
    [] view = "new_releases" -> SView("album_view", FirstPage(SpotifyLib.album))
    [] view = "favourite_artists" -> SView("artist_view", SpotifyLib.artist)
    [] view = "genres_and_moods" -> SView("category_view", FirstPage(SpotifyLib.category))

SpotifyRequests(view) ==
  CASE view \in {"root", "my_music"} -> 0
    [] view = "album_view" -> 1 + AllPages(SpotifyLib.track)
    [] view \in {"artist_view", "favourite_albums"} -> AllPages(SpotifyLib.album)
    [] view = "favourite_artists" -> AllPages(SpotifyLib.artist)
    [] OTHER -> 1

\* trackuri(): the identifier, which the proxy of the parent resolves.
SpotifyUri == [raises |-> FALSE, served |-> TRUE]

\* search(): as in the Qobuz plugin, a search for albums is followed by one for playlists.
SpotifySearched(kind) ==
  CASE kind = "any" -> {"artist", "album", "track", "playlist"}
    [] kind = "album" -> {"album", "playlist"}
    [] kind \in {"artist", "playlist", "track"} -> {kind}
    [] OTHER -> {"track"}
SpotifySearch(kind) ==
  LET Show(c, entries) == IF c \in SpotifySearched(kind) THEN entries ELSE <<>>
  IN  Show("artist", SView("artist_view", FirstPage(SpotifyLib.artist)))
      \o Show("album", SView("album_view", FirstPage(SpotifyLib.album)))
      \o Show("playlist", SubSeq(SPlaylists, 1, Len(FirstPage(SpotifyLib.playlist))))
      \o Show("track", trackentries(Pages(SpotifyLib.track, 3 * SSlice, SSlice, 3)))
\* _search1(): tracks are read up to the third page, until a page is short.
SpotifySearchRequests(kind) ==
  LET full == Len(SpotifyLib.track) \div SSlice
      tracks == IF full < 2 THEN full + 1 ELSE 3
  IN  Cardinality(SpotifySearched(kind) \ {"track"}) + (IF "track" \in SpotifySearched(kind) THEN tracks ELSE 0)

\* SpotifyOAuth.get_cached_token() and refresh_access_token(), for the first request of a
\* command: what becomes of the file, the requests left, and whether the request has a token.
\* A file which was not written to its end is not JSON, which nothing catches.
get_cached_token(file, net, account) ==
  CASE file = "good" -> [file |-> file, net |-> net, token |-> TRUE]
    [] file \in {"none", "torn"} -> [file |-> file, net |-> net, token |-> FALSE]
    [] file = "expired" /\ net > 0 /\ account # "refused" -> [file |-> "good", net |-> net - 1, token |-> TRUE]
    [] file = "expired" /\ (net = 0 \/ account = "refused") -> [file |-> file, net |-> 0, token |-> FALSE]

\* Spotify._internal_call(): without a token the service refuses the request, which raises.
SpotifyRaises(requests, auth) == requests > 0 /\ (~auth.token \/ auth.net < requests)

\* maybelogin() and Session.login(): nothing is asked of the service.
SpotifyLogin(s, user) == IF s.on THEN s ELSE [s EXCEPT !.on = TRUE, !.user = user]
====
