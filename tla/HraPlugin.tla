---- MODULE HraPlugin ----
(***************************************************************************)
(* The HighResAudio plugin: the views of hra-app.py and the calls of       *)
(* session.py and hraapi.py.  Its sessions last half an hour and are       *)
(* renewed when they are older than twenty minutes.  "net" is the number   *)
(* of requests which are answered during a command; a refused login or an  *)
(* unanswered request is None.                                             *)
(***************************************************************************)
EXTENDS PluginRouting

CONSTANT HraLib    \* what the service has: a record of sequences of identifiers

HraRoutes == <<
  Route("root", <<>>),
  Route("allCategories", <<"allcategories">>),
  Route("allGenres", <<"allgenres">>),
  Route("category_view", <<"category", Arg>>),
  Route("allEditorGenres", <<"alleditorgenres">>),
  Route("allEditorMoods", <<"alleditormoods">>),
  Route("allEditorThemes", <<"alleditorthemes">>),
  Route("allEditorPlaylists", <<"alleditorplaylists">>),
  Route("edplaylist_view", <<"editorplaylist", Arg>>),
  Route("allUserPlaylists", <<"alluserplaylists">>),
  Route("allUserAlbums", <<"alluseralbums">>),
  Route("allUserTracks", <<"allusertracks">>),
  Route("userplaylist_view", <<"userplaylist", Arg>>),
  Route("album_view", <<"album", Arg>>) >>

HView(view, ids) == View(HraRoutes, view, ids)

\* encode_prefix() and decode_prefix(): the prefix of a category, which has slashes, as one
\* segment of the url-safe alphabet.
encode_prefix(prefix) == <<FoldLeft(LAMBDA a, b : a \o "_" \o b, Head(prefix), Tail(prefix))>>
decode_prefix(segment) ==
  LET coded == {p \in ToSet(HraLib.category) \cup ToSet(HraLib.genre) : encode_prefix(p) = segment}
  IN  IF coded = {} THEN NoneArg ELSE CHOOSE p \in coded : TRUE
Encoded(prefixes) == [i \in 1..Len(prefixes) |-> encode_prefix(prefixes[i])]

\* The service names its things with identifiers of one segment; its categories have several,
\* and one once they are encoded.
ASSUME HraAssumption ==
  /\ \A kind \in {"album", "playlist", "edplaylist", "track"} : IsIdList(HraLib[kind])
  /\ \A kind \in {"category", "genre"} : HraLib[kind] \in Seq(Seq(STRING)) /\ IsIdList(Encoded(HraLib[kind]))

\* root(): when the login fails the only entry leads back here.
HraRoot(on) ==
  IF ~on THEN <<add_directory(HraRoutes, "root", <<>>)>>
  ELSE Directories(HraRoutes, <<"allCategories", "allGenres", "allEditorPlaylists", "allUserPlaylists",
                                "allUserAlbums", "allUserTracks">>)

\* HRAAPI._api_request(): None when the service cannot be reached or answers with an error.
HraAnswers(net) == net > 0

\* The calls which begin with isloggedin().
HraNeedsLogin(view) ==
  view \in {"allCategories", "allGenres", "category_view", "edplaylist_view", "allUserPlaylists",
            "userplaylist_view", "allUserAlbums", "allUserTracks", "album_view"}
HraGets(view, on, net) == HraAnswers(net) /\ (HraNeedsLogin(view) => on)

\* A list which is not answered is empty.  listCategoryContent() gives the albums of the category.
HraBrowse(view, args, on, net) ==
  CASE view = "root" -> HraRoot(on)
    [] view # "root" /\ ~HraGets(view, on, net) -> <<>>
    [] HraGets(view, on, net) /\ view = "allCategories" -> HView("category_view", Encoded(HraLib.category))
    [] HraGets(view, on, net) /\ view = "allGenres" -> HView("category_view", Encoded(HraLib.genre))
    [] HraGets(view, on, net) /\ view = "category_view" ->
         IF decode_prefix(args[1]) = NoneArg THEN <<>> ELSE HView("album_view", HraLib.album)
    [] HraGets(view, on, net) /\ view \in {"allEditorGenres", "allEditorMoods", "allEditorThemes", "allEditorPlaylists"} ->
         HView("edplaylist_view", HraLib.edplaylist)
    [] HraGets(view, on, net) /\ view = "allUserPlaylists" -> HView("userplaylist_view", HraLib.playlist)
    [] HraGets(view, on, net) /\ view = "allUserAlbums" -> HView("album_view", HraLib.album)
    [] HraGets(view, on, net) /\ view \in {"edplaylist_view", "allUserTracks", "userplaylist_view", "album_view"} ->
         trackentries(HraLib.track)

\* The views which walk the None of a getter that asks for a login, or of a request that is not
\* answered; the session has no get_track() for the metadata of a track.
HraRaises(view, on, net) ==
  \/ view \in {"allCategories", "allGenres", "category_view"} /\ ~on
  \/ view = "allEditorPlaylists" /\ ~HraAnswers(net)
  \/ view = "track"

\* search(): in the category of the place where it starts, or everywhere; always for albums.
HraSearch(path, net) ==
  LET catg == IF Len(path) = 2 /\ Head(path) = "category" THEN decode_prefix(<<path[2]>>) ELSE <<"anywhere">>
  IN  IF net = 0 \/ catg = NoneArg THEN <<>> ELSE HView("album_view", HraLib.album)

\* trackuri(): the path prefix is read before the login which sets it, so this raises in a
\* process which has not treated another command ("early").
HraUri(on, early, net) == [raises |-> early, served |-> on /\ HraAnswers(net)]

\* Mutant: the age is not looked at.
RenewNever(s, net) == [session |-> s, net |-> net]

\* HRAAPI.isloggedin(): an old session is renewed, and lost when this fails.  The service
\* refuses to renew one which has expired.
HraRenew(s, net) ==
  CASE ~s.on \/ s.age = "fresh" -> [session |-> s, net |-> net]
    [] s.on /\ s.age = "old" /\ net > 0 -> [session |-> [s EXCEPT !.age = "fresh"], net |-> net - 1]
    [] s.on /\ ~(s.age = "fresh" \/ (s.age = "old" /\ net > 0)) ->
         [session |-> [s EXCEPT !.on = FALSE], net |-> IF net > 0 THEN net - 1 ELSE 0]

\* Mutant: a process tries to log in once.
HraLoginOnce(s, user, net, account) ==
  LET r == HraRenew([s EXCEPT !.api = TRUE], net)
  IN  IF r.session.on \/ s.api THEN r
      ELSE [session |-> [r.session EXCEPT !.on = net > 0 /\ account # "refused", !.age = "fresh",
                                          !.user = user, !.token = user], net |-> 0]

\* maybelogin() and Session.login() ("api": the process knows its path prefix): _clear_login()
\* forgets the user.
HraLogin(s, user, net, account) ==
  LET r == HraRenew([s EXCEPT !.api = TRUE], net)
      left == IF r.net > 0 THEN r.net - 1 ELSE 0
  IN  IF r.session.on THEN r
      ELSE IF HraAnswers(r.net) /\ account # "refused"
           THEN [session |-> [r.session EXCEPT !.on = TRUE, !.age = "fresh", !.user = user, !.token = user], net |-> left]
           ELSE [session |-> [r.session EXCEPT !.user = "nobody"], net |-> left]
====
