---- MODULE MCStreamPlugin ----
EXTENDS StreamPlugin

Ids(s, n) == SubSeq(<< <<s \o "1">>, <<s \o "2">>, <<s \o "3">> >>, 1, n)
MCUnavailable == {<<"t2">>, <<"b2">>}
MCQobuzLib == [artist |-> Ids("a", 1), album |-> Ids("b", 3), genrealbum |-> Ids("b", 1), playlist |-> Ids("p", 1),
               track |-> Ids("t", 3), genre |-> Ids("g", 1)]
MCTidalLib == [artist |-> Ids("a", 1), album |-> Ids("b", 2), playlist |-> Ids("p", 1), track |-> Ids("t", 3),
               genre |-> Ids("g", 1), mood |-> Ids("m", 1)]
MCHraLib == [category |-> <<<<"c1">>, <<"c1", "c2">>>>, genre |-> <<<<"g1", "g2">>>>, album |-> Ids("b", 2),
             playlist |-> Ids("p", 1), edplaylist |-> Ids("e", 1), track |-> Ids("t", 3)]
MCDeezerLib == [artist |-> Ids("a", 1), album |-> Ids("b", 2), playlist |-> Ids("p", 1), track |-> Ids("t", 3),
                user |-> Ids("u", 1)]
MCSpotifyLib == [artist |-> Ids("a", 1), album |-> Ids("b", 3), playlist |-> Ids("p", 2), track |-> Ids("t", 3),
                 category |-> Ids("c", 1)]
MCOwner == <<"o1">>
MCBookmarks == [s \in {"qobuz", "tidal", "hra", "deezer", "spotify"} |->
  CASE s = "tidal" -> {<<"genre", "g1">>, <<"whats_new">>, <<"artist", "a1">>, <<"album", "b1">>, <<"moods">>,
                       <<"artist", "a1", "radio">>, <<"favourite_artists">>, <<"featured", "new", "tracks">>}
    [] s = "hra" -> {<<"alleditormoods">>}
    [] OTHER -> {}]
MCNets == {0, 1, 2, 12}
MCAccounts == [s \in {"qobuz", "tidal", "hra", "deezer", "spotify"} |->
  {"full", "refused"} \cup (CASE s = "qobuz" -> {"free"} [] s = "deezer" -> {"anonymous"} [] OTHER -> {})]
MCKept == {<<>>}
====
