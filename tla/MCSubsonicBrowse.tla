-------------------------- MODULE MCSubsonicBrowse --------------------------
(* A small library for SubsonicBrowse. *)
EXTENDS SubsonicBrowse

MCAlbums == <<"al1", "al2", "al3", "al4">>
MCAlbumOf == [
    al1 |-> [artist |-> "p", genre |-> "g", songs |-> <<"s1", "s2", "s3", "s4">>],
    al2 |-> [artist |-> "p", genre |-> "g", songs |-> <<"s5">>],
    al3 |-> [artist |-> "q", genre |-> "h", songs |-> <<"s6", "s7">>],
    al4 |-> [artist |-> "p", genre |-> "h", songs |-> <<>>]]

Song(artist, dir, disc, track, album) ==
    [artist |-> artist, dir |-> dir, disc |-> disc, track |-> track, album |-> album]
\* al1 has two versions, of which one has two discs; al3 has two artists.
MCSongOf == [
    s1 |-> Song("p", "d1", 2, 1, "al1"), s2 |-> Song("p", "d1", 1, 2, "al1"),
    s3 |-> Song("p", "d2", 0, 1, "al1"), s4 |-> Song("p", "d1", 1, 1, "al1"),
    s5 |-> Song("p", "d1", 0, 0, "al2"),
    s6 |-> Song("q", "d2", 1, 1, "al3"), s7 |-> Song("p", "d2", 1, 2, "al3")]
MCRank == [p |-> 1, q |-> 2, d1 |-> 1, d2 |-> 2, al1 |-> 1, al2 |-> 2, al3 |-> 3, al4 |-> 4]
\* The name of q has that of p in it.
MCNamedIn == {<<"p", "q">>}
MCInitials == <<[name |-> "P", artists |-> <<"p">>], [name |-> "Q", artists |-> <<"q">>]>>
MCOrdered == [n |-> MCAlbums, rp |-> <<"al2", "al1">>, hr |-> <<"al3">>, mp |-> <<"al4", "al3", "al1">>, fav |-> <<>>]
MCRandomPicks == [albums |-> {<<"al4", "al1">>}, songs |-> {<<"s3", "s7">>}]
MCStarred == [artists |-> <<"q", "p">>, songs |-> <<"s2", "s7", "s6">>]
MCPlaylists == [pl1 |-> <<"s5", "s1">>]
MCStations == <<"st1">>
MCTopSongs == [p |-> <<"s2">>, q |-> <<>>]
MCSimilarSongs == [p |-> <<>>, q |-> <<"s6">>, al1 |-> <<"s5", "s3">>, al2 |-> <<>>, al3 |-> <<>>, al4 |-> <<>>]
MCSimilar == [p |-> <<"q">>, q |-> <<>>]
MCFound == [album |-> <<"al2">>, track |-> <<"s7", "s6">>, artist |-> <<"q">>]
MCRootTags == <<"glbms", "grtsts", "gsngs", "g", "pl", "ir">>

\* The hypothesis of the theorem about what the pages promise (PagesKept).
ASSUME ArtAssumption == ArtForTags
=============================================================================
