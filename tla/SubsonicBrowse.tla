--------------------------- MODULE SubsonicBrowse ---------------------------
(***************************************************************************)
(* The Subsonic plugin of the media server: the identifiers it puts in the *)
(* objects it returns, the handlers which browse() finds for them, the     *)
(* pages of the long lists, the versions of an album, the art caches, and  *)
(* the loops which read a whole list of the Subsonic server before the     *)
(* plugin can answer.                                                      *)
(*                                                                         *)
(* An object id is the path of the identifiers from the root; handlers use *)
(* the last one only, so a place is one identifier.  The server answers    *)
(* from a fixed library.  The caches for TAG, GENRE_ALBUM_LIST and         *)
(* GENRE_ARTIST_LIST are never read and are left out.                      *)
(***************************************************************************)
EXTENDS Integers, SequencesExt, FiniteSets, Places

CONSTANTS
    Albums,       \* the albums of the library, newest first
    AlbumOf,      \* [album -> [artist, genre, songs]]
    SongOf,       \* [song -> [artist, dir, sub, disc, track, suffix, album]]
    Rank,         \* the order of the names of artists and directories
    NamedIn,      \* the pairs of artists of which the second has the name of the first in his own
    Initials,     \* the indexes of the server: sequence of [name, artists]
    Ordered,      \* [tag of a list of albums -> sequence of albums]
    RandomPicks,  \* sequences of albums or songs which a random request may give
    Starred,      \* [artists, songs]: the favourites
    Playlists,    \* [playlist -> sequence of songs]
    Stations,     \* sequence of stations
    TopSongs,     \* [artist -> sequence of songs]
    SimilarSongs, \* [artist or album -> sequence of songs]
    Similar,      \* [artist -> sequence of artists]
    Found,        \* [field of search() -> sequence of albums, songs or artists]
    RootTags,     \* the tags of the initial page which are enabled
    NavigableAlbums, \* not subsonicdisablenavigablealbumview
    PageSize,     \* items_per_page
    MaxOffset,    \* bound: the random albums have no last page
    MaxReturn     \* subsonic_max_return_size

VARIABLES
    at,       \* the identifier being browsed
    page,     \* the entries of the last answer
    seen,     \* the elements listed since the first page of the list at at
    cache,    \* cache_manager: <<type, key>> -> art
    initials, \* artist_initial_cache: artist -> initial
    loop      \* the request list being read: [for, offset, last], or none

vars == <<at, page, seen, cache, initials, loop>>

Genres == {AlbumOf[a].genre : a \in ToSet(Albums)}
GenreAlbums(g) == AtPlaces(Albums, {i \in DOMAIN Albums : AlbumOf[Albums[i]].genre = g})
ArtistAlbums(x) == AtPlaces(Albums, {i \in DOMAIN Albums : AlbumOf[Albums[i]].artist = x})
Artists == FlattenSeq([i \in DOMAIN Initials |-> Initials[i].artists])
GenreArtists(g) ==
    AtPlaces(Artists, {i \in DOMAIN Artists : \E a \in ToSet(GenreAlbums(g)) : AlbumOf[a].artist = Artists[i]})
\* get_album_list_by_artist_genre() looks for the name of the artist in that of the album's artist.
Named(x, y) == x = y \/ <<x, y>> \in NamedIn
ArtistGenreAlbums(x, g) ==
    LET albums == GenreAlbums(g)
    IN  AtPlaces(albums, {i \in DOMAIN albums : Named(x, AlbumOf[albums[i]].artist)})

----------------------------------------------------------------------------
(* Identifiers: thing name and value, offset, genre, version path, and the  *)
(* mode of a list of songs.                                                 *)

ElementNames ==
    {"tag", "lbm", "gnr", "gnr_rtsts", "gnr_lbus", "rtst", "gnr_rtst", "rtst_ntl", "trk", "pl", "i_rd",
     "sngntr_n", "sngntr_s", "nxt_rndm_sngs", "sprs_lbm", "rtsttp", "rtsttp_sl", "rtst_smlr",
     "rtst_lbms", "rd", "rd_sl", "gnr_rtst_lbms"}
TagNames ==
    {"glbms", "n", "rp", "hr", "fav", "mp", "r", "grtsts", "a_all", "a_ndx", "fav_rtsts",
     "gsngs", "rs", "rsl", "fs", "fsl", "g", "pl", "ir"}

\* What the server answers with are lists, of albums, songs and artists of the library.
ASSUME LibraryAssumption ==
    /\ PageSize \in Nat \ {0} /\ MaxReturn \in Nat \ {0}
    /\ Albums \in Seq(DOMAIN AlbumOf)
    /\ DOMAIN Ordered = {"n", "rp", "hr", "mp", "fav"}
    /\ \A t \in DOMAIN Ordered : Ordered[t] \in Seq(DOMAIN AlbumOf)
    /\ \A pick \in RandomPicks.albums : pick \in Seq(DOMAIN AlbumOf)
    /\ \A pick \in RandomPicks.songs : pick \in Seq(DOMAIN SongOf)
    /\ Starred.songs \in Seq(DOMAIN SongOf) /\ Starred.artists \in Seq(DOMAIN TopSongs)
    /\ DOMAIN Found \subseteq {"album", "track", "artist"}
    /\ RootTags \in Seq(TagNames)

\* The parts of the library refer to each other, and an artist is under one index.
ASSUME ReferencesAssumption ==
    /\ \A a \in DOMAIN AlbumOf : AlbumOf[a].songs \in Seq(DOMAIN SongOf) /\ AlbumOf[a].artist \in DOMAIN TopSongs
    /\ \A a \in DOMAIN AlbumOf : \A s \in ToSet(AlbumOf[a].songs) : SongOf[s].album = a
    /\ \A s \in DOMAIN SongOf : SongOf[s].album \in DOMAIN AlbumOf
    /\ DOMAIN Similar = DOMAIN TopSongs /\ DOMAIN TopSongs \cup DOMAIN AlbumOf \subseteq DOMAIN SimilarSongs
    /\ \A x \in DOMAIN TopSongs : TopSongs[x] \in Seq(DOMAIN SongOf) /\ Similar[x] \in Seq(DOMAIN TopSongs)
    /\ \A x \in DOMAIN SimilarSongs : SimilarSongs[x] \in Seq(DOMAIN SongOf)
    /\ IsFiniteSet(DOMAIN Playlists) /\ \A p \in DOMAIN Playlists : Playlists[p] \in Seq(DOMAIN SongOf)
    /\ \A field \in DOMAIN Found :
            Found[field] \in Seq(CASE field = "album" -> DOMAIN AlbumOf [] field = "track" -> DOMAIN SongOf
                                   [] field = "artist" -> DOMAIN TopSongs)
    /\ Stations \in Seq(ToSet(Stations))
    /\ Initials \in Seq([name : STRING, artists : Seq(DOMAIN TopSongs)])
    /\ \A i, j \in DOMAIN Initials :
            ToSet(Initials[i].artists) \cap ToSet(Initials[j].artists) # {} => Initials[i].name = Initials[j].name
    /\ Artists \in Seq(DOMAIN TopSongs) /\ \A a \in ToSet(Albums) : AlbumOf[a].artist \in ToSet(Artists)

\* Songs are in folders: the plugin takes the empty path for no path.
ASSUME SongsAssumption ==
    \A s \in DOMAIN SongOf :
        LET r == SongOf[s]
        IN  /\ r.dir # "" /\ r.disc \in Nat /\ r.track \in Nat
            /\ Rank[r.artist] \in Nat /\ Rank[r.album] \in Nat /\ Rank[r.dir] \in Nat

ItemIdentifier(n, v) == [n |-> n, v |-> v, o |-> 0, g |-> "", ap |-> "", sntr |-> TRUE]
Tag(t) == ItemIdentifier("tag", t)
At(id, offset) == [id EXCEPT !.o = offset]
InGenre(id, g) == [id EXCEPT !.g = g]
InVersion(id, path) == [id EXCEPT !.ap = path]
InMode(id, asEntry) == [id EXCEPT !.sntr = asEntry]

Each(n, values) == [i \in DOMAIN values |-> ItemIdentifier(n, values[i])]
Tags(tags) == Each("tag", tags)
Tracks(songs) == Each("trk", songs)
SongEntries(songs, asEntry) == Each(IF asEntry THEN "sngntr_n" ELSE "sngntr_s", songs)
ArtistEntries(artists) == Each("rtst", artists)
AlbumEntries(albums) == Each("lbm", albums)

IfAny(list, entries) == IF list = <<>> THEN <<>> ELSE entries

\* A page of a list of which the plugin has all the elements.
Slice(s, offset) == SubSeq(s, offset + 1, IF Len(s) < offset + PageSize THEN Len(s) ELSE offset + PageSize)
NextIfMore(s, id, nextid) == IF Len(s) > id.o + PageSize THEN <<At(nextid, id.o + PageSize)>> ELSE <<>>
\* Mutant: the next page begins at the last element of this one.
NextOverlaps(s, id) == IF Len(Slice(s, id.o)) = PageSize THEN <<At(id, id.o + PageSize - 1)>> ELSE <<>>
\* A page of a list which the server cuts: there may be more if the page is full.
NextIfFull(s, id) == IF Len(Slice(s, id.o)) = PageSize THEN <<At(id, id.o + PageSize)>> ELSE <<>>

----------------------------------------------------------------------------
(* The songs of an album: the directory of a song is that of its disc       *)
(* folder's parent; an album has one version for each directory.            *)

\* __compare_decorated_song().
Key(s) == LET r == SongOf[s] IN <<Rank[r.artist], Rank[r.album], Rank[r.dir], r.disc, r.track>>
Before(s, t) == \E i \in 1..5 : Key(s)[i] < Key(t)[i] /\ \A j \in 1..i - 1 : Key(s)[j] = Key(t)[j]

\* list.sort() is stable: of two songs which compare as equal, the first one stays the first.
Precedes(songs, i, j) == Before(songs[i], songs[j]) \/ (i < j /\ ~Before(songs[j], songs[i]))
sort_song_list(songs) ==
    [n \in DOMAIN songs |->
        songs[CHOOSE i \in DOMAIN songs : Cardinality({j \in DOMAIN songs : Precedes(songs, j, i)}) = n - 1]]

\* Versions in the order in which the songs of the album bring them.
Versions(songs) ==
    LET dirs == [i \in DOMAIN songs |-> SongOf[songs[i]].dir]
    IN  AtPlaces(dirs, {i \in DOMAIN songs : \A j \in 1..i - 1 : dirs[j] # dirs[i]})

get_album_tracks == [a \in DOMAIN AlbumOf |-> sort_song_list(AlbumOf[a].songs)]

\* Mutant: the path of the version is not looked at.
LoadAllVersions(a, path) == Tracks(get_album_tracks[a])
_load_album_tracks(a, path) ==
    LET songs == get_album_tracks[a]
    IN  Tracks(AtPlaces(songs, {i \in DOMAIN songs : path = "" \/ SongOf[songs[i]].dir = path}))

VersionEntry(a, path) == InVersion(ItemIdentifier("lbm", a), path)

_handler_element_album(id) ==
    LET paths == Versions(AlbumOf[id.v].songs)
    IN  IF id.ap = "" /\ Len(paths) > 1
        THEN [i \in DOMAIN paths |-> VersionEntry(id.v, paths[i])]
        ELSE _load_album_tracks(id.v, id.ap)

\* The number which a track of the page is shown with.
TrackNumber(entries, i) ==
    LET Dir(k) == SongOf[entries[k].v].dir
        first == CHOOSE k \in 1..i : /\ \A j \in k..i : Dir(j) = Dir(i)
                                     /\ k = 1 \/ Dir(k - 1) # Dir(i)
    IN  i - first + 1

----------------------------------------------------------------------------
(* The handlers of the tags.                                                *)

_handler_tag_group_albums == Tags(<<"n", "rp", "hr", "mp", "r", "fav">>)
_handler_tag_group_artists == Tags(<<"a_all", "a_ndx", "fav_rtsts">>)
_handler_tag_group_songs == Tags(<<"rs", "rsl", "fs", "fsl">>)

_load_albums_by_type(albums) == Each(IF NavigableAlbums THEN "sprs_lbm" ELSE "lbm", albums)

__handler_tag_type(id) ==
    LET albums == Slice(Ordered[id.v], id.o)
    IN  _load_albums_by_type(albums) \o NextIfFull(Ordered[id.v], id)

\* Each page of the random albums is a new choice.
_handler_tag_random(id) ==
    {_load_albums_by_type(pick) \o IF Len(pick) = PageSize THEN <<At(id, id.o + PageSize)>> ELSE <<>>
        : pick \in RandomPicks.albums}

\* The next page of random songs remembers the mode.
_get_random_songs(asEntry) ==
    {SongEntries(pick, asEntry) \o <<InMode(ItemIdentifier("nxt_rndm_sngs", "some_random_song"), asEntry)>>
        : pick \in RandomPicks.songs}

\* The next page of the favourite songs is that of the list, whatever the mode.
_get_favourite_songs(id, asEntry) ==
    SongEntries(Slice(Starred.songs, id.o), asEntry) \o NextIfMore(Starred.songs, id, Tag("fsl"))

_create_list_of_genres == Each("gnr", SetToSeq(Genres))
_get_list_of_artists == ArtistEntries(Artists)
_create_list_of_artist_initials == [i \in DOMAIN Initials |-> ItemIdentifier("rtst_ntl", Initials[i].name)]
_handler_tag_artists_favourite(id) ==
    ArtistEntries(Slice(Starred.artists, id.o)) \o NextIfMore(Starred.artists, id, id)
_create_list_of_playlist == Each("pl", SetToSeq(DOMAIN Playlists))
_create_list_of_internet_radio == Each("i_rd", Stations)

TagHandler(id) ==
    CASE id.v = "glbms" -> {_handler_tag_group_albums}
      [] id.v = "grtsts" -> {_handler_tag_group_artists}
      [] id.v = "gsngs" -> {_handler_tag_group_songs}
      [] id.v \in {"n", "rp", "hr", "mp", "fav"} -> {__handler_tag_type(id)}
      [] id.v = "r" -> _handler_tag_random(id)
      [] id.v = "rs" -> _get_random_songs(TRUE)
      [] id.v = "rsl" -> _get_random_songs(FALSE)
      [] id.v = "fs" -> {_get_favourite_songs(id, TRUE)}
      [] id.v = "fsl" -> {_get_favourite_songs(id, FALSE)}
      [] id.v = "g" -> {_create_list_of_genres}
      [] id.v = "a_all" -> {_get_list_of_artists}
      [] id.v = "a_ndx" -> {_create_list_of_artist_initials}
      [] id.v = "fav_rtsts" -> {_handler_tag_artists_favourite(id)}
      [] id.v = "pl" -> {_create_list_of_playlist}
      [] id.v = "ir" -> {_create_list_of_internet_radio}

----------------------------------------------------------------------------
(* The handlers of the elements.                                            *)

_handler_element_genre(id) ==
    <<InGenre(ItemIdentifier("gnr_rtsts", id.v), id.v), InGenre(ItemIdentifier("gnr_lbus", id.v), id.v)>>

_handler_element_genre_artists(id) ==
    LET artists == GenreArtists(id.g)
    IN  [i \in DOMAIN artists |-> InGenre(ItemIdentifier("gnr_rtst", artists[i]), id.g)]

_handler_element_genre_album_list(id) ==
    AlbumEntries(Slice(GenreAlbums(id.g), id.o)) \o NextIfFull(GenreAlbums(id.g), id)

_handler_element_genre_artist(id) ==
    ArtistEntries(<<id.v>>) \o <<InGenre(ItemIdentifier("gnr_rtst_lbms", id.v), id.g)>>

_handler_element_genre_artist_albums(id) ==
    LET albums == ArtistGenreAlbums(id.v, id.g)
    IN  AlbumEntries(Slice(albums, id.o)) \o NextIfMore(albums, id, id)

_handler_element_artist_initial(id) ==
    ArtistEntries((CHOOSE r \in ToSet(Initials) : r.name = id.v).artists)

\* The number of albums of the last page is a remainder of the number of albums:
\* none if the pages are full, unless there is only one.
_handler_element_artist_albums(id) ==
    LET albums == ArtistAlbums(id.v)
        more == Len(albums) > PageSize + id.o
        n == IF more \/ Len(albums) = PageSize THEN PageSize ELSE Len(albums) % PageSize
        last == IF id.o + n > Len(albums) THEN Len(albums) ELSE id.o + n
    IN  AlbumEntries(SubSeq(albums, id.o + 1, last))
        \o IF more THEN <<At(id, id.o + PageSize)>> ELSE <<>>

_artist_to_top_songs_entry(x) ==
    IfAny(TopSongs[x], <<ItemIdentifier("rtsttp", x), ItemIdentifier("rtsttp_sl", x)>>)
_similar_artists_for_artist(x) ==
    IfAny(Similar[x], <<ItemIdentifier("rtst_smlr", x)>>)
_radio_entry(iid) ==
    IfAny(SimilarSongs[iid], <<ItemIdentifier("rd", iid), ItemIdentifier("rd_sl", iid)>>)

_handler_element_artist(id) ==
    <<ItemIdentifier("rtst_lbms", id.v)>> \o _artist_to_top_songs_entry(id.v)
        \o _similar_artists_for_artist(id.v) \o _radio_entry(id.v)

_artist_entry_for_album(a) == ArtistEntries(<<AlbumOf[a].artist>>)

_handler_element_navigable_album(id) ==
    LET x == AlbumOf[id.v].artist
    IN  AlbumEntries(<<id.v>>) \o _artist_entry_for_album(id.v) \o _artist_to_top_songs_entry(x)
            \o _similar_artists_for_artist(x) \o _radio_entry(id.v)

_handler_element_song_entry(id) ==
    LET a == SongOf[id.v].album
    IN  <<ItemIdentifier("sngntr_s", id.v)>> \o AlbumEntries(<<a>>) \o ArtistEntries(<<AlbumOf[a].artist>>)

_handler_element_song_entry_song(id) == Tracks(<<id.v>>)
_handler_element_track(id) == Tracks(<<id.v>>)
_handler_element_radio_station(id) == <<id>>

_handler_radio(id) == SongEntries(SimilarSongs[id.v], TRUE)
_handler_radio_song_list(id) == Tracks(SimilarSongs[id.v])
_handler_element_artist_top_songs_common(id) ==
    IF id.n = "rtsttp_sl" THEN Tracks(TopSongs[id.v]) ELSE SongEntries(TopSongs[id.v], TRUE)
_handler_element_similar_artists(id) == ArtistEntries(Similar[id.v])
_create_list_of_playlist_entries(id) == Tracks(Playlists[id.v])

ElementHandler(id) ==
    CASE id.n = "gnr" -> {_handler_element_genre(id)}
      [] id.n = "rtst_ntl" -> {_handler_element_artist_initial(id)}
      [] id.n = "rtst" -> {_handler_element_artist(id)}
      [] id.n = "gnr_rtst" -> {_handler_element_genre_artist(id)}
      [] id.n = "lbm" -> {_handler_element_album(id)}
      [] id.n = "sprs_lbm" -> {_handler_element_navigable_album(id)}
      [] id.n = "gnr_rtsts" -> {_handler_element_genre_artists(id)}
      [] id.n = "gnr_lbus" -> {_handler_element_genre_album_list(id)}
      [] id.n = "gnr_rtst_lbms" -> {_handler_element_genre_artist_albums(id)}
      [] id.n = "pl" -> {_create_list_of_playlist_entries(id)}
      [] id.n = "trk" -> {_handler_element_track(id)}
      [] id.n = "sngntr_n" -> {_handler_element_song_entry(id)}
      [] id.n = "sngntr_s" -> {_handler_element_song_entry_song(id)}
      [] id.n = "nxt_rndm_sngs" -> _get_random_songs(id.sntr)
      [] id.n = "i_rd" -> {_handler_element_radio_station(id)}
      [] id.n \in {"rtsttp", "rtsttp_sl"} -> {_handler_element_artist_top_songs_common(id)}
      [] id.n = "rtst_smlr" -> {_handler_element_similar_artists(id)}
      [] id.n = "rtst_lbms" -> {_handler_element_artist_albums(id)}
      [] id.n = "rd" -> {_handler_radio(id)}
      [] id.n = "rd_sl" -> {_handler_radio_song_list(id)}

Root == ItemIdentifier("root", "root")
Nowhere == ItemIdentifier("none", "none")
\* search() is a place whose name is the field.
Search(field) == ItemIdentifier("search", field)

\* search(): found tracks are sorted and shown as entries, albums are navigable.
SearchAnswer(field) ==
    CASE field = "album" -> Each("sprs_lbm", Found[field])
      [] field = "track" -> SongEntries(sort_song_list(Found[field]), TRUE)
      [] field = "artist" -> ArtistEntries(Found[field])

\* The art of a tag may be that of an element chosen at random of a list: an
\* exception, which refuses the whole page, if the list is empty.
ArtChosen(t) ==
    CASE t = "g" -> Genres # {}
      [] t \in {"a_all", "a_ndx"} -> Artists # <<>>
      [] t = "grtsts" -> Artists # <<>> \/ Starred.artists # <<>>
      [] t = "pl" -> DOMAIN Playlists # {}
      [] OTHER -> TRUE
_show_tags == IF \A t \in ToSet(RootTags) : ArtChosen(t) THEN Tags(RootTags) ELSE <<>>
\* The initial page has tags, and the art of each of them is found.
ArtForTags == RootTags # <<>> /\ \A t \in ToSet(RootTags) : ArtChosen(t)

Answers(id) ==
    CASE id = Root -> {_show_tags}
      [] id.n = "search" -> {SearchAnswer(id.v)}
      [] id.n = "tag" -> TagHandler(id)
      [] OTHER -> ElementHandler(id)

\* Items are played, the other entries are browsed.
IsItem(e) == e.n = "trk" \/ e.n = "i_rd"

\* The Next of a page of list id: it continues the same list.
IsNext(id, e) ==
    \/ id.n = e.n /\ id.v = e.v /\ id.g = e.g /\ e.o > id.o
    \/ id = Tag("fs") /\ e.n = "tag" /\ e.v = "fsl" /\ e.o > 0
\* What a page lists, without the Next at its end.
Elements(id, entries) == IF entries # <<>> /\ IsNext(id, Last(entries)) THEN Front(entries) ELSE entries

----------------------------------------------------------------------------
(* The caches.  Art is that of an album, the cover which the server gives   *)
(* for an artist (or some artist of an initial), or an album of a genre.    *)

AlbumArt(a) == <<"album", a>>
Cover(x) == <<"cover", x>>
NoCache == [k \in {} |-> Cover("")]

Put(c, k, v) == [j \in DOMAIN c \cup {k} |-> IF j = k THEN v ELSE c[j]]
PutNew(c, k, v) == IF k \in DOMAIN c THEN c ELSE Put(c, k, v)
Cached(type) == {k \in DOMAIN cache : k[1] = type}

\* album_to_entry() and album_version_to_entry().
CacheAlbum(c, known, a) ==
    LET x == AlbumOf[a].artist
        d == Put(Put(c, <<"gnr", AlbumOf[a].genre>>, AlbumArt(a)), <<"rtst", x>>, AlbumArt(a))
    IN  IF x \in DOMAIN known THEN Put(d, <<"rtst_ntl", known[x]>>, AlbumArt(a)) ELSE d

\* What the making of an entry stores.  The entry for the artist of a navigable
\* album replaces the art of the artist.
CacheEntry(c, known, e) ==
    CASE e.n = "lbm" -> CacheAlbum(c, known, e.v)
      [] e.n = "sprs_lbm" -> Put(c, <<"gnr", AlbumOf[e.v].genre>>, AlbumArt(e.v))
      [] e.n = "rtst" /\ at.n = "sprs_lbm" -> Put(c, <<"rtst", e.v>>, Cover(e.v))
      [] e.n \in {"rtst", "gnr_rtst"} -> PutNew(c, <<"rtst", e.v>>, Cover(e.v))
      [] e.n = "rtst_ntl" -> PutNew(c, <<"rtst_ntl", e.v>>, Cover(e.v))
      [] OTHER -> c

CacheEntries(c, known, entries) ==
    LET after[n \in 0..Len(entries)] == IF n = 0 THEN c ELSE CacheEntry(after[n - 1], known, entries[n])
    IN  after[Len(entries)]

\* The initials which the handler of id has seen.
InitialOf(x) == (CHOOSE r \in ToSet(Initials) : x \in ToSet(r.artists)).name
LearnInitials(id) ==
    LET shown == CASE id = Tag("a_all") \/ id = Tag("a_ndx") -> ToSet(Artists)
                   [] id.n = "rtst_ntl" -> {x \in ToSet(Artists) : InitialOf(x) = id.v}
                   [] OTHER -> {}
    IN  [x \in DOMAIN initials \cup shown |-> InitialOf(x)]

\* load_by_newest(): the first album of each genre and artist.
CacheIfFirst(c, a) ==
    PutNew(PutNew(c, <<"gnr", AlbumOf[a].genre>>, AlbumArt(a)), <<"rtst", AlbumOf[a].artist>>, AlbumArt(a))
CacheNewest(c, albums) ==
    LET after[n \in 0..Len(albums)] == IF n = 0 THEN c ELSE CacheIfFirst(after[n - 1], albums[n])
    IN  after[Len(albums)]

\* load_by_artists(): the first artist of each initial which has art.
CacheInitial(c, r) ==
    LET known == {i \in DOMAIN r.artists : <<"rtst", r.artists[i]>> \in DOMAIN c}
        first == CHOOSE i \in known : \A j \in known : i <= j
    IN  IF known = {} THEN c ELSE Put(c, <<"rtst_ntl", r.name>>, c[<<"rtst", r.artists[first]>>])
CacheInitials(c) ==
    LET after[n \in 0..Len(Initials)] == IF n = 0 THEN c ELSE CacheInitial(after[n - 1], Initials[n])
    IN  after[Len(Initials)]

----------------------------------------------------------------------------
(* Requests.  A loop which reads the albums of the library or of a genre    *)
(* goes on while there is no answer, or an empty one, or a full one.        *)

NoLoop == [for |-> "none", offset |-> 0, last |-> -1]
Loop(what) == [NoLoop EXCEPT !.for = what]
LoopList == IF loop.for = "listing" THEN GenreAlbums(at.g) ELSE Albums
\* Mutant: the loop asks for the same albums until it gets none.
ReadingForever == loop.last # -2
Reading == loop.last \in {-1, 0, MaxReturn}

NeedsListing(id) == id.n \in {"gnr_rtsts", "gnr_rtst", "gnr_rtst_lbms"}

\* initial_caching() when the cache which the handler looks at is empty.
NeedsCaching(id) ==
    \/ Cached("rtst_ntl") = {} /\ (id \in {Tag("g"), Tag("a_ndx")} \/ id.n = "rtst_ntl")
    \/ /\ Cached("rtst") = {}
       /\ \/ id = Tag("a_all")
          \/ /\ id.n \notin {"sprs_lbm", "sngntr_n"}
             /\ \E answer \in Answers(id) : \E e \in ToSet(answer) : e.n \in {"rtst", "gnr_rtst"}
AfterListing(id) == Loop(IF NeedsCaching(id) THEN "caching" ELSE "answer")

\* The client browses an entry of the page, goes back to the root, or searches.
browse ==
    /\ loop.for = "none"
    /\ \E id \in {e \in ToSet(page) : ~IsItem(e)} \cup {Root} \cup {Search(f) : f \in DOMAIN Found} :
         /\ id.o <= MaxOffset
         /\ at' = id
         /\ seen' = IF IsNext(at, id) THEN seen ELSE <<>>
         /\ loop' = IF NeedsListing(id) THEN Loop("listing") ELSE AfterListing(id)
    /\ page' = <<>>
    /\ UNCHANGED <<cache, initials>>

\* One request of a loop.
ReadAlbums ==
    /\ loop.for \in {"listing", "caching"} /\ Reading
    /\ LET left == Len(LoopList) - loop.offset
           n == IF left < MaxReturn THEN left ELSE MaxReturn
       IN  /\ loop' = [loop EXCEPT !.offset = @ + n, !.last = n]
           /\ cache' = IF loop.for = "caching"
                       THEN CacheNewest(cache, SubSeq(LoopList, loop.offset + 1, loop.offset + n))
                       ELSE cache
    /\ UNCHANGED <<at, page, seen, initials>>

ReadDone ==
    /\ loop.for \in {"listing", "caching"} /\ ~Reading
    /\ IF loop.for = "listing" THEN loop' = AfterListing(at) /\ UNCHANGED cache
       ELSE /\ loop' = IF at = Nowhere THEN NoLoop ELSE Loop("answer")
            /\ cache' = CacheInitials(cache)
    /\ UNCHANGED <<at, page, seen, initials>>

\* A request of a loop fails: an exception, and the client begins again at the root.
ReadFails ==
    /\ loop.for \in {"listing", "caching"} /\ Reading
    /\ at' = Nowhere /\ seen' = <<>> /\ loop' = NoLoop
    /\ UNCHANGED <<page, cache, initials>>

Answer ==
    /\ loop.for = "answer"
    /\ \E answer \in Answers(at) :
         /\ page' = answer
         /\ seen' = seen \o Elements(at, answer)
         /\ initials' = LearnInitials(at)
         /\ cache' = CacheEntries(cache, initials', Elements(at, answer))
    /\ loop' = NoLoop
    /\ UNCHANGED at

\* subsonic_init() reads the library before the first request.
Init ==
    /\ at = Nowhere /\ page = <<>> /\ seen = <<>>
    /\ cache = NoCache /\ initials = [x \in {} |-> ""]
    /\ loop = Loop("caching")

Next == browse \/ ReadAlbums \/ ReadDone \/ ReadFails \/ Answer

\* A request is executed to its end by the plugin's one thread.
Spec == Init /\ [][Next]_vars /\ WF_vars(ReadAlbums) /\ WF_vars(ReadDone) /\ WF_vars(Answer)

----------------------------------------------------------------------------
(* Properties.                                                              *)

Answered == loop.for = "none"

\* The whole of the list which an identifier is a page of.
WholeList(id) ==
    CASE id.n = "tag" /\ id.v \in DOMAIN Ordered -> Ordered[id.v]
      [] id.n = "tag" /\ id.v \in {"fs", "fsl"} -> Starred.songs
      [] id.n = "tag" /\ id.v = "fav_rtsts" -> Starred.artists
      [] id.n = "gnr_lbus" -> GenreAlbums(id.g)
      [] id.n = "gnr_rtst_lbms" -> ArtistGenreAlbums(id.v, id.g)
      [] id.n = "rtst_lbms" -> ArtistAlbums(id.v)
      [] OTHER -> [i \in DOMAIN seen |-> seen[i].v]

LastPage == Answered /\ ~\E e \in ToSet(page) : IsNext(at, e)
SeenAll == [i \in DOMAIN seen |-> seen[i].v] = WholeList(at)

\* Who follows Next from the first page of a list to its last page has seen
\* every element of the list, once and in its order (albums of an artist aside).
PagesCoverList == LastPage /\ at.n # "rtst_lbms" => SeenAll

\* Cached art is that of the genre, artist or initial which it is cached for.
ArtBelongs ==
    \A k \in DOMAIN cache :
        LET art == cache[k]
            of(x) == IF k[1] = "rtst_ntl" THEN InitialOf(x) ELSE x
        IN  IF art[1] = "cover" THEN art[2] = k[2] \/ of(art[2]) = k[2]
            ELSE IF k[1] = "gnr" THEN AlbumOf[art[2]].genre = k[2]
            ELSE of(AlbumOf[art[2]].artist) = k[2]

\* The page of an album shows each of its songs once, in a version if it has
\* several, numbered from 1 and in the order of discs and tracks if the songs
\* have one artist.
InOrder(entries) ==
    \A i \in 1..Len(entries) - 1 :
        LET s == SongOf[entries[i].v] t == SongOf[entries[i + 1].v]
        IN  s.artist = t.artist => (s.disc < t.disc \/ (s.disc = t.disc /\ s.track <= t.track))
AlbumPagesWhole ==
    Answered /\ at.n = "lbm" /\ page # <<>> =>
        IF page[1].n = "lbm"
        THEN \A s \in ToSet(AlbumOf[at.v].songs) :
                Cardinality({e \in ToSet(page) : \E t \in ToSet(_load_album_tracks(at.v, e.ap)) : t.v = s}) = 1
        ELSE /\ {e.v : e \in ToSet(page)} =
                    {s \in ToSet(AlbumOf[at.v].songs) : at.ap = "" \/ SongOf[s].dir = at.ap}
             /\ {TrackNumber(page, i) : i \in DOMAIN page} = DOMAIN page
             /\ InOrder(page)

\* An entry which is shown only when there is something behind it has something.
PromisedEntries ==
    Answered /\ at.n \in {"gnr", "gnr_rtsts", "rtsttp", "rtsttp_sl", "rtst_smlr", "rd", "rd_sl", "gnr_rtst_lbms", "root"}
        => page # <<>>

\* What a page shows is true: albums are whole, art belongs to its entry, and no entry leads to an
\* empty page (subsonic-app.py, the handlers of elements; caching.py).
PagesKeepPromises == AlbumPagesWhole /\ ArtBelongs /\ PromisedEntries

\* Every request is answered: the loops which read a whole list end (subsonic_util.py:104-190,
\* subsonic_init.py:84).  They do not when the list is empty or its length a multiple of MaxReturn.
BrowseAnswered == loop.for # "none" ~> loop.for = "none"
=============================================================================
