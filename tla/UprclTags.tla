----------------------------- MODULE UprclTags ------------------------------
(***************************************************************************)
(* The tree by tags of the Uprcl media server: the tables which            *)
(* uprcltagscreate.py fills from the documents of the index, the albums    *)
(* and the merging of their discs, and the way uprcltags.py browses them.  *)
(*                                                                         *)
(* A table of tag values and its junction table are abstracted to the      *)
(* field tags of the tracks: the set of the values of each tag.  NULL in a *)
(* column of albums is None, or 0 for an album id.                         *)
(***************************************************************************)
EXTENDS Integers, SequencesExt, FiniteSets

CONSTANTS
    TrackDocs,    \* the audio documents which may be indexed
    MaxTracks,    \* bound: tracks in one index
    Folders, Parent, FolderName, FolderDisc, \* the folders: their parent, name, and disc number in the name
    IndexTags,    \* getindextags(), or the default list
    VariousArtists,
    SliceFrom     \* the number of items from which partial lists are returned (1000)

None == -1
Artist == "Artist"

VARIABLES
    docs,    \* the documents, in the order of the index
    tracks,  \* the tracks table, in the order of docs: [doc, album]
    albums,  \* the albums table, album_id is the index
    todo     \* the step of recolltosql(): a document, "artists", a candidate, "done"

vars == <<docs, tracks, albums, todo>>

Falsy(n) == n \in {None, 0}
AlbumIds == DOMAIN albums

----------------------------------------------------------------------------
(* recolltosql(): the pass on the documents.                                *)

\* Disc number: the tag, else the end of the album title, else the folder name.
DiscOf(d) ==
    LET titled == IF Falsy(d.disc) /\ d.titledisc # None THEN d.titledisc ELSE d.disc
    IN  IF Falsy(titled) /\ FolderDisc[d.folder] # None THEN FolderDisc[d.folder] ELSE titled

\* Album title: of the tag, without the disc number if that is the number of the
\* disc, or the folder name, in which the number may be found as well.
AlbumName(d) == IF d.album = "" THEN FolderName[d.folder] ELSE d.album
TitleOf(d) ==
    <<AlbumName(d), IF Falsy(d.disc) \/ d.disc = d.titledisc THEN None ELSE d.titledisc>>

\* The album found for a document: the first one with its title and folder, and
\* with its disc number if it has one.
SameAlbum(d) ==
    {i \in AlbumIds : /\ albums[i].title = TitleOf(d)
                      /\ albums[i].folder = d.folder
                      /\ Falsy(DiscOf(d)) \/ albums[i].disc = DiscOf(d)}

\* The Artist value of a track is the album artist if there is one.
ArtistsOf(d) == IF d.albumartist # "" THEN {d.albumartist} ELSE d.tags[Artist]
TagsOf(d) == [d.tags EXCEPT ![Artist] = ArtistsOf(d)]

NewAlbum(d) ==
    [title |-> TitleOf(d), folder |-> d.folder, artist |-> d.albumartist,
     disc |-> DiscOf(d), alb |-> 0, artists |-> {}]

\* _updatealbartistlist(): the set of artists of each track which has one.
WithArtists(row, d) ==
    IF ArtistsOf(d) = {} THEN row ELSE [row EXCEPT !.artists = @ \cup {ArtistsOf(d)}]

_maybecreatealbum ==
    /\ todo \in DOMAIN docs
    /\ LET d == docs[todo]
           id == IF SameAlbum(d) = {} THEN Len(albums) + 1
                 ELSE CHOOSE i \in SameAlbum(d) : \A j \in SameAlbum(d) : i <= j
           all == IF SameAlbum(d) = {} THEN Append(albums, NewAlbum(d)) ELSE albums
       IN  /\ albums' = [all EXCEPT ![id] = WithArtists(@, d)]
           /\ tracks' = Append(tracks, [doc |-> d, tags |-> TagsOf(d), album |-> id])
    /\ todo' = todo + 1
    /\ UNCHANGED docs

\* An album without an artist takes one which all its tracks share.
Shared(row) ==
    {a \in UNION row.artists : \A s \in row.artists : a \in s}

_setalbumartists ==
    /\ todo = Len(docs) + 1
    /\ albums' = [i \in AlbumIds |->
         IF albums[i].artist # "" THEN albums[i]
         ELSE [albums[i] EXCEPT !.artist =
                 IF Shared(albums[i]) = {} THEN VariousArtists ELSE CHOOSE a \in Shared(albums[i]) : TRUE]]
    /\ todo' = todo + 1
    /\ UNCHANGED <<docs, tracks>>

----------------------------------------------------------------------------
(* _createmergedalbums(): the candidates in the order of the table.         *)

Candidate(row) == row.alb = 0 /\ row.disc # None
Near(f, g) == f = g \/ Parent[f] = Parent[g]

\* The discs which may go with album i, itself included.
Discs(i) ==
    {j \in AlbumIds : /\ Candidate(albums[j])
                      /\ albums[j].title = albums[i].title
                      /\ albums[j].artist = albums[i].artist
                      /\ Near(albums[i].folder, albums[j].folder)}

\* _checkseq(): the sorted numbers are consecutive and do not begin with 0.
Sequential(ids) ==
    LET nos == {albums[j].disc : j \in ids}
    IN  /\ Cardinality(nos) = Cardinality(ids)
        /\ 0 \notin nos
        /\ \A n \in nos : n + 1 \in nos \/ \A m \in nos : m <= n

\* _membertotopalbum(): the parent album is a copy of its first disc.
TopAlbum(ids) ==
    [albums[CHOOSE i \in ids : \A j \in ids : i <= j] EXCEPT !.disc = None]

\* Mutant: an album which is not merged keeps its disc number.
UnnumberNot(ids) == albums
Unnumber(ids) == [i \in AlbumIds |-> IF i \in ids THEN [albums[i] EXCEPT !.disc = None] ELSE albums[i]]

MergeFrom == Len(docs) + 2

_createmergedalbums ==
    /\ todo \in MergeFrom..MergeFrom + Len(albums) - 1
    /\ LET i == todo - MergeFrom + 1
           ids == Discs(i)
       IN  IF ~Candidate(albums[i]) THEN UNCHANGED albums
           ELSE IF Cardinality(ids) = 1 \/ ~Sequential(ids) THEN albums' = Unnumber(ids)
           ELSE albums' = Append([j \in AlbumIds |-> IF j \in ids THEN [albums[j] EXCEPT !.alb = Len(albums) + 1]
                                                     ELSE albums[j]], TopAlbum(ids))
    /\ todo' = todo + 1
    /\ UNCHANGED <<docs, tracks>>

\* Finally the albums which are not a disc of another one are their own parent.
_finishmerge ==
    /\ todo = MergeFrom + Len(albums)
    /\ albums' = [i \in AlbumIds |-> IF albums[i].disc = None THEN [albums[i] EXCEPT !.alb = i] ELSE albums[i]]
    /\ todo' = todo + 1
    /\ UNCHANGED <<docs, tracks>>

Done == todo = MergeFrom + Len(albums) + 1

Init ==
    /\ docs \in {s \in SeqOf(TrackDocs, MaxTracks) : IsInjective(s)}
    /\ tracks = <<>>
    /\ albums = <<>>
    /\ todo = 1

Next == _maybecreatealbum \/ _setalbumartists \/ _createmergedalbums \/ _finishmerge

Spec == Init /\ [][Next]_vars

----------------------------------------------------------------------------
(* Browsing.  A selection is the set of the pairs <<tag, value>> on the     *)
(* path of the object id, within the folders of scope (all of them, or      *)
(* those below the folder of a tag view).                                   *)

Selected(sel, scope) ==
    {t \in DOMAIN tracks : /\ tracks[t].doc.folder \in scope
                           /\ \A p \in sel : p[2] \in tracks[t].tags[p[1]]}

\* _subtreetags(): the tags which still have several values in a selection.
_subtreetags(sel, scope) ==
    {tag \in IndexTags \ {p[1] : p \in sel} :
        Cardinality(UNION {tracks[t].tags[tag] : t \in Selected(sel, scope)}) > 1}

\* _tagsbrowse() of "=tag": the values in the selection.
Values(sel, scope, tag) == UNION {tracks[t].tags[tag] : t \in Selected(sel, scope)}

\* _albids2rawalbids(): the discs of an album; a merged one is among its own.
_albids2rawalbids(i) ==
    LET discs == {j \in AlbumIds : albums[j].alb = i}
    IN  IF discs = {} THEN {i} ELSE discs

\* _rawalbids2albids().
_rawalbids2albids(ids) == {IF albums[i].alb # 0 THEN albums[i].alb ELSE i : i \in ids}

\* _subtreealbums().
_subtreealbums(sel, scope) ==
    _rawalbids2albids({tracks[t].album : t \in Selected(sel, scope)})

\* _direntriesforalbums(), and _albcntforfolder(), with and without a folder.
AlbumEntries(scope) ==
    IF scope = Folders THEN {i \in AlbumIds : albums[i].disc = None}
    ELSE {albums[i].alb : i \in {j \in AlbumIds : albums[j].folder \in scope}}

\* _albid2rawalbidssorted().
_albid2rawalbidssorted(i) ==
    IF Cardinality(_albids2rawalbids(i)) <= 1 THEN <<i>>
    ELSE SetToSortSeq(_albids2rawalbids(i), LAMBDA a, b : albums[a].disc < albums[b].disc)

AlbumTracks(i) == {t \in DOMAIN tracks : tracks[t].album = i}
TrackNo(t) == tracks[t].doc.trackno

\* _trackentriesforalbum(): the tracks disc by disc, in the order of their numbers,
\* with a new number where one is not above the number before it.
TrackList(i) ==
    LET discs == _albid2rawalbidssorted(i)
        before(a, b) == TrackNo(a) < TrackNo(b) \/ (TrackNo(a) = TrackNo(b) /\ a < b)
    IN  FlattenSeq([k \in DOMAIN discs |-> SetToSortSeq(AlbumTracks(discs[k]), before)])

Renumber(nos, t) ==
    Append(nos, IF nos # <<>> /\ Last(nos) # 0 /\ TrackNo(t) <= Last(nos)
                THEN Last(nos) + 1 ELSE TrackNo(t))

TrackNumbers(i) == FoldLeft(Renumber, <<>>, TrackList(i))

\* The selection is a whole album.
\* Mutant: or a part of one.
WholeAlbumOrPart(albs, picked) == Cardinality(albs) = 1
WholeAlbum(albs, picked) ==
    Cardinality(albs) = 1 /\ Len(TrackList(CHOOSE i \in albs : TRUE)) = Cardinality(picked)

\* _tagsbrowse() of a selection: the albums entry or the entry of the only album,
\* the items and tag containers, or the tracks themselves.
_tagsbrowse(sel, scope) ==
    LET picked == Selected(sel, scope)
        albs == _subtreealbums(sel, scope)
        whole == WholeAlbum(albs, picked)
        tags == _subtreetags(sel, scope)
    IN  [albums |-> IF Cardinality(albs) > 1 THEN albs ELSE {},
         complete |-> IF Cardinality(albs) = 1 THEN albs ELSE {},
         items |-> tags # {},
         tags |-> tags,
         tracks |-> IF tags = {} /\ ~whole THEN picked ELSE {}]

\* _tagsbrowsealbums(): the tracks of the selection in an album, and whether there
\* is an entry for the complete album.
_tagsbrowsealbums(sel, scope, i) ==
    LET all == {t \in DOMAIN tracks : tracks[t].album \in _albids2rawalbids(i)}
        shown == all \cap Selected(sel, scope)
    IN  [tracks |-> shown, complete |-> shown # all]

\* _tagsbrowseitems(): the tracks of the selection, and the album which they are a
\* part of if there is only one.
_tagsbrowseitems(sel, scope) ==
    LET picked == Selected(sel, scope)
        albs == _subtreealbums(sel, scope)
    IN  [tracks |-> picked,
         complete |-> IF Cardinality(albs) = 1 /\ ~WholeAlbum(albs, picked) THEN albs ELSE {}]

\* The items list, whole or a slice of it: <<offset, total, entries>>.
_trackentriesforstmt(offset, count) ==
    LET total == Len(tracks)
        whole == (offset = 0 /\ count = 0) \/ total < SliceFrom
        upto == IF offset + count > total THEN total ELSE offset + count
    IN  IF whole THEN <<0, total, [k \in 1..total |-> k]>>
        ELSE IF count = 0 THEN <<offset, total, "OFFSET without LIMIT">>
        ELSE <<offset, total, SubSeq([k \in 1..total |-> k], offset + 1, upto)>>

\* rootentries(): the numbers of albums and items, and the tags.
TagRoot(scope) ==
    [albums |-> Cardinality(AlbumEntries(scope)),
     items |-> Cardinality(Selected({}, scope)),
     tags |-> _subtreetags({}, scope)]

\* _dobrowse() and _albumsbrowse(): the items and the tracks of an album.
ItemsPage(scope) == IF scope = Folders THEN Range(_trackentriesforstmt(0, 0)[3]) ELSE Selected({}, scope)
AlbumPage(i) == Range(TrackList(i))

\* direntryforalbid(): the album entries which a search may return.
direntryforalbid(i) == i \in AlbumIds /\ albums[i].disc = None

----------------------------------------------------------------------------
(* Properties.                                                              *)

TypeOK ==
    /\ todo \in 1..MergeFrom + 3 * MaxTracks
    /\ Len(tracks) <= Len(docs)
    /\ \A t \in DOMAIN tracks : tracks[t].album \in AlbumIds
    /\ \A i \in AlbumIds : albums[i].alb \in AlbumIds \cup {0} /\ albums[i].disc \in Nat \cup {None}

\* When the tables are complete the albums which are listed share out the tracks:
\* each track is in exactly one of them, merged or not (uprcltagscreate.py 494-561,
\* uprcltags.py 193-215, 256-279).
AlbumsShareTracks ==
    Done => /\ UNION {Range(TrackList(i)) : i \in AlbumEntries(Folders)} = DOMAIN tracks
            /\ \A i, j \in AlbumEntries(Folders) : i # j => Range(TrackList(i)) \cap Range(TrackList(j)) = {}

\* The track list of a merged album is that of its discs, in the order of their
\* numbers, and the new track numbers increase (uprcltags.py 256-279).
MergedInOrder ==
    Done => \A i \in AlbumEntries(Folders) :
        LET list == TrackList(i)
            nos == TrackNumbers(i)
            disc(t) == albums[tracks[t].album].disc
        IN  /\ IsInjective(list)
            /\ \A k \in 1..Len(list) - 1 : disc(list[k]) <= disc(list[k + 1])
            /\ \A k \in 1..Len(nos) - 1 : nos[k] < nos[k + 1] \/ nos[k] = 0

Selections == {{}} \cup {{p} : p \in {<<tag, v>> \in IndexTags \X UNION {Values({}, Folders, x) : x \in IndexTags} : v \in Values({}, Folders, tag)}}

\* Below a tag value every track of the selection can be reached, and no other but
\* through the entry for a complete album (uprcltags.py 361-401, 501-541).
SelectionReached ==
    Done => \A sel \in Selections : \A scope \in {Folders} \cup {{f} : f \in Folders} :
        LET page == _tagsbrowse(sel, scope)
            viaalbums == UNION {_tagsbrowsealbums(sel, scope, i).tracks : i \in page.albums}
            whole == UNION {Range(TrackList(i)) : i \in page.complete}
            items == _tagsbrowseitems(sel, scope)
            shown == page.tracks \cup IF page.items THEN items.tracks ELSE {}
        IN  /\ Selected(sel, scope) = shown \/ (shown = {} /\ Selected(sel, scope) = whole)
            /\ page.albums # {} => viaalbums = Selected(sel, scope)
            /\ \A i \in items.complete : items.tracks \subseteq AlbumPage(i) /\ items.tracks # AlbumPage(i)

\* What the root of a tree by tags counts is what its pages show, also below a folder: the albums are
\* counted by their folders and are those of the items, and their pages have all the items
\* (uprcltags.py 77-97, 238-248, 294-322, 562-591).
RootCountsPages ==
    Done => \A scope \in {Folders} \cup {{f} : f \in Folders} :
        LET root == TagRoot(scope)
        IN  /\ root.items = Cardinality(ItemsPage(scope))
            /\ root.albums = Cardinality(_subtreealbums({}, scope))
            /\ ItemsPage(scope) \subseteq UNION {AlbumPage(i) : i \in AlbumEntries(scope)}

\* The slices of the list of all items add up to the list, which is returned whole when it is short
\* (uprcltags.py 151-177).
SlicesAddUp ==
    Done => \A count \in 1..SliceFrom :
        LET slice(k) == LET s == _trackentriesforstmt(count * k, count) IN SelectSeq(s[3], LAMBDA x : x \in count * k + 1..count * (k + 1))
        IN  FlattenSeq([k \in 1..Len(tracks) |-> slice(k - 1)]) = [t \in DOMAIN tracks |-> t]

\* An album which any track refers to is one of the listed albums, and a search may return each of
\* these (uprcltags.py 222-251, 283-322).
AlbumsAreListed ==
    Done => /\ \A i \in AlbumEntries(Folders) : direntryforalbid(i)
            /\ _subtreealbums({}, Folders) \subseteq AlbumEntries(Folders)
=============================================================================
