------------------------------ MODULE MCUprcl -------------------------------
(* An instance for TLC of what the Uprcl media server serves: the folder tree with its *)
(* lists, the tag tables, the tag views of folders, and searches.  A behaviour is about *)
(* one of the four (part), which do not change each other's state.                     *)
EXTENDS UprclLists

CONSTANTS none
VARIABLES part, docs, tracks, albums, step, criteria, glued, container, entries,
          hidden, now, opened, asked
tagvars == <<docs, tracks, albums, step>>
searchvars == <<criteria, glued, container, entries>>
viewvars == <<hidden, now, opened, asked>>

-----------------------------------------------------------------------------
\* UprclLists: three top directories, the path of the first a prefix of that of the second.
MCTopDirs == <<"/m", "/m2", "/n">>
MCNamePrefix == {<<"/m", "/m2">>}

File(type, top, path, group, title, m3u) ==
    [type |-> type, top |-> top, path |-> path, group |-> group, title |-> title, m3u |-> m3u]
Line(top, path) == [url |-> FALSE, top |-> top, path |-> path, name |-> ""]
Url(name) == [url |-> TRUE, top |-> "", path |-> <<>>, name |-> name]

MCLibrary == {
    File("dir", "/m", <<"a">>, none, FALSE, <<>>),
    File("track", "/m", <<"a", "x">>, none, TRUE, <<>>),
    File("track", "/m", <<"a", "b", "x">>, none, FALSE, <<>>),
    File("track", "/m", <<"a", "y">>, "g", TRUE, <<>>),
    File("track", "/m2", <<"a", "x">>, none, FALSE, <<>>),
    File("other", "/m", <<"a", "z">>, none, FALSE, <<>>),
    File("playlist", "/m", <<"a", "l">>, none, TRUE,
         <<Line("/m", <<"a", "x">>), Url("u"), Line("/m", <<"a", "b", "x">>), Url("u"), Line("/m", <<"a", "q">>)>>),
    File("playlist", "/n", <<"l">>, none, FALSE, <<Line("/m", <<"a", "x">>), Line("/m", <<"a", "y">>), Line("/m", <<"a", "b">>)>>)
    }

MCRadios == <<"r1", "r2">>

-----------------------------------------------------------------------------
\* UprclTags: an album in two disc folders and their parent, and one elsewhere.
Folders == {"a", "a1", "a2", "b1"}
Parent == [a |-> "top", a1 |-> "a", a2 |-> "a", b1 |-> "b"]
FolderName == [a |-> "a", a1 |-> "cd1", a2 |-> "cd2", b1 |-> "cd"]
FolderDisc == [a |-> -1, a1 |-> 1, a2 |-> 2, b1 |-> -1]

Song(folder, album, titledisc, disc, albumartist, artists, genres, trackno) ==
    [folder |-> folder, album |-> album, titledisc |-> titledisc, disc |-> disc,
     albumartist |-> albumartist, tags |-> [Artist |-> artists, Genre |-> genres], trackno |-> trackno]

TrackDocs == {
    Song("a1", "X", -1, -1, "", {"p"}, {"g"}, 1),
    Song("a1", "X", -1, 1, "", {"p", "q"}, {"g", "h"}, 2),
    Song("a2", "X", -1, 2, "", {"p"}, {}, 1),
    Song("a2", "X", 2, -1, "", {"q"}, {"h"}, 0),
    Song("a", "X", 3, 1, "", {"p"}, {"g"}, 0),
    Song("a", "X", -1, -1, "", {"p"}, {"g"}, 2),
    Song("b1", "X", -1, 2, "p", {"q"}, {"h"}, 1),
    Song("a", "", -1, 0, "", {}, {"g"}, 3)
    }

T == INSTANCE UprclTags WITH todo <- step, MaxTracks <- 4, IndexTags <- {"Artist", "Genre"},
                             VariousArtists <- "Various Artists", SliceFrom <- 3

-----------------------------------------------------------------------------
\* UprclTagView: two folders.
V == INSTANCE UprclTagView WITH Views <- {"a", "b1"}, HideTime <- 2, MaxTime <- 5, MaxHides <- 4

-----------------------------------------------------------------------------
\* UprclSearch: files with and without a title, an album in two folders, a directory, an image, and
\* what the tag tree adds for an album.
Rel(field, oper, value) == [field |-> field, oper |-> oper, value |-> value]
Relations == {
    Rel("dc:title", "contains", << <<"blue">> >>),
    Rel("dc:title", "contains", << <<"red", "blue">> >>),
    Rel("dc:title", "doesnotcontain", << <<"blue">> >>),
    Rel("upnp:artist", "=", << <<"ann">>, <<"bob">> >>),
    Rel("upnp:artist", "exists", <<>>),
    Rel("upnp:class", "derivedfrom", << <<"object.container.album.musicAlbum">> >>),
    Rel("upnp:class", "derivedfrom", << <<"object.item.audioItem">> >>)}
AndOr == {"and", "or"}
Criteria ==
    {[form |-> "all"]} \cup {[form |-> "one", a |-> r] : r \in Relations}
    \cup {[form |-> "group", a |-> r, op |-> op, b |-> q] : r, q \in Relations, op \in AndOr}
    \cup {[form |-> f, a |-> r, op |-> op, b |-> q, op2 |-> op2, c |-> CHOOSE x \in Relations : x.oper = "="] :
             f \in {"left", "flat"}, r, q \in Relations, op, op2 \in AndOr}

Entry(id, made, mime, title, filename, artist, albumartist, album, folder, track) ==
    [id |-> id, made |-> made, mime |-> <<mime>>, title |-> title, filename |-> filename, artist |-> artist,
     albumartist |-> albumartist, album |-> album, folder |-> folder, track |-> track]
Index == {
    Entry(1, FALSE, "audio", <<"red", "blue">>, <<"x">>, <<"ann">>, <<>>, <<"al">>, "f1", <<10, 12>>),
    Entry(2, FALSE, "audio", <<>>, <<"blue">>, <<"bob", "ann">>, <<>>, <<"al">>, "f1", <<9>>),
    Entry(3, FALSE, "audio", <<"blue", "red">>, <<"y">>, <<>>, <<"bob", "ann">>, <<"al">>, "f2", <<1>>),
    Entry(4, FALSE, "inode/directory", <<>>, <<"blue">>, <<>>, <<>>, <<>>, "f1", <<>>),
    Entry(5, FALSE, "image", <<"red">>, <<"x">>, <<>>, <<>>, <<>>, "f2", <<>>),
    Entry(6, TRUE, "inode/directory", <<"Al">>, <<>>, <<"ann", "bob">>, <<>>, <<>>, "", <<>>)}

Alphabet == <<"", "Al", "al", "ann", "blue", "bob", "f1", "f2", "red", "x", "y">>
Rank == [w \in Range(Alphabet) |-> CHOOSE i \in DOMAIN Alphabet : Alphabet[i] = w]
FolderOf == [root |-> {"", "f1", "f2"}, sub |-> {"f2"}]

S == INSTANCE UprclSearch WITH
       upnp2rclfields <- ("dc:title" :> "title" @@ "upnp:artist" :> "artist"),
       audiomtypes <- {"audio", "inode/directory"},
       ContainerClasses <- {"object.container.album.musicAlbum"}, ItemClasses <- {"object.item.audioItem"}, TagEntries <- {6},
       lower <- [w \in Range(Alphabet) |-> IF w = "Al" THEN "al" ELSE w]

-----------------------------------------------------------------------------
MCInit ==
    /\ part \in {"lists", "tags", "view", "search"}
    /\ Init /\ (part # "lists" => rcldocs = <<>>)
    /\ IF part = "tags" THEN T!Init ELSE docs = <<>> /\ tracks = <<>> /\ albums = <<>> /\ step = 0
    /\ IF part = "search" THEN S!SearchInit ELSE S!SearchOff
    /\ IF part = "view" THEN V!ViewInit ELSE V!ViewOff

MCNext ==
    \/ part = "lists" /\ Next /\ UNCHANGED <<part, tagvars, searchvars, viewvars>>
    \/ part = "tags" /\ T!Next /\ UNCHANGED <<part, vars, searchvars, viewvars>>
    \/ part = "search" /\ S!Search /\ UNCHANGED <<part, vars, tagvars, viewvars>>
    \/ part = "view" /\ V!ViewNext /\ UNCHANGED <<part, vars, tagvars, searchvars>>

MCSpec == MCInit /\ [][MCNext]_<<part, vars, tagvars, searchvars, viewvars>>

\* The folder tree leads to the tracks, and its identifiers back to it (uprclfolders.py:215-346, 404-665).
FoldersLeadToTracks == TracksListed /\ FolderIdsResolve

\* What the playlists section shows is found again and is what the folder tree shows
\* (uprclplaylists.py:98-171, uprclfolders.py:186-212).
PlaylistsAgree == PlaylistIdsResolve /\ PlaylistViewsAgree

\* The albums which tracks and searches refer to are listed and share out the tracks, each with its discs one after the other and with track
\* numbers which increase (uprcltagscreate.py:494-561, uprcltags.py:193-279).
AlbumsShareTracks == part = "tags" => T!AlbumsShareTracks /\ T!MergedInOrder /\ T!AlbumsAreListed

\* Below a tag value its tracks can be reached, and no other; the list of all items can be read in
\* slices; the root counts what its pages show; and the tag view of a folder is only hidden for two
\* seconds (uprcltags.py:77-177, 238-322, 361-645).
SelectionReached ==
    /\ part = "tags" => T!SelectionReached /\ T!SlicesAddUp /\ T!RootCountsPages
    /\ part = "view" => V!HiddenForAWhile

\* A search finds what the criteria mean, and its answer keeps albums together and in order
\* (uprclsearch.py:130-351, uprclutils.py:396-463).
SearchAnswered == S!FindsWhatIsMeant /\ S!AlbumsTogether
=============================================================================
