---------------------------- MODULE UprclFolders ----------------------------
(***************************************************************************)
(* The [folders] tree of the Uprcl media server (uprclfolders.py), built   *)
(* from the documents of the Recoll index in whatever order the query      *)
(* returns them, and the way it is browsed.                                *)
(*                                                                         *)
(* A document is a record: its type, the top directory it is in, its path  *)
(* below it, its Group field (NoGroup if empty), whether it has a title    *)
(* and, for a playlist file, its lines in m3u.  A directory of the tree is a function from names to  *)
(* pairs <<diridx, docidx>>, indexed from 0 as in the code.                *)
(***************************************************************************)
EXTENDS Naturals, Integers, SequencesExt, FiniteSets, TLC

CONSTANTS
    TopDirs,     \* the sequence of the top directories (topdirs)
    NamePrefix,  \* the pairs <<t, u>> of them where the path of t is a prefix of the string u
    Library,     \* the documents which may be indexed
    MaxDocs,     \* bound: documents in one index
    NoGroup

ASSUME TopDirsAssumption == IsInjective(TopDirs) /\ MaxDocs \in Nat

Dir == "dir"
Playlist == "playlist"
Track == "track"
audiomtypes == {Dir, Playlist, Track}

VARIABLES
    rcldocs,    \* _rcldocs
    dirvec,     \* _dirvec
    playlists,  \* _playlists
    moredocs,   \* _moredocs: the titles of the synthetic documents
    todo        \* the loop of _rcl2folders(), then of _initplaylists()

vars == <<rcldocs, dirvec, playlists, moredocs, todo>>

Up == ".."
Here == "."

----------------------------------------------------------------------------
(* Directories.                                                             *)

Count(dv) == Cardinality(DOMAIN dv)

\* A Python index: -1 is the last element.
PyIdx(dv, i) == IF i = -1 THEN Count(dv) - 1 ELSE i
At(dv, i) == dv[PyIdx(dv, i)]
Enter(dv, i, name, pair) == [dv EXCEPT ![PyIdx(dv, i)] = (name :> pair) @@ @]

_createdir(dv, father, docidx, name) ==
    LET me == Count(dv)
    IN  Enter(dv, father, name, <<me, docidx>>)
          @@ (me :> (Up :> <<father, -1>> @@ Here :> <<me, docidx>>))

----------------------------------------------------------------------------
(* _pathbeyondtopdirs(): the first top directory whose path is a prefix of  *)
(* that of the document, then the rest of the path, with the group as a     *)
(* virtual directory.  If the prefix is not a whole name the split drops    *)
(* what is left of the name.                                                *)

Under(top, doc) == top = doc.top \/ <<top, doc.top>> \in NamePrefix

Grouped(doc) ==
    IF doc.group = NoGroup THEN doc.path
    ELSE Front(doc.path) \o <<doc.group, Last(doc.path)>>

\* The place in the tree: a directory index, 0 if there is none, and names.
_pathbeyondtopdirs(doc) ==
    LET tops == {i \in DOMAIN TopDirs : Under(TopDirs[i], doc)}
        first == CHOOSE i \in tops : \A j \in tops : i <= j
    IN  IF tops = {} \/ (doc.path = <<>> /\ doc.top = TopDirs[first]) THEN <<0, <<>>>>
        ELSE <<first, IF doc.path = <<>> THEN <<>> ELSE Grouped(doc)>>

\* _stat(): walk down to the entry, <<-1, -1>> if a name is missing.
_stat(dv, doc) ==
    LET place == _pathbeyondtopdirs(doc)
        step(pair, name) ==
            IF pair # <<-2, -2>> /\ name \in DOMAIN At(dv, pair[1])
            THEN At(dv, pair[1])[name] ELSE <<-2, -2>>
        found == FoldLeft(step, <<place[1], -1>>, place[2])
    IN  IF place[1] = 0 \/ found = <<-2, -2>> THEN <<-1, -1>> ELSE found

\* statpath(): the lookup is that of a document which has no group field.
statpath(dv, top, path) ==
    LET pair == _stat(dv, [type |-> "other", top |-> top, path |-> path, group |-> NoGroup, title |-> FALSE, m3u |-> <<>>])
    IN  IF pair[2] \in 0..Len(rcldocs) - 1 THEN pair[2] ELSE -1

Doc(i) == rcldocs[i + 1]

----------------------------------------------------------------------------
(* Construction.                                                            *)

\* _fetchalldocs() returns the documents in any order.  Entry 0 is for the top
\* directories, which have no "." entry.
Init ==
    /\ rcldocs \in {s \in SeqOf(Library, MaxDocs) : IsInjective(s)}
    /\ dirvec = 0 :> (Up :> <<0, -1>> @@ [t \in Range(TopDirs) |->
                         <<CHOOSE i \in DOMAIN TopDirs : TopDirs[i] = t, -1>>])
                @@ [i \in DOMAIN TopDirs |-> Up :> <<0, -1>>]
    /\ playlists = <<>>
    /\ moredocs = <<>>
    /\ todo = 0

\* Mutant: a directory which comes after its content is created again.
KnownInner(here, name, last) == name \in DOMAIN here /\ ~last
Known(here, name, last) == name \in DOMAIN here

\* One name of the path of document docidx.
PlaceName(docidx, acc, name, last) ==
    LET type == Doc(docidx).type
        here == At(acc.dv, acc.dir)
        new == Count(acc.dv)
    IN  IF Known(here, name, last)
        THEN [acc EXCEPT !.dir = here[name][1],
                         !.dv = IF last THEN Enter(@, acc.dir, name, <<here[name][1], docidx>>) ELSE @]
        ELSE IF last /\ type = Track
        THEN [acc EXCEPT !.dv = Enter(@, acc.dir, name, <<-1, docidx>>)]
        ELSE [dv |-> _createdir(acc.dv, acc.dir, IF last THEN docidx ELSE -1, name),
              dir |-> new,
              pl |-> IF last /\ type = Playlist THEN Append(acc.pl, new) ELSE acc.pl]

\* The body of the main loop of _rcl2folders().
AddDoc ==
    /\ todo < Len(rcldocs)
    /\ LET place == _pathbeyondtopdirs(Doc(todo))
           path == place[2]
           step(acc, i) == PlaceName(todo, acc, path[i], i = Len(path))
           end == FoldLeft(step, [dv |-> dirvec, dir |-> place[1], pl |-> playlists],
                           [i \in DOMAIN path |-> i])
       IN  IF Doc(todo).type \in audiomtypes /\ place[1] # 0
           THEN dirvec' = end.dv /\ playlists' = end.pl
           ELSE UNCHANGED <<dirvec, playlists>>
    /\ todo' = todo + 1
    /\ UNCHANGED <<rcldocs, moredocs>>

\* Document 0 counts as not found.
\* Mutant: it does not.
LineFoundZero(docidx) == docidx >= 0
LineFound(docidx) == docidx > 0

\* One line of a playlist: a url becomes a synthetic document, a file is looked up
\* in the tree.
PlaceLine(pl, acc, line) ==
    IF line.url
    THEN [dv |-> Enter(acc.dv, pl, line.name, <<-1, Len(rcldocs) + Len(acc.more)>>),
          more |-> Append(acc.more, line.name)]
    ELSE LET docidx == statpath(acc.dv, line.top, line.path)
         IN  IF LineFound(docidx)
             THEN [acc EXCEPT !.dv = Enter(@, pl, Last(line.path), <<-1, docidx>>)]
             ELSE acc

\* The body of the loop of _initplaylists(); a file which cannot be read is skipped.
_initplaylists ==
    /\ todo \in Len(rcldocs)..Len(rcldocs) + Len(playlists) - 1
    /\ LET pl == playlists[todo - Len(rcldocs) + 1]
           step(acc, line) == PlaceLine(pl, acc, line)
           end == FoldLeft(step, [dv |-> dirvec, more |-> moredocs], Doc(dirvec[pl][Here][2]).m3u)
       IN  \/ dirvec' = end.dv /\ moredocs' = end.more
           \/ UNCHANGED <<dirvec, moredocs>>
    /\ todo' = todo + 1
    /\ UNCHANGED <<rcldocs, playlists>>

Built == todo = Len(rcldocs) + Len(playlists)

Next == AddDoc \/ _initplaylists

Spec == Init /\ [][Next]_vars

----------------------------------------------------------------------------
(* Browsing.  An object id is a pair <<kind, index>> of the kinds "d" and   *)
(* "i", or <<"tagview", index>>; an answer is a set of object ids, or       *)
(* Raises.                                                                  *)

Raises == {<<"raises", -1>>}

\* _objidtoidx() refuses what is beyond the arrays.
_objidtoidx(id) ==
    /\ rcldocs # <<>>
    /\ id[2] < IF id[1] = "i" THEN Len(rcldocs) ELSE Count(dirvec)

\* _docforidx(), and rcldoctoentry(), which returns nothing for other mime types.
HasEntry(docidx) == docidx >= Len(rcldocs) \/ Doc(docidx).type \in audiomtypes

\* browse() of the children of a directory: the entries of root if there is more
\* than one top directory, else those of the only one.
BrowseDir(id) ==
    LET idx == IF id[2] = 0 /\ Cardinality(DOMAIN dirvec[0]) = 2 THEN 1 ELSE id[2]
        names == DOMAIN dirvec[idx] \ {Up, Here}
        entry(name) == dirvec[idx][name]
        dirs == {n \in names : entry(n)[1] >= 0 /\ Cardinality(DOMAIN dirvec[entry(n)[1]]) # 1}
        items == {n \in names : entry(n)[1] < 0 /\ entry(n)[2] # -1 /\ HasEntry(entry(n)[2])}
    IN  IF ~_objidtoidx(id) THEN Raises
        ELSE {<<"d", entry(n)[1]>> : n \in dirs} \cup {<<"i", entry(n)[2]>> : n \in items}
             \cup IF id[2] = 0 THEN {} ELSE {<<"tagview", id[2]>>}

\* _browsemeta().
BrowseMeta(id) == IF id[1] = "i" /\ _objidtoidx(id) THEN {id} ELSE Raises

\* dirpath(): up from a directory to the top, collecting names.
dirpath(d) ==
    LET up(i) == dirvec[i][Up][1]
        names(i) == {n \in DOMAIN dirvec[up(i)] : dirvec[up(i)][n][1] = i}
        step(acc, k) ==
            IF acc.dir = 0 \/ names(acc.dir) = {} THEN [acc EXCEPT !.dir = 0]
            ELSE [dir |-> up(acc.dir), path |-> <<CHOOSE n \in names(acc.dir) : TRUE>> \o acc.path]
    IN  FoldLeft(step, [dir |-> d, path |-> <<>>], [k \in 1..Count(dirvec) |-> k]).path

\* objidfordoc(): the object id of a directory found by a search.
objidfordoc(doc) == <<"d", _stat(dirvec, doc)[1]>>

----------------------------------------------------------------------------
(* Properties.                                                              *)

Dirs == DOMAIN dirvec

TypeOK ==
    /\ Dirs = 0..Count(dirvec) - 1
    /\ \A d \in Dirs : \A n \in DOMAIN dirvec[d] :
         dirvec[d][n] \in (Dirs \cup {-1}) \X (-1..Len(rcldocs) + Len(moredocs) - 1)
    /\ Range(playlists) \subseteq Dirs
    /\ todo \in 0..MaxDocs + Len(playlists)

\* What a control point reaches by browsing children, from the root of the tree.
SubDirs(dirs) == {id[2] : id \in {x \in UNION {BrowseDir(<<"d", d>>) : d \in dirs} : x[1] = "d"}}
BelowDirs(dirs) == FoldLeft(LAMBDA seen, k : seen \cup SubDirs(seen), dirs, [k \in 1..Count(dirvec) |-> k])

Listed == {id[2] : id \in {x \in UNION {BrowseDir(<<"d", d>>) : d \in BelowDirs({0})} : x[1] = "i"}}

SamePlace(i, j) == _pathbeyondtopdirs(Doc(i)) = _pathbeyondtopdirs(Doc(j))

\* No earlier top directory takes the documents of the one in which document i is.
OwnPlace(i) ==
    \A k, l \in DOMAIN TopDirs :
        TopDirs[l] = Doc(i).top /\ <<TopDirs[k], TopDirs[l]>> \in NamePrefix => k > l

\* When the tree is built every track can be reached in it, below the top directory which it is in if
\* no earlier one has a path which is a prefix of that one's, whatever the order of the documents, if
\* no other document has the same place (uprclfolders.py 215-346).
TracksListed ==
    Built => \A i \in 0..Len(rcldocs) - 1 :
        Doc(i).type = Track /\ (\A j \in 0..Len(rcldocs) - 1 : SamePlace(i, j) => i = j)
          => \E d \in BelowDirs({0}) \ {0} :
                /\ <<"i", i>> \in BrowseDir(<<"d", d>>)
                /\ OwnPlace(i) => dirpath(d)[1] = Doc(i).top

\* "We look with what topdir path this doc belongs to" (uprclfolders.py 215-218): all of them are below
\* their own top directory, and a track is never hidden by one of another top directory.  The code
\* does not have this property: the path of /m is a prefix of the string /m2/x too.
TracksInTheirTopDir ==
    Built => \A i \in 0..Len(rcldocs) - 1 :
        Doc(i).type = Track /\ (\A j \in 0..Len(rcldocs) - 1 :
            Doc(i).top = Doc(j).top /\ SamePlace(i, j) => i = j)
          => \E d \in BelowDirs({0}) \ {0} :
                <<"i", i>> \in BrowseDir(<<"d", d>>) /\ dirpath(d)[1] = Doc(i).top

\* The identifiers of folders and items are found again: the names which dirpath() collects, to which a
\* search or a tag view below a folder is restricted, lead from the top to the folder; a search finds
\* the folder of a directory; and the listed documents have metadata, which what the lines with a url
\* add has not (uprclfolders.py 404-440, 483-497, 572-665).
FolderIdsResolve ==
    Built =>
        /\ \A d \in Dirs \ {0} :
             LET down(i, name) == IF i \in Dirs /\ name \in DOMAIN dirvec[i] THEN dirvec[i][name][1] ELSE -1
             IN  FoldLeft(down, 0, dirpath(d)) = d
        /\ \A i \in 0..Len(rcldocs) - 1 :
             Doc(i).type = Dir /\ (\A j \in 0..Len(rcldocs) - 1 : SamePlace(i, j) => i = j)
               => LET d == objidfordoc(Doc(i))[2] IN <<d, i>> \in Range(dirvec[dirvec[d][Up][1]])
        /\ \A i \in Listed : (BrowseMeta(<<"i", i>>) # Raises) = (i < Len(rcldocs))

\* "Skip empty directories" (uprclfolders.py 535): a directory which is listed has
\* something to show.  The code does not have this property: a directory is skipped only when it has
\* nothing at all, and one with empty directories has something.
EmptyDirsSkipped ==
    Built => \A d \in BelowDirs({0}) \ {0} :
        BrowseDir(<<"d", d>>) \ {<<"tagview", d>>} # {}

=============================================================================
