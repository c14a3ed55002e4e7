----------------------------- MODULE UprclLists -----------------------------
(***************************************************************************)
(* The [untagged] and playlists sections of the Uprcl media server         *)
(* (uprcluntagged.py, uprclplaylists.py), which select documents of        *)
(* UprclFolders.  An object id is an index, or a pair of indexes for an    *)
(* entry of a playlist.                                                    *)
(***************************************************************************)
EXTENDS UprclFolders

CONSTANT Radios  \* the sequence of the radios of the configuration

DocIndexes(Test(_)) == SelectSeq([k \in 1..Len(rcldocs) |-> k - 1], LAMBDA i : Test(Doc(i)))

\* Index 0 is the section itself, in both vectors.
utidx == <<-1>> \o DocIndexes(LAMBDA d : d.type \notin {Dir, Playlist} /\ ~d.title)
pldocsidx == <<-1>> \o DocIndexes(LAMBDA d : d.type = Playlist)

\* The entries of the untagged section: pairs of an index and a document.
UntaggedChildren ==
    {<<k, utidx[k + 1]>> : k \in {j \in 1..Len(utidx) - 1 : HasEntry(utidx[j + 1])}}

UntaggedMeta(k) ==
    IF k >= Len(utidx) THEN Raises ELSE {<<k, utidx[k + 1]>>}

\* _playlistatidx(): the lines which are urls or files of the library, in order.
_playlistatidx(k) ==
    LET docof(line) == IF line.url THEN Len(rcldocs) ELSE statpath(dirvec, line.top, line.path)
        entry(line) == [url |-> line.url, doc |-> docof(line), name |-> IF line.url THEN line.name ELSE Last(line.path)]
        lines == Doc(pldocsidx[k + 1]).m3u
    IN  SelectSeq([i \in DOMAIN lines |-> entry(lines[i])],
                  LAMBDA e : e.url \/ (e.doc > 0 /\ HasEntry(e.doc)))

RadioList == Len(pldocsidx)

\* browse() of the children: playlists by index, the radio list beyond them.
PlaylistsChildren(k) ==
    IF k = 0 THEN {<<i, -1>> : i \in 1..RadioList}
    ELSE IF k = RadioList THEN {<<k, i>> : i \in 0..Len(Radios) - 1}
    ELSE IF k > RadioList THEN Raises
    ELSE {<<k, i>> : i \in 0..Len(_playlistatidx(k)) - 1}

\* browse() of the metadata; the call for the section itself has one argument too
\* many.
PlaylistsMeta(k, i) ==
    IF k = 0 \/ k > RadioList THEN Raises
    ELSE IF i = -1 THEN {<<k, -1>>}
    ELSE IF k < RadioList
    THEN IF i < Len(_playlistatidx(k)) THEN {<<k, i>>} ELSE {}
    ELSE IF i > 0 /\ i < Len(Radios) THEN {<<k, i>>} ELSE {}

\* rootentries(): the number in the title of the section.
PlaylistsTitle == Len(pldocsidx)

\* The number of playlists which the root container shows is the number of entries
\* in the section, and each of these, and of their entries but the radios, is found
\* again by its id (uprclplaylists.py 40-43, 130-171).
PlaylistIdsResolve ==
    Built =>
        /\ \A x \in UntaggedChildren : UntaggedMeta(x[1]) = {x}
        /\ PlaylistsTitle = Cardinality(PlaylistsChildren(0))
        /\ \A e \in PlaylistsChildren(0) :
             /\ PlaylistsMeta(e[1], -1) = {e}
             /\ e[1] # RadioList => \A x \in PlaylistsChildren(e[1]) : PlaylistsMeta(x[1], x[2]) = {x}

\* The two views of a playlist agree: what the folder tree lists in the directory
\* of a playlist is what the playlists section lists, where later lines replace
\* earlier ones with the same name (uprclfolders.py 186-212, uprclplaylists.py 98-125).
PlaylistViewsAgree ==
    Built => \A k \in 1..Len(pldocsidx) - 1 :
        LET dirs == {p \in Range(playlists) : dirvec[p][Here][2] = pldocsidx[k + 1]}
            lines == _playlistatidx(k)
            last(e) == CHOOSE i \in DOMAIN lines : lines[i].name = e.name
                         /\ \A j \in DOMAIN lines : lines[j].name = e.name => j <= i
            items(p) == {id[2] : id \in {x \in BrowseDir(<<"d", p>>) : x[1] = "i"}}
        IN  \A p \in dirs :
              items(p) = {} \/
              {i \in items(p) : i < Len(rcldocs)} =
                {lines[last(e)].doc : e \in {x \in Range(lines) : ~lines[last(x)].url}}
=============================================================================
