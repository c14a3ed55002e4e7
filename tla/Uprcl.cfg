SPECIFICATION MCSpec
CONSTANTS
    none = none
    NoGroup = none
    TopDirs <- MCTopDirs
    NamePrefix <- MCNamePrefix
    Library <- MCLibrary
    MaxDocs = 4
    Radios <- MCRadios
CHECK_DEADLOCK FALSE
INVARIANTS FoldersLeadToTracks PlaylistsAgree AlbumsShareTracks SelectionReached SearchAnswered
