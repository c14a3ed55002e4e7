SPECIFICATION Spec
CONSTANTS
    Albums <- MCAlbums
    AlbumOf <- MCAlbumOf
    SongOf <- MCSongOf
    Rank <- MCRank
    NamedIn <- MCNamedIn
    Initials <- MCInitials
    Ordered <- MCOrdered
    RandomPicks <- MCRandomPicks
    Starred <- MCStarred
    Playlists <- MCPlaylists
    Stations <- MCStations
    TopSongs <- MCTopSongs
    SimilarSongs <- MCSimilarSongs
    Similar <- MCSimilar
    Found <- MCFound
    RootTags <- MCRootTags
    NavigableAlbums = TRUE
    PageSize = 2
    MaxOffset = 4
    MaxReturn = 3
INVARIANTS PagesCoverList PagesKeepPromises
PROPERTY BrowseAnswered
