CONSTANTS
    RegionChunk = {c1, c2}
    MaxSectors = 7
    MaxSaves = 4
    SectorLimit = 3
    Torn = FALSE
    Unread = Unread
    StoreChunk = {k1}
    MaxEdits = 2
    EntryLimit = 3
    SaveUnchanged = FALSE
    NoData = NoData
    ShortMax = 3
SPECIFICATION StoreMCSpec
INVARIANTS  BlocksAreKept ChestIsKept RoundTrip
PROPERTY ImplementsChunkFile
