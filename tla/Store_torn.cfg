CONSTANTS
    RegionChunk = {c1, c2}
    MaxSectors = 7
    MaxSaves = 4
    SectorLimit = 3
    Torn = TRUE
    Unread = Unread
SPECIFICATION TornSpec
PROPERTY OpenKeepsTable
