SPECIFICATION LiveSpec
CONSTANTS
    NSECT = 2
    PioCapacity = 5
    Chunk = 4
    Align = 2
    Wrap = 10
    Tiny = 2
    SectorTypes = {2, 3}
    Sectors = {1, 3}
    Replies = {0, 1, 4}
    Lens = {0, 2, 6}
    PacketWords = 2
    MaxStops = 1
    Word = 64
INVARIANTS  NoSectorLost
PROPERTIES HostServed
