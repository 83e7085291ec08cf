\* A track of 13 frames in tiles of six, two tile slots, one detail request with
\* a focus, blocks in any order and again, and one failed publication.
SPECIFICATION Spec
CONSTANTS
    AgeStep = 1
    MaxSkips = 0
    MaxPriority = 3
    MaxPush = 4
    NoFocus = NoFocus
    TrackFrames = 13
    FramesPerColumn = 2
    ColumnsPerTile = 3
    MaxTiles = 2
    Blocks <- CacheBlocks
    Regions <- CacheRegions
    Foci <- CacheFoci
    MaxRequests = 1
    MaxFailures = 1
INVARIANTS
    TypeOK
    ShownIsHeard
    PublishedIsCurrent
PROPERTIES
    ShownIsKept
