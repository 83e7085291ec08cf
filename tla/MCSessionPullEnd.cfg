\* A pull session with one region request and no failure at all.
CONSTANTS
    AgeStep = 1
    MaxSkips = 2
    MaxPriority = 3
    MaxPush = 3
    NoFocus = no_focus
    Pull = TRUE
    Workspace = TRUE
    Bounded = {TRUE}
    TrackFrames = 4
    FramesPerColumn = 2
    ProcessChunk = 2
    InitialCapacity = 1
    MaxRequests = 1
    MaxFailures = 0
    Regions <- TwoRegions
    Foci <- NoFoci
SPECIFICATION Spec
PROPERTIES
    PullDrainsWhenAllAccepted
