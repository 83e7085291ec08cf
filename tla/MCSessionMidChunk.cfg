\* An ordinary session whose chunks may cross a column: the accumulator of the
\* second column cannot be allocated once.
CONSTANTS
    AgeStep = 1
    MaxSkips = 2
    MaxPriority = 3
    MaxPush = 3
    NoFocus = no_focus
    Pull = FALSE
    Workspace = FALSE
    Bounded = {FALSE}
    TrackFrames = 4
    FramesPerColumn = 2
    ProcessChunk = 2
    InitialCapacity = 1
    MaxRequests = 0
    MaxFailures = 1
    Regions <- NoRegions
    Foci <- NoFoci
SPECIFICATION Spec
INVARIANTS
    PublishedIsCovered
