\* An ordinary (heap) session that pulls its PCM under a region request and a
\* focus; the last column is partial, and a region reaches beyond the track.
\* Chunks of one frame never cross a column, so an allocation that fails does so
\* before the chunk has counted a frame.
CONSTANTS
    AgeStep = 1
    MaxSkips = 2
    MaxPriority = 3
    MaxPush = 3
    NoFocus = no_focus
    Pull = TRUE
    Workspace = FALSE
    Bounded = {FALSE}
    TrackFrames = 3
    FramesPerColumn = 2
    ProcessChunk = 1
    InitialCapacity = 1
    MaxRequests = 1
    MaxFailures = 1
    Regions <- TwoRegions
    Foci <- OneFocus
SPECIFICATION FairSpec
INVARIANTS
    SatisfiedIsAnalysed
PROPERTIES
    DrainingEnds
    CancelEnds
