\* A push session in a static workspace, with bounded result slots and a known
\* length, or with results on the heap and a length known or told by the end of
\* input: blocks in any order and size, any budget, a cancellation at any moment,
\* and two failures.
CONSTANTS
    AgeStep = 1
    MaxSkips = 2
    MaxPriority = 3
    MaxPush = 3
    NoFocus = no_focus
    Pull = FALSE
    Workspace = TRUE
    Bounded = {TRUE, FALSE}
    TrackFrames = 4
    FramesPerColumn = 2
    ProcessChunk = 2
    InitialCapacity = 1
    MaxRequests = 0
    MaxFailures = 2
    Regions <- NoRegions
    Foci <- NoFoci
SPECIFICATION FairSpec
INVARIANTS
    TypeOK
    FramesCountedOnce
    PublishedIsCovered
    ResultMatchesState
    CompletedIsWhole
    RetryIsArmed
    EndIsAgreed
PROPERTIES
    TerminalIsFinal
    ColumnsAreDelivered
