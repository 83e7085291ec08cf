\* A host that gives every process call one step, and pushes the whole source.
CONSTANTS
    TrackFrames = 3
    OnsetFrames = 1
    OnsetCapacity = 2
    GlobalFrames = 2
    GlobalCapacity = 2
    MinBins = 1
    StableBins = 2
    MinNewBins = 1
    GlobalMinNewBins = 1
    GlobalMinBins = 1
    WindowBins = 2
    LagGroups = 1
    Lag = 1
    Tempos = {"slow"}
    Budgets = {1}
    Sustained = {1}
    Foci <- NoWindows
    NoFocus = no_focus
    LockRanges <- NoWindows
    Backward = FALSE
    Skips = {}
    Gaps = FALSE
    MaxFailures = 0
SPECIFICATION FairSpec
PROPERTIES
    DrainedCompletes
CHECK_DEADLOCK FALSE
