\* A ring of two bins under a source of three, out of order, with a focus and
\* a lock, a frame the rings may never hear, one failed publication, and process
\* calls without a step limit, again and again, or with a limit of one step.
CONSTANTS
    TrackFrames = 5
    OnsetFrames = 2
    OnsetCapacity = 2
    GlobalFrames = 2
    GlobalCapacity = 2
    MinBins = 2
    StableBins = 2
    MinNewBins = 2
    GlobalMinNewBins = 1
    GlobalMinBins = 1
    WindowBins = 1
    LagGroups = 1
    Lag = 1
    Tempos = {"slow"}
    Budgets = {0, 1}
    Sustained = {0}
    Foci <- OneFocus
    NoFocus = no_focus
    LockRanges <- OneLock
    Backward = FALSE
    Skips = {4}
    Gaps = FALSE
    MaxFailures = 1
SPECIFICATION FairSpec
INVARIANTS
    EvidenceIsComplete
    FollowsOnce
    ShownIsCurrent

    
CHECK_DEADLOCK FALSE
