\* A lock on a source that fits both rings, and a conflicting global grid whose
\* revision nobody applies before the session is completed.
CONSTANTS
    TrackFrames = 4
    OnsetFrames = 2
    OnsetCapacity = 2
    GlobalFrames = 2
    GlobalCapacity = 2
    MinBins = 1
    StableBins = 2
    MinNewBins = 1
    GlobalMinNewBins = 1
    GlobalMinBins = 1
    WindowBins = 2
    LagGroups = 1
    Lag = 1
    Tempos = {"slow"}
    Budgets = {0}
    Sustained = {0}
    Foci <- NoWindows
    NoFocus = no_focus
    LockRanges <- OneLock
    Backward = FALSE
    Skips = {}
    Gaps = FALSE
    MaxFailures = 0
SPECIFICATION Spec
INVARIANTS
    FinalIsNotPending
CHECK_DEADLOCK FALSE
