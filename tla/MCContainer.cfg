\* Containers of 72 results, up to two changes made to each, three limits.
CONSTANTS
    FramesPerColumn = 4
    DetailFrames = 2
    TileColumns = 2
    SizeOf <- StructureSizes
    Unknown = Unknown
    None = None
    Results <- SavedResults
    Limits = {1100, 1600, 9000}
    MaxEdits = 2

SPECIFICATION Spec

INVARIANTS
    ValidIsRead
    ReadIsWritable
    CompletedIsFinal
    NothingLeaks
    AllocationIsBounded
