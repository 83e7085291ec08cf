\* An ordinary session, a workspace session and the application under one limit
\* that does not hold all they want; the sizes are those of a 64-bit build.
SPECIFICATION Spec
CONSTANTS
    h = h
    w = w
    app = app
    Sessions = {h, w}
    Arena = w
    Application = app
    Watched = {h}
    Limit = 14000
    SessionBytes = 4000
    ResultBytes = 1000
    ColumnBytes = 12
    SpanBytes = 64
    MetadataSizes = {5884}
    Snapshots <- MCSnapshots
    Blocks = {4096}
    Nodes = {"pcm1", "pcm2"}
    BlockHeader = 32
    Prefix = 32
    Alignment = 16
    AccumulatorBytes = 32
    BandBytes = 12
    RangeBytes = 16
    NodeBytes = 24
    SampleBytes = 4
    MetadataBytes = 8192
    MaxPushFrames = 4096
    FirstAccumulators = 16
    FirstRanges = 8
    ChargedRanges = 16
    ColumnFrames = 64
    TrackFrames = 4160
INVARIANTS
    LimitIsKept
    BytesAreAccounted
    MetadataIsPublished
    
