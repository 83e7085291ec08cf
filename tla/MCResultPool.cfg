\* The shipped configuration: two slots, and two readers that contend for them.
\* Calls that have begun, and releases of what is held, are fair.  The run stops
\* when the session is closed and everything is released.
CONSTANTS
    Readers = {r1, r2}
    Host = host
    NoThread = nobody
    SlotCount = 2
    MaxGeneration = 4
SPECIFICATION FairSpec
INVARIANTS
    TypeOK
    ReferencesAreCounted
    SlotExclusive
    NoTornSnapshot
    PoolReferencesAreCounted
    NoUseAfterFree
    NothingLeaks
PROPERTIES
    ReadersSeeGenerationsInOrder
    HeldIsImmutable
    ImplementsPublication
    PoolIsReclaimed
CHECK_DEADLOCK FALSE
