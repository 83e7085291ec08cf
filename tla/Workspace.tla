-------------------------------- MODULE Workspace --------------------------------
(***************************************************************************)
(* The arena of a session that lives in a caller-owned static workspace: a *)
(* list of blocks, allocated first fit with splitting and released with    *)
(* coalescing, and the requirement that apta_session_create enforces for   *)
(* it.  All sizes are bytes; a block is the record of its capacity and of  *)
(* the object it holds.  The size_t overflow checks of the code return     *)
(* SIZE_MAX, which create refuses: no number of this module comes near it. *)
(***************************************************************************)
EXTENDS Integers, Sequences

CONSTANTS
    BlockHeader,       \* sizeof(apta_internal_workspace_block_t)
    Prefix,            \* apta_workspace_payload_prefix_size()
    Alignment,         \* APTA_INTERNAL_MAX_ALIGNMENT
    AccumulatorBytes,  \* sizeof(apta_internal_waveform_accumulator_t)
    BandBytes,         \* band sums of a column, 0 without the 3-band feature
    RangeBytes,        \* sizeof(apta_internal_range_t)
    NodeBytes,         \* sizeof(apta_internal_pcm_node_t)
    SampleBytes,       \* sizeof(float)
    MetadataBytes,     \* APTA_METADATA_MAX_TOTAL_BYTES
    MaxPushFrames,     \* APTA_INTERNAL_MAX_PUSH_FRAMES
    FirstAccumulators, \* accumulators of the first array
    FirstRanges,       \* ranges of the first table
    ChargedRanges,     \* APTA_INTERNAL_MAX_REGION_REQUESTS
    ColumnFrames,      \* overview_frames_per_column
    TrackFrames        \* total_frames of the configuration

ASSUME WorkspaceAssumption ==
    /\ {BlockHeader, Prefix, Alignment, AccumulatorBytes, RangeBytes, NodeBytes,
        SampleBytes, MetadataBytes, MaxPushFrames, FirstAccumulators, FirstRanges,
        ChargedRanges, ColumnFrames, TrackFrames} \subseteq Nat \ {0}
    /\ BandBytes \in Nat

AlignUp(n) == ((n + Alignment - 1) \div Alignment) * Alignment

(* What a payload of the given size takes of a block's capacity.           *)
Required(size) == Prefix + AlignUp(IF size = 0 THEN 1 ELSE size)

AllocationCost(size) == BlockHeader + Required(size)

Columns(frames) == (frames + ColumnFrames - 1) \div ColumnFrames

(* The capacity a doubling array with the given capacity (0 when it is not *)
(* there yet) grows to when it has to hold needed entries.                 *)
GrownCapacity(capacity, needed, first) ==
    LET Doubled[k \in 0 .. needed] ==
            IF k = 0 THEN (IF capacity = 0 THEN first ELSE capacity)
            ELSE 2 * Doubled[k - 1]
    IN  Doubled[CHOOSE k \in 0 .. needed :
                   Doubled[k] >= needed /\ \A j \in 0 .. k - 1 : Doubled[j] < needed]

(* A doubling array is charged for every array of the sequence, because    *)
(* each is allocated before the one it replaces is released.               *)
GrowableCost(needed, size, first) ==
    LET Cost[n \in 0 .. needed] ==
            LET capacity == GrownCapacity(0, n, first)
            IN  IF n = 0 THEN 0
                ELSE AllocationCost(capacity * size)
                     + (IF capacity = first THEN 0 ELSE Cost[capacity \div 2])
    IN  Cost[needed]


Requirement ==
    GrowableCost(Columns(TrackFrames), AccumulatorBytes, FirstAccumulators)
    + (IF BandBytes = 0 THEN 0
       ELSE GrowableCost(Columns(TrackFrames), BandBytes, FirstAccumulators))
    + GrowableCost(ChargedRanges, RangeBytes, FirstRanges)
    + AllocationCost(NodeBytes + MaxPushFrames * SampleBytes)
    + AllocationCost(MetadataBytes)
    + BlockHeader + Alignment

---------------------------------------------------------------------------
(* The block list.                                                         *)

Block(capacity, use) == [capacity |-> capacity, use |-> use]
Free(capacity) == Block(capacity, "free")
IsFree(list, k) == k \in DOMAIN list /\ list[k].use = "free"
Holds(list, use) == \E k \in DOMAIN list : list[k].use = use

(* A fresh arena of a workspace of exactly the required size.              *)
FreshArena == <<Free(Requirement - BlockHeader)>>

Fits(list, size) == {k \in DOMAIN list : IsFree(list, k) /\ list[k].capacity >= Required(size)}
CanAllocate(list, size) == Fits(list, size) # {}

(* First fit; what is left over becomes a free block when it could hold    *)
(* one aligned payload, and stays with the allocation otherwise.           *)
Allocate(list, size, use) ==
    LET k == CHOOSE i \in Fits(list, size) : \A j \in Fits(list, size) : i <= j
        rest == list[k].capacity - Required(size)
    IN  SubSeq(list, 1, k - 1)
        \o (IF rest >= BlockHeader + Prefix + Alignment
            THEN <<Block(Required(size), use), Free(rest - BlockHeader)>>
            ELSE <<Block(list[k].capacity, use)>>)
        \o SubSeq(list, k + 1, Len(list))

Rename(list, from, to) ==
    [k \in DOMAIN list |-> IF list[k].use = from THEN Block(list[k].capacity, to) ELSE list[k]]

(* The block of an object becomes free and merges with the free blocks     *)
(* next to it; releasing what is not there does nothing.                   *)
Release(list, use) ==
    LET k == CHOOSE i \in DOMAIN list : list[i].use = use
        from == IF IsFree(list, k - 1) THEN k - 1 ELSE k
        to == IF IsFree(list, k + 1) THEN k + 1 ELSE k
        Merged[i \in from .. to] ==
            IF i = from THEN list[i].capacity
            ELSE Merged[i - 1] + BlockHeader + list[i].capacity
    IN  IF Holds(list, use)
        THEN SubSeq(list, 1, from - 1) \o <<Free(Merged[to])>> \o SubSeq(list, to + 1, Len(list))
        ELSE list

(* A larger array is allocated and filled before the old one is released.  *)
Replace(list, size, use) ==
    Rename(Release(Allocate(list, size, "replacement"), use), "replacement", use)
================================================================================
