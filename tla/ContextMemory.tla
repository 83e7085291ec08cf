----------------------------- MODULE ContextMemory -----------------------------
(***************************************************************************)
(* The memory of one context, shared by its sessions and by the            *)
(* application: the byte counter with its limit and its compare-exchange   *)
(* loop, heap results that are built from several allocations and rolled   *)
(* back when one fails, session metadata that is replaced only when its    *)
(* publication succeeds, and one session whose own storage is the arena of *)
(* a caller-owned workspace (module Workspace).                            *)
(*                                                                         *)
(* Every session is driven by a thread of its own and the application      *)
(* releases results on another.  An object on the heap is represented by   *)
(* its size and a result by the sizes of its allocations.  A call that     *)
(* allocates is a record: what is still to be allocated, what it has, what *)
(* it has to free, the counter as it was last read.                        *)
(***************************************************************************)
EXTENDS Workspace, FiniteSets, SequencesExt

CONSTANTS
    Sessions,          \* sessions of the context, a thread each
    Arena,             \* the session in a static workspace
    Application,       \* the thread that acquires and releases results
    Watched,           \* the sessions whose results it acquires
    Limit,             \* memory_limit_bytes, 0 for no limit
    SessionBytes,      \* sizeof(apta_session_t)
    ResultBytes,       \* sizeof(apta_result_t)
    ColumnBytes,       \* sizeof(apta_waveform_column_t)
    SpanBytes,         \* sizeof(apta_waveform_span_t)
    MetadataSizes,     \* storage sizes of the metadata a host sets
    Snapshots,         \* allocation lists of the snapshots of a heap session
    Blocks,            \* sizes in frames of the blocks the host pushes
    Nodes              \* names of the PCM nodes, the bound on how many wait

ASSUME ContextAssumption ==
    /\ IsFiniteSet(Sessions)
    /\ Arena \in Sessions
    /\ Application \notin Sessions
    /\ Watched \subseteq Sessions
    /\ {Limit, SessionBytes, ResultBytes, ColumnBytes, SpanBytes} \subseteq Nat
    /\ Snapshots \subseteq Seq(Nat)
    /\ MetadataSizes \subseteq 1 .. MetadataBytes
    /\ Blocks \subseteq 1 .. MaxPushFrames
    /\ Nodes \cap {"free", "ranges", "accumulators", "bands", "metadata", "replacement"} = {}

Threads == Sessions \cup {Application}

VARIABLES
    allocated_bytes,   \* the context's counter
    call,              \* thread -> the call in progress
    state,             \* session -> NONE, CREATED or ACTIVE
    metadata,          \* session -> storage size of its metadata, 0 for none
    result,            \* session -> its current result
    kept,              \* the result the application holds
    blocks,            \* the arena of the workspace session
    capacity,          \* overview_accumulator_capacity of that session
    accepted,          \* frames it has accepted
    done,              \* frames it has analysed
    queue,             \* its PCM nodes that wait for the analysis
    backlog            \* history: two of its nodes have waited together

arena == <<blocks, capacity, accepted, done, queue, backlog>>
vars == <<allocated_bytes, call, state, metadata, result, kept, arena>>

(* A heap result: its allocations, the metadata it carries, and whether    *)
(* the application holds a second reference to it.                         *)
NoResult == [parts |-> <<>>, metadata |-> 0, shared |-> FALSE]

Idle == [pc |-> "idle", op |-> "none", todo |-> <<>>, got |-> <<>>, junk |-> <<>>,
         seen |-> 0, metadata |-> 0]

Total(sizes) ==
    LET sum[i \in 0 .. Len(sizes)] == IF i = 0 THEN 0 ELSE sum[i - 1] + sizes[i]
    IN  sum[Len(sizes)]

Init ==
    /\ allocated_bytes = 0
    /\ call = [t \in Threads |-> Idle]
    /\ state = [s \in Sessions |-> "NONE"]
    /\ metadata = [s \in Sessions |-> 0]
    /\ result = [s \in Sessions |-> NoResult]
    /\ kept = NoResult
    /\ blocks = FreshArena
    /\ capacity = 0
    /\ accepted = 0
    /\ done = 0
    /\ queue = <<>>
    /\ backlog = FALSE

---------------------------------------------------------------------------
(* Calls of the public interface.  Start leaves the call with the list of  *)
(* its allocations; the metadata copy of the result comes right after the  *)
(* result object, the snapshot last.                                       *)

OnHeap(s, size) == IF s = Arena \/ size = 0 THEN <<>> ELSE <<size>>
Copy(size) == IF size = 0 THEN <<>> ELSE <<size>>

Start(t, op, todo, size) ==
    call' = [call EXCEPT ![t] = [Idle EXCEPT !.pc = "load", !.op = op,
                                             !.todo = todo, !.metadata = size]]

Create(s) ==
    /\ call[s].pc = "idle"
    /\ state[s] = "NONE"
    /\ Start(s, "create", OnHeap(s, SessionBytes) \o <<ResultBytes>>, 0)
    /\ UNCHANGED <<allocated_bytes, state, metadata, result, kept, arena>>

(* The storage of the new metadata comes first, from the arena or the      *)
(* heap, then the result that shows it is published.                       *)
SetMetadata(s, size) ==
    /\ call[s].pc = "idle"
    /\ state[s] = "CREATED"
    /\ s = Arena => size = 0 \/ CanAllocate(blocks, size)
    /\ Start(s, "metadata", OnHeap(s, size) \o <<ResultBytes>> \o Copy(size), size)
    /\ blocks' = IF s = Arena /\ size # 0 THEN Allocate(blocks, size, "replacement") ELSE blocks
    /\ UNCHANGED <<allocated_bytes, state, metadata, result, kept, capacity, accepted, done, queue, backlog>>

(* A call of a heap session that publishes: its first one makes it active. *)
Process(s, snapshot) ==
    /\ call[s].pc = "idle"
    /\ s # Arena
    /\ state[s] \in {"CREATED", "ACTIVE"}
    /\ Start(s, "publish",
             <<ResultBytes>> \o Copy(metadata[s]) \o (IF state[s] = "CREATED" THEN <<>> ELSE snapshot),
             metadata[s])
    /\ UNCHANGED <<allocated_bytes, state, metadata, result, kept, arena>>

(* The application takes a second reference to a current result, and gives *)
(* it back later, perhaps after the session has replaced or dropped it.    *)
Acquire(s) ==
    /\ call[Application].pc = "idle"
    /\ kept = NoResult
    /\ result[s] # NoResult
    /\ ~result[s].shared
    /\ result' = [result EXCEPT ![s].shared = TRUE]
    /\ kept' = [result[s] EXCEPT !.shared = TRUE]
    /\ UNCHANGED <<allocated_bytes, call, state, metadata, arena>>

ReleaseResult ==
    /\ call[Application].pc = "idle"
    /\ kept # NoResult
    /\ kept' = NoResult
    /\ IF kept.shared
       THEN /\ result' = [s \in Sessions |-> [result[s] EXCEPT !.shared = FALSE]]
            /\ UNCHANGED call
       ELSE /\ call' = [call EXCEPT ![Application] =
                            [Idle EXCEPT !.pc = "free", !.op = "release", !.junk = kept.parts]]
            /\ UNCHANGED result
    /\ UNCHANGED <<allocated_bytes, state, metadata, arena>>

(* Giving up the session's reference to its result: the allocations to     *)
(* free, and what the application holds afterwards.                        *)
Dropped(s) == IF result[s].shared THEN <<>> ELSE result[s].parts
KeptAfterDrop(s) == IF result[s].shared THEN [kept EXCEPT !.shared = FALSE] ELSE kept

(* The session in the workspace returns its blocks to the arena and clears *)
(* itself; the next session there starts with a fresh arena.               *)
Destroy(s) ==
    LET junk == Dropped(s) \o OnHeap(s, metadata[s]) \o OnHeap(s, SessionBytes)
    IN  /\ call[s].pc = "idle"
        /\ state[s] # "NONE"
        /\ call' = IF junk = <<>> THEN call
                   ELSE [call EXCEPT ![s] = [Idle EXCEPT !.pc = "free", !.op = "destroy", !.junk = junk]]
        /\ state' = [state EXCEPT ![s] = "NONE"]
        /\ metadata' = [metadata EXCEPT ![s] = 0]
        /\ result' = [result EXCEPT ![s] = NoResult]
        /\ kept' = KeptAfterDrop(s)
        /\ IF s = Arena
           THEN /\ blocks' = FreshArena
                /\ capacity' = 0
                /\ accepted' = 0
                /\ done' = 0
                /\ queue' = <<>>
                /\ backlog' = FALSE
           ELSE UNCHANGED arena
        /\ UNCHANGED allocated_bytes

---------------------------------------------------------------------------
(* The workspace session's own storage.                                    *)

(* An accepted block: the range table the first time, then a node for the  *)
(* block or for the largest halving of it the arena has room for.  Any     *)
(* number of nodes may wait for the next process call.                     *)
PushPcm(n) ==
    LET table == IF Holds(blocks, "ranges") THEN blocks
                 ELSE Allocate(blocks, FirstRanges * RangeBytes, "ranges")
        frames == IF accepted + n > TrackFrames THEN TrackFrames - accepted ELSE n
        halvings == {frames \div 2^k : k \in 0 .. 12} \cap 1 .. frames
        room == {m \in halvings : CanAllocate(table, NodeBytes + m * SampleBytes)}
        unused == {x \in Nodes : ~Holds(blocks, x)}
        node == CHOOSE x \in unused : TRUE
    IN  /\ call[Arena].pc = "idle"
        /\ state[Arena] = "ACTIVE"
        /\ unused # {}
        /\ frames > 0
        /\ CanAllocate(blocks, FirstRanges * RangeBytes) \/ Holds(blocks, "ranges")
        /\ IF room = {} THEN blocks' = table /\ UNCHANGED <<accepted, queue, backlog>>
           ELSE \E m \in room :
                   /\ \A x \in room : x <= m
                   /\ blocks' = Allocate(table, NodeBytes + m * SampleBytes, node)
                   /\ accepted' = accepted + m
                   /\ queue' = Append(queue, [node |-> node, frames |-> m])
                   /\ backlog' = (backlog \/ queue # <<>>)
        /\ UNCHANGED <<allocated_bytes, call, state, metadata, result, kept, capacity, done>>

(* The first push of a session publishes its transition, which may fail,   *)
(* before it takes the block.                                              *)
Activate ==
    /\ call[Arena].pc = "idle"
    /\ state[Arena] = "CREATED"
    /\ Start(Arena, "publish", <<ResultBytes>> \o Copy(metadata[Arena]), metadata[Arena])
    /\ UNCHANGED <<allocated_bytes, state, metadata, result, kept, arena>>

(* What a process call reserves before it analyses anything: capacity for  *)
(* every column of the queue, the accumulators first and then the band     *)
(* sums, while all the nodes still have their blocks.                      *)
Enough == capacity >= Columns(accepted)
Grown == GrownCapacity(capacity, Columns(accepted), FirstAccumulators)
Wider == Replace(blocks, Grown * AccumulatorBytes, "accumulators")
FitsColumns == Enough \/ CanAllocate(blocks, Grown * AccumulatorBytes)
FitsBands == Enough \/ BandBytes = 0 \/ CanAllocate(Wider, Grown * BandBytes)

(* A process call with PCM to analyse.  When the reservation fails it      *)
(* returns at once, and the nodes stay where they are; accumulators that   *)
(* were replaced stay replaced, with the old capacity on record.           *)
Reserve ==
    /\ call[Arena].pc = "idle"
    /\ state[Arena] = "ACTIVE"
    /\ queue # <<>>
    /\ IF FitsColumns /\ FitsBands
       THEN /\ blocks' = IF Enough THEN blocks
                         ELSE IF BandBytes = 0 THEN Wider
                         ELSE Replace(Wider, Grown * BandBytes, "bands")
            /\ capacity' = IF Enough THEN capacity ELSE Grown
            /\ call' = [call EXCEPT ![Arena] = [Idle EXCEPT !.pc = "analyse", !.op = "process",
                                                           !.seen = done \div ColumnFrames]]
       ELSE /\ blocks' = IF FitsColumns THEN Wider ELSE blocks
            /\ UNCHANGED <<capacity, call>>
    /\ UNCHANGED <<allocated_bytes, state, metadata, result, kept, accepted, done, queue, backlog>>

(* The call analyses the nodes one after the other, and each one's block   *)
(* goes back to the arena when it is done.                                 *)
AnalyseNode ==
    /\ call[Arena].pc = "analyse"
    /\ queue # <<>>
    /\ blocks' = Release(blocks, Head(queue).node)
    /\ done' = done + Head(queue).frames
    /\ queue' = Tail(queue)
    /\ UNCHANGED <<allocated_bytes, call, state, metadata, result, kept, capacity, accepted, backlog>>

(* The queue is empty, or the budget or the deadline of the call has run   *)
(* out: the columns are published if there are more complete ones than     *)
(* when the call began.                                                    *)
EndAnalysis ==
    LET complete == done \div ColumnFrames
    IN  /\ call[Arena].pc = "analyse"
        /\ IF complete # call[Arena].seen
           THEN Start(Arena, "publish", <<ResultBytes>> \o Copy(metadata[Arena])
                                        \o <<complete * ColumnBytes, SpanBytes>>,
                      metadata[Arena])
           ELSE call' = [call EXCEPT ![Arena] = Idle]
        /\ UNCHANGED <<allocated_bytes, state, metadata, result, kept, arena>>

---------------------------------------------------------------------------
(* One allocation of a call: the reservation against the limit, then the   *)
(* allocator.                                                              *)

Wanted(t) == Head(call[t].todo)

(* A failed allocation gives back what the call has allocated so far, the  *)
(* replacement of a session's metadata in the arena included.              *)
RolledBack(c) == IF c.got = <<>> THEN Idle ELSE [Idle EXCEPT !.pc = "free", !.junk = c.got]

MutantArenaRolledBack(t) == blocks

ArenaRolledBack(t) == IF t = Arena THEN Release(blocks, "replacement") ELSE blocks

Refused(t) ==
    /\ call' = [call EXCEPT ![t] = RolledBack(@)]
    /\ blocks' = ArenaRolledBack(t)

(* The counter is read and then exchanged; without a limit it is only      *)
(* added to, and what exceeds the limit by itself is refused at once.      *)
Load(t) ==
    /\ call[t].pc = "load"
    /\ IF Limit = 0
       THEN /\ allocated_bytes' = allocated_bytes + Wanted(t)
            /\ call' = [call EXCEPT ![t].pc = "allocate"]
            /\ UNCHANGED blocks
       ELSE IF Wanted(t) > Limit
       THEN Refused(t) /\ UNCHANGED allocated_bytes
       ELSE /\ call' = [call EXCEPT ![t].pc = "exchange", ![t].seen = allocated_bytes]
            /\ UNCHANGED <<allocated_bytes, blocks>>
    /\ UNCHANGED <<state, metadata, result, kept, capacity, accepted, done, queue, backlog>>

(* One round of the loop: the limit is tested on the value last read, and  *)
(* the exchange succeeds only when the counter still has that value.       *)
MutantExchange(t) ==
    /\ call[t].pc = "exchange"
    /\ IF call[t].seen > Limit - Wanted(t)
       THEN Refused(t) /\ UNCHANGED allocated_bytes
       ELSE /\ allocated_bytes' = allocated_bytes + Wanted(t)
            /\ call' = [call EXCEPT ![t].pc = "allocate", ![t].seen = 0]
            /\ UNCHANGED blocks
    /\ UNCHANGED <<state, metadata, result, kept, capacity, accepted, done, queue, backlog>>

Exchange(t) ==
    /\ call[t].pc = "exchange"
    /\ IF call[t].seen > Limit - Wanted(t)
       THEN Refused(t) /\ UNCHANGED allocated_bytes
       ELSE IF call[t].seen = allocated_bytes
       THEN /\ allocated_bytes' = allocated_bytes + Wanted(t)
            /\ call' = [call EXCEPT ![t].pc = "allocate", ![t].seen = 0]
            /\ UNCHANGED blocks
       ELSE /\ call' = [call EXCEPT ![t].seen = allocated_bytes]
            /\ UNCHANGED <<allocated_bytes, blocks>>
    /\ UNCHANGED <<state, metadata, result, kept, capacity, accepted, done, queue, backlog>>

(* The allocator of the context returns memory.                            *)
AllocatorReturns(t) ==
    /\ call[t].pc = "allocate"
    /\ call' = [call EXCEPT ![t].got = Append(@, Wanted(t)), ![t].todo = Tail(@),
                            ![t].pc = IF Len(call[t].todo) = 1 THEN "install" ELSE "load"]
    /\ UNCHANGED <<allocated_bytes, state, metadata, result, kept, arena>>

(* The allocator has none: the reservation is taken back, and the call     *)
(* undone.                                                                 *)
MutantAllocatorFails(t) ==
    /\ call[t].pc = "allocate"
    /\ Refused(t)
    /\ UNCHANGED <<allocated_bytes, state, metadata, result, kept, capacity, accepted, done, queue, backlog>>

AllocatorFails(t) ==
    /\ call[t].pc = "allocate"
    /\ allocated_bytes' = allocated_bytes - Wanted(t)
    /\ Refused(t)
    /\ UNCHANGED <<state, metadata, result, kept, capacity, accepted, done, queue, backlog>>

---------------------------------------------------------------------------
(* The end of a call.                                                      *)

(* Everything is there: the new result replaces the current one, a created *)
(* session is active after its first publication, and new metadata         *)
(* replaces the old.  The old result goes first, then the old metadata.    *)
Install(s) ==
    LET c == call[s]
        storage == IF c.op = "create" THEN OnHeap(s, SessionBytes)
                   ELSE IF c.op = "metadata" THEN OnHeap(s, c.metadata) ELSE <<>>
        junk == Dropped(s) \o (IF c.op = "metadata" THEN OnHeap(s, metadata[s]) ELSE <<>>)
    IN  /\ c.pc = "install"
        /\ result' = [result EXCEPT ![s] =
                         [parts |-> SubSeq(c.got, Len(storage) + 1, Len(c.got)),
                          metadata |-> c.metadata, shared |-> FALSE]]
        /\ kept' = KeptAfterDrop(s)
        /\ metadata' = [metadata EXCEPT ![s] = c.metadata]
        /\ state' = [state EXCEPT ![s] = CASE c.op = "create" -> "CREATED"
                                           [] c.op = "publish" -> "ACTIVE"
                                           [] OTHER -> @]
        /\ blocks' = IF s = Arena /\ c.op = "metadata"
                     THEN Rename(Release(blocks, "metadata"), "replacement", "metadata")
                     ELSE blocks
        /\ call' = [call EXCEPT ![s] = IF junk = <<>> THEN Idle
                                       ELSE [Idle EXCEPT !.pc = "free", !.junk = junk]]
        /\ UNCHANGED <<allocated_bytes, capacity, accepted, done, queue, backlog>>

(* One deallocation: the memory goes back, then its bytes leave the        *)
(* counter.  A reservation that comes in between is at worst refused, as   *)
(* AllocatorFails refuses it.                                              *)
Deallocate(t) ==
    /\ call[t].pc = "free"
    /\ allocated_bytes' = allocated_bytes - Head(call[t].junk)
    /\ call' = [call EXCEPT ![t] = IF Len(@.junk) = 1 THEN Idle
                                   ELSE [@ EXCEPT !.junk = Tail(call[t].junk)]]
    /\ UNCHANGED <<state, metadata, result, kept, arena>>

Next ==
    \/ \E s \in Sessions :
          \/ Create(s)
          \/ \E size \in MetadataSizes \cup {0} : SetMetadata(s, size)
          \/ \E snapshot \in Snapshots : Process(s, snapshot)
          \/ Destroy(s)
          \/ Install(s)
    \/ \E s \in Watched : Acquire(s)
    \/ ReleaseResult
    \/ Activate
    \/ \E n \in Blocks : PushPcm(n)
    \/ Reserve
    \/ AnalyseNode
    \/ EndAnalysis
    \/ \E t \in Threads :
          \/ Load(t)
          \/ Exchange(t)
          \/ AllocatorReturns(t)
          \/ AllocatorFails(t)
          \/ Deallocate(t)

Spec == Init /\ [][Next]_vars

---------------------------------------------------------------------------
(* Properties.                                                             *)

(* Bytes that exist on the heap: of calls in progress, of sessions, of the *)
(* result the application keeps.  Bytes that are reserved and not yet      *)
(* allocated.                                                              *)
SumOver(f) == LET order == SetToSeq(DOMAIN f)
              IN  Total([i \in DOMAIN order |-> f[order[i]]])

Working(t) == Total(call[t].got) + Total(call[t].junk)
Owned(s) == Total(result[s].parts) + Total(OnHeap(s, metadata[s]))
            + (IF state[s] = "NONE" THEN 0 ELSE Total(OnHeap(s, SessionBytes)))
Kept == IF kept.shared THEN 0 ELSE Total(kept.parts)
Reserved(t) == IF call[t].pc = "allocate" THEN Wanted(t) ELSE 0

LiveBytes ==
    SumOver([t \in Threads |-> Working(t)]) + SumOver([s \in Sessions |-> Owned(s)]) + Kept
InFlight == SumOver([t \in Threads |-> Reserved(t)])

(* However the sessions race, what the context holds never exceeds the     *)
(* limit it was created with (apta_internal_reserve_bytes).                *)
LimitIsKept == Limit # 0 => LiveBytes <= Limit

(* The counter is exact: every byte of it exists or is about to.  So a     *)
(* failed publication or a failed creation leaks nothing, and              *)
(* apta_context_destroy, which refuses while the counter is not zero,      *)
(* succeeds once sessions and results are gone.                            *)
BytesAreAccounted == allocated_bytes = LiveBytes + InFlight

(* Replacing metadata is one step to the host: between its calls the       *)
(* session's metadata is the metadata of its published result, and the     *)
(* arena holds exactly that storage, also after a publication that failed  *)
(* half way (apta_session_set_metadata).                                   *)
MetadataIsPublished ==
    \A s \in Sessions :
        state[s] # "NONE" /\ call[s].pc = "idle" =>
            /\ result[s].metadata = metadata[s]
            /\ s = Arena => /\ Holds(blocks, "metadata") <=> metadata[s] # 0
                            /\ ~Holds(blocks, "replacement")

(* PCM waits for a process call, and its reservation would succeed.        *)
Waiting == state[Arena] = "ACTIVE" /\ call[Arena].pc = "idle" /\ queue # <<>>
Reservable == FitsColumns /\ FitsBands


(* The same of any backlog, as the documentation of the workspace states   *)
(* it: a buffer of that size completes the analysis.                       *)
WorkspaceSuffices == Waiting => Reservable
================================================================================
