------------------------------- MODULE ResultPool -------------------------------
(***************************************************************************)
(* Publication, acquisition and reclamation of the immutable results of a  *)
(* session created with APTA_SESSION_FLAG_BOUNDED_RESULT_SLOTS.            *)
(*                                                                         *)
(* One step is one access to shared memory: an atomic operation, or a      *)
(* block of plain accesses that only its thread may make.  Two kinds of    *)
(* thread run: the Host, which owns the session and serialises every       *)
(* mutating call on it (docs/api/APTA-THREADING-0.1.md, section 1), and    *)
(* the Readers, which acquire, inspect and release results concurrently    *)
(* with it (section 3) and may outlive the session (section 5).            *)
(*                                                                         *)
(* The release of a result, apta_internal_result_release with the pool     *)
(* functions it calls, is one procedure that every thread runs, from       *)
(* "decRef" to "decBytes"; a thread's continuation is Return(t).           *)
(***************************************************************************)
EXTENDS Integers, FiniteSets

CONSTANTS
    Readers,         \* threads that acquire, inspect and release results
    Host,            \* the thread that owns the session
    NoThread,        \* the result lock is free
    SlotCount,       \* APTA_INTERNAL_RESULT_SLOT_COUNT
    MaxGeneration    \* UINT64_MAX

ASSUME PoolAssumption ==
    /\ IsFiniteSet(Readers)
    /\ Host \notin Readers
    /\ NoThread \notin Readers \cup {Host}
    /\ SlotCount \in Nat \ {0}
    /\ MaxGeneration \in Nat \ {0}

Slots == 1..SlotCount
Threads == Readers \cup {Host}
NoSlot == 0          \* the NULL apta_result_t pointer

VARIABLES
    session,               \* "absent", "open", "closing" (in destroy), "closed"
    current_result,        \* slot of the session's current result
    generation,            \* session->generation
    result_lock,           \* holder of session->result_lock, or NoThread
    active,                \* pool->slots[s].active
    reference_count,       \* of the result in each slot
    content,               \* info.generation of the result in each slot
    built,                 \* the slot's metadata, overview and detail are complete
    pool_reference_count,  \* pool->reference_count
    pool,                  \* "none", "live" or "freed" memory of the pool block
    context,               \* "live" or "freed" memory of the context
    session_count,         \* context->session_count
    result_count,          \* context->result_count
    allocated_bytes,       \* context->allocated_bytes, one unit per block
    pc,                    \* next step of each thread
    ptr,                   \* local apta_result_t pointer of each thread
    return,                \* where the Host goes when a release ends
    seen                   \* generation each reader last read from a result

slotVars == <<active, reference_count, content, built>>
poolVars == <<pool_reference_count, pool>>
contextVars == <<context, session_count, result_count, allocated_bytes>>
sessionVars == <<session, current_result, generation, result_lock>>
threadVars == <<pc, ptr, return, seen>>
vars == <<sessionVars, slotVars, poolVars, contextVars, threadVars>>

(* Steps of the release procedure, of acquisition, publication, session   *)
(* destruction and context destruction.                                    *)
ReleasePC == {"decRef", "decCount", "freeSlot", "decPool", "freePool", "decBytes"}
AcquirePC == {"acqLock", "acqRead", "acqRetain", "acqUnlock"}
PublishPC == {"scan", "clear", "fill", "retain", "count", "build",
              "pubLock", "swap", "pubUnlock"}
DestroyPC == {"desLock", "detach", "desUnlock", "desCount"}
ContextPC == {"ctxSessions", "ctxResults", "ctxBytes"}
ReaderPC == {"idle", "holding"} \cup AcquirePC \cup ReleasePC
HostPC == {"idle"} \cup PublishPC \cup DestroyPC \cup ContextPC \cup ReleasePC

Goto(t, label) == pc' = [pc EXCEPT ![t] = label]

(* The tests the code makes on a shared value, each in the step that reads   *)
(* it.  A definition named Mutant... is a plausible slip in the code that    *)
(* follows it; no specification here uses one.                               *)
MutantLastGenerationIncluded == generation <= MaxGeneration
GenerationLeft == generation < MaxGeneration

MutantSlotFreeUnlessCurrent(s) == s # current_result
SlotIsFree(s) == ~active[s]

MutantNoLock == TRUE
LockIsFree == result_lock = NoThread

MutantRetainForgotten(s) == reference_count[s]
Retained(s) == reference_count[s] + 1

LastReference(s) == reference_count[s] = 1

MutantPoolNeverLast == pool_reference_count = 0
LastPoolReference == pool_reference_count = 1

MutantBytesIgnored == FALSE
BytesOutstanding == allocated_bytes # 0

(* Where thread t resumes when apta_internal_result_release returns.      *)
Return(t) == IF t = Host THEN return ELSE "idle"

Init ==
    /\ session = "absent"
    /\ current_result = NoSlot
    /\ generation = 0
    /\ result_lock = NoThread
    /\ active = [s \in Slots |-> FALSE]
    /\ reference_count = [s \in Slots |-> 0]
    /\ content = [s \in Slots |-> 0]
    /\ built = [s \in Slots |-> FALSE]
    /\ pool_reference_count = 0
    /\ pool = "none"
    /\ context = "live"
    /\ session_count = 0
    /\ result_count = 0
    /\ allocated_bytes = 0
    /\ pc = [t \in Threads |-> "idle"]
    /\ ptr = [t \in Threads |-> NoSlot]
    /\ return = "idle"
    /\ seen = [r \in Readers |-> 0]

(***************************************************************************)
(* apta_session_create with bounded slots.  No other thread can reach the  *)
(* session, the pool or a slot before it returns, so it is one step; a     *)
(* creation that fails rolls everything back and leaves the state as it    *)
(* was.  The first result is empty, hence complete, in the first slot.     *)
(***************************************************************************)
CreateSession ==
    /\ session = "absent"
    /\ pc[Host] = "idle"
    /\ session' = "open"
    /\ current_result' = 1
    /\ generation' = 1
    /\ active' = [active EXCEPT ![1] = TRUE]
    /\ reference_count' = [reference_count EXCEPT ![1] = 1]
    /\ content' = [content EXCEPT ![1] = 1]
    /\ built' = [built EXCEPT ![1] = TRUE]
    /\ pool' = "live"
    /\ pool_reference_count' = 2
    /\ allocated_bytes' = allocated_bytes + 1
    /\ result_count' = result_count + 1
    /\ session_count' = session_count + 1
    /\ UNCHANGED <<result_lock, context, threadVars>>

--------------------------------------------------------------------------------
(* Publication: apta_internal_publish_result of a bounded session.         *)

(* The generation check, then the scan of the slots from the first on.     *)
StartPublish ==
    /\ session = "open"
    /\ pc[Host] = "idle"
    /\ GenerationLeft
    /\ Goto(Host, "scan")
    /\ ptr' = [ptr EXCEPT ![Host] = 1]
    /\ UNCHANGED <<sessionVars, slotVars, poolVars, contextVars, return, seen>>

(* Compare-and-exchange of the active flag of the slot the scan is at.     *)
ClaimSlot ==
    /\ pc[Host] = "scan"
    /\ ptr[Host] \in Slots
    /\ SlotIsFree(ptr[Host])
    /\ active' = [active EXCEPT ![ptr[Host]] = TRUE]
    /\ Goto(Host, "clear")
    /\ UNCHANGED <<sessionVars, reference_count, content, built, poolVars,
                   contextVars, ptr, return, seen>>

SkipSlot ==
    /\ pc[Host] = "scan"
    /\ ptr[Host] \in Slots
    /\ ~SlotIsFree(ptr[Host])
    /\ ptr' = [ptr EXCEPT ![Host] = @ + 1]
    /\ UNCHANGED <<sessionVars, slotVars, poolVars, contextVars, pc, return, seen>>

(* Every slot was taken: APTA_ERROR_RESULT_SLOTS_EXHAUSTED, nothing changed. *)
SlotsExhausted ==
    /\ pc[Host] = "scan"
    /\ ptr[Host] \notin Slots
    /\ Goto(Host, "idle")
    /\ ptr' = [ptr EXCEPT ![Host] = NoSlot]
    /\ UNCHANGED <<sessionVars, slotVars, poolVars, contextVars, return, seen>>

(* memset of the slot storage.                                              *)
ClearSlot ==
    /\ pc[Host] = "clear"
    /\ reference_count' = [reference_count EXCEPT ![ptr[Host]] = 0]
    /\ content' = [content EXCEPT ![ptr[Host]] = 0]
    /\ built' = [built EXCEPT ![ptr[Host]] = FALSE]
    /\ Goto(Host, "fill")
    /\ UNCHANGED <<sessionVars, active, poolVars, contextVars, ptr, return, seen>>

(* The header: one reference for the creator, and the next generation.      *)
FillHeader ==
    /\ pc[Host] = "fill"
    /\ reference_count' = [reference_count EXCEPT ![ptr[Host]] = 1]
    /\ content' = [content EXCEPT ![ptr[Host]] = generation + 1]
    /\ Goto(Host, "retain")
    /\ UNCHANGED <<sessionVars, active, built, poolVars, contextVars, ptr, return, seen>>

MutantPoolNotRetained ==
    /\ pc[Host] = "retain"
    /\ Goto(Host, "count")
    /\ UNCHANGED <<sessionVars, slotVars, poolVars, contextVars, ptr, return, seen>>

RetainPool ==
    /\ pc[Host] = "retain"
    /\ pool_reference_count' = pool_reference_count + 1
    /\ Goto(Host, "count")
    /\ UNCHANGED <<sessionVars, slotVars, pool, contextVars, ptr, return, seen>>

CountResult ==
    /\ pc[Host] = "count"
    /\ result_count' = result_count + 1
    /\ Goto(Host, "build")
    /\ UNCHANGED <<sessionVars, slotVars, poolVars, context, session_count,
                   allocated_bytes, ptr, return, seen>>

(* Metadata, overview, detail, S4 and S6 storage of the slot.               *)
BuildSnapshot ==
    /\ pc[Host] = "build"
    /\ built' = [built EXCEPT ![ptr[Host]] = TRUE]
    /\ Goto(Host, "pubLock")
    /\ UNCHANGED <<sessionVars, active, reference_count, content, poolVars,
                   contextVars, ptr, return, seen>>

MutantBuildErrorIgnored ==
    /\ pc[Host] = "build"
    /\ Goto(Host, "pubLock")
    /\ UNCHANGED <<sessionVars, slotVars, poolVars, contextVars, ptr, return, seen>>

MutantBuildErrorLeaks ==
    /\ pc[Host] = "build"
    /\ Goto(Host, "idle")
    /\ ptr' = [ptr EXCEPT ![Host] = NoSlot]
    /\ UNCHANGED <<sessionVars, slotVars, poolVars, contextVars, return, seen>>

(* One of the builders fails (LIMIT_EXCEEDED, INTERNAL): the new result is  *)
(* released and the publication returns the error.                          *)
BuildFails ==
    /\ pc[Host] = "build"
    /\ Goto(Host, "decRef")
    /\ return' = "idle"
    /\ UNCHANGED <<sessionVars, slotVars, poolVars, contextVars, ptr, seen>>

LockToPublish ==
    /\ pc[Host] = "pubLock"
    /\ LockIsFree
    /\ result_lock' = Host
    /\ Goto(Host, "swap")
    /\ UNCHANGED <<session, current_result, generation, slotVars, poolVars,
                   contextVars, ptr, return, seen>>

(* Under the lock: the old pointer is taken, the new result installed.      *)
SwapCurrent ==
    /\ pc[Host] = "swap"
    /\ ptr' = [ptr EXCEPT ![Host] = current_result]
    /\ current_result' = ptr[Host]
    /\ generation' = generation + 1
    /\ Goto(Host, "pubUnlock")
    /\ UNCHANGED <<session, result_lock, slotVars, poolVars, contextVars, return, seen>>

UnlockPublished ==
    /\ pc[Host] = "pubUnlock"
    /\ result_lock' = NoThread
    /\ Goto(Host, "decRef")
    /\ return' = "idle"
    /\ UNCHANGED <<session, current_result, generation, slotVars, poolVars,
                   contextVars, ptr, seen>>

--------------------------------------------------------------------------------
(* apta_session_acquire_result by reader r, and the accessors.             *)

StartAcquire(r) ==
    /\ session = "open"
    /\ pc[r] = "idle"
    /\ Goto(r, "acqLock")
    /\ UNCHANGED <<sessionVars, slotVars, poolVars, contextVars, ptr, return, seen>>

LockToAcquire(r) ==
    /\ pc[r] = "acqLock"
    /\ LockIsFree
    /\ result_lock' = r
    /\ Goto(r, "acqRead")
    /\ UNCHANGED <<session, current_result, generation, slotVars, poolVars,
                   contextVars, ptr, return, seen>>

ReadCurrent(r) ==
    /\ pc[r] = "acqRead"
    /\ ptr' = [ptr EXCEPT ![r] = current_result]
    /\ Goto(r, "acqRetain")
    /\ UNCHANGED <<sessionVars, slotVars, poolVars, contextVars, return, seen>>

(* apta_internal_result_retain.                                             *)
RetainResult(r) ==
    /\ pc[r] = "acqRetain"
    /\ reference_count' = [reference_count EXCEPT ![ptr[r]] = Retained(ptr[r])]
    /\ Goto(r, "acqUnlock")
    /\ UNCHANGED <<sessionVars, active, content, built, poolVars, contextVars,
                   ptr, return, seen>>

UnlockAcquired(r) ==
    /\ pc[r] = "acqUnlock"
    /\ result_lock' = NoThread
    /\ Goto(r, "holding")
    /\ UNCHANGED <<session, current_result, generation, slotVars, poolVars,
                   contextVars, ptr, return, seen>>

(* apta_result_get_generation, standing for every accessor.                 *)
Inspect(r) ==
    /\ pc[r] = "holding"
    /\ seen' = [seen EXCEPT ![r] = content[ptr[r]]]
    /\ UNCHANGED <<sessionVars, slotVars, poolVars, contextVars, pc, ptr, return>>

StartRelease(r) ==
    /\ pc[r] = "holding"
    /\ Goto(r, "decRef")
    /\ UNCHANGED <<sessionVars, slotVars, poolVars, contextVars, ptr, return, seen>>

--------------------------------------------------------------------------------
(* apta_internal_result_release of ptr[t] by any thread t.                 *)

(* fetch_sub of the result's count; only the thread that takes it from one *)
(* to zero goes on.                                                         *)
DropReference(t) ==
    /\ pc[t] = "decRef"
    /\ reference_count' = [reference_count EXCEPT ![ptr[t]] = @ - 1]
    /\ IF LastReference(ptr[t])
       THEN Goto(t, "decCount") /\ UNCHANGED ptr
       ELSE Goto(t, Return(t)) /\ ptr' = [ptr EXCEPT ![t] = NoSlot]
    /\ UNCHANGED <<sessionVars, active, content, built, poolVars, contextVars,
                   return, seen>>

UncountResult(t) ==
    /\ pc[t] = "decCount"
    /\ result_count' = result_count - 1
    /\ Goto(t, "freeSlot")
    /\ UNCHANGED <<sessionVars, slotVars, poolVars, context, session_count,
                   allocated_bytes, ptr, return, seen>>

(* apta_internal_result_pool_release_result_slot: exchange of the active    *)
(* flag; only the exchange that finds it set drops the pool reference.      *)
FreeSlot(t) ==
    /\ pc[t] = "freeSlot"
    /\ active' = [active EXCEPT ![ptr[t]] = FALSE]
    /\ Goto(t, IF active[ptr[t]] THEN "decPool" ELSE Return(t))
    /\ ptr' = [ptr EXCEPT ![t] = NoSlot]
    /\ UNCHANGED <<sessionVars, reference_count, content, built, poolVars,
                   contextVars, return, seen>>

(* apta_internal_result_pool_release.                                       *)
DropPool(t) ==
    /\ pc[t] = "decPool"
    /\ pool_reference_count' = pool_reference_count - 1
    /\ Goto(t, IF LastPoolReference THEN "freePool" ELSE Return(t))
    /\ UNCHANGED <<sessionVars, slotVars, pool, contextVars, ptr, return, seen>>

(* apta_internal_context_deallocate: the block is freed through the         *)
(* context's allocator, then its bytes are given back.                      *)
FreePool(t) ==
    /\ pc[t] = "freePool"
    /\ pool' = "freed"
    /\ Goto(t, "decBytes")
    /\ UNCHANGED <<sessionVars, slotVars, pool_reference_count, contextVars,
                   ptr, return, seen>>

ReturnBytes(t) ==
    /\ pc[t] = "decBytes"
    /\ allocated_bytes' = allocated_bytes - 1
    /\ Goto(t, Return(t))
    /\ UNCHANGED <<sessionVars, slotVars, poolVars, context, session_count,
                   result_count, ptr, return, seen>>

--------------------------------------------------------------------------------
(* apta_session_destroy of a workspace session, and apta_context_destroy.  *)

(* Host contract, section 5: no reader is inside apta_session_acquire_result. *)
StartDestroy ==
    /\ session = "open"
    /\ pc[Host] = "idle"
    /\ \A r \in Readers : pc[r] \notin AcquirePC
    /\ session' = "closing"
    /\ Goto(Host, "desLock")
    /\ UNCHANGED <<current_result, generation, result_lock, slotVars, poolVars,
                   contextVars, ptr, return, seen>>

LockToDestroy ==
    /\ pc[Host] = "desLock"
    /\ LockIsFree
    /\ result_lock' = Host
    /\ Goto(Host, "detach")
    /\ UNCHANGED <<session, current_result, generation, slotVars, poolVars,
                   contextVars, ptr, return, seen>>

DetachCurrent ==
    /\ pc[Host] = "detach"
    /\ ptr' = [ptr EXCEPT ![Host] = current_result]
    /\ current_result' = NoSlot
    /\ Goto(Host, "desUnlock")
    /\ UNCHANGED <<session, generation, result_lock, slotVars, poolVars,
                   contextVars, return, seen>>

UnlockDetached ==
    /\ pc[Host] = "desUnlock"
    /\ result_lock' = NoThread
    /\ Goto(Host, "decRef")
    /\ return' = "desCount"
    /\ UNCHANGED <<session, current_result, generation, slotVars, poolVars,
                   contextVars, ptr, seen>>

(* session_count is given back, then the session's own pool reference.      *)
UncountSession ==
    /\ pc[Host] = "desCount"
    /\ session' = "closed"
    /\ session_count' = session_count - 1
    /\ Goto(Host, "decPool")
    /\ return' = "idle"
    /\ UNCHANGED <<current_result, generation, result_lock, slotVars, poolVars,
                   context, result_count, allocated_bytes, ptr, seen>>

StartContextDestroy ==
    /\ session = "closed"
    /\ pc[Host] = "idle"
    /\ context = "live"
    /\ Goto(Host, "ctxSessions")
    /\ UNCHANGED <<sessionVars, slotVars, poolVars, contextVars, ptr, return, seen>>

(* Three loads in order, each of which may answer APTA_ERROR_BUSY.          *)
LoadSessionCount ==
    /\ pc[Host] = "ctxSessions"
    /\ Goto(Host, IF session_count # 0 THEN "idle" ELSE "ctxResults")
    /\ UNCHANGED <<sessionVars, slotVars, poolVars, contextVars, ptr, return, seen>>

LoadResultCount ==
    /\ pc[Host] = "ctxResults"
    /\ Goto(Host, IF result_count # 0 THEN "idle" ELSE "ctxBytes")
    /\ UNCHANGED <<sessionVars, slotVars, poolVars, contextVars, ptr, return, seen>>

LoadBytesAndFree ==
    /\ pc[Host] = "ctxBytes"
    /\ Goto(Host, "idle")
    /\ context' = IF BytesOutstanding THEN context ELSE "freed"
    /\ UNCHANGED <<sessionVars, slotVars, poolVars, session_count, result_count,
                   allocated_bytes, ptr, return, seen>>

--------------------------------------------------------------------------------
PublishNext ==
    \/ StartPublish \/ ClaimSlot \/ SkipSlot \/ SlotsExhausted \/ ClearSlot
    \/ FillHeader \/ RetainPool \/ CountResult \/ BuildSnapshot \/ BuildFails
    \/ LockToPublish \/ SwapCurrent \/ UnlockPublished

DestroyNext ==
    \/ StartDestroy \/ LockToDestroy \/ DetachCurrent \/ UnlockDetached
    \/ UncountSession \/ StartContextDestroy \/ LoadSessionCount
    \/ LoadResultCount \/ LoadBytesAndFree

ReaderNext(r) ==
    \/ StartAcquire(r) \/ LockToAcquire(r) \/ ReadCurrent(r) \/ RetainResult(r)
    \/ UnlockAcquired(r) \/ Inspect(r) \/ StartRelease(r)

ReleaseNext(t) ==
    \/ DropReference(t) \/ UncountResult(t) \/ FreeSlot(t)
    \/ DropPool(t) \/ FreePool(t) \/ ReturnBytes(t)

Next ==
    \/ CreateSession
    \/ PublishNext
    \/ DestroyNext
    \/ \E r \in Readers : ReaderNext(r)
    \/ \E t \in Threads : ReleaseNext(t)

Spec == Init /\ [][Next]_vars

(* A thread inside an API call finishes it, and a reader that holds a       *)
(* result releases it: section 6 requires the host to release all results   *)
(* before it destroys the context.  Nothing makes a thread begin a call.    *)
Fairness ==
    /\ WF_vars(LockToDestroy \/ DetachCurrent \/ UnlockDetached \/ UncountSession)
    /\ \A t \in Threads : WF_vars(ReleaseNext(t))
    /\ \A r \in Readers : WF_vars(StartRelease(r))

FairSpec == Spec /\ Fairness

--------------------------------------------------------------------------------
(* Who owns what.  A thread whose pc is in OwnsRef owns one reference of    *)
(* ptr[t]; one whose pc is in OwnsSlot owns the slot outright, either to    *)
(* initialise it or because it dropped the last reference.                  *)
OwnsRef == {"retain", "count", "build", "pubLock", "swap", "pubUnlock",
            "desUnlock", "acqUnlock", "holding", "decRef"}
OwnsSlot == {"clear", "fill", "decCount", "freeSlot"}

RefOwners(s) == {t \in Threads : pc[t] \in OwnsRef /\ ptr[t] = s}
SessionOwns(s) == IF current_result = s THEN 1 ELSE 0
SlotOwners(s) == {t \in Threads : pc[t] \in OwnsSlot /\ ptr[t] = s}

TypeOK ==
    /\ session \in {"absent", "open", "closing", "closed"}
    /\ current_result \in Slots \cup {NoSlot}
    /\ generation \in 0..MaxGeneration
    /\ result_lock \in Threads \cup {NoThread}
    /\ active \in [Slots -> BOOLEAN]
    /\ reference_count \in [Slots -> Int]
    /\ content \in [Slots -> 0..MaxGeneration]
    /\ built \in [Slots -> BOOLEAN]
    /\ pool_reference_count \in Int
    /\ pool \in {"none", "live", "freed"}
    /\ context \in {"live", "freed"}
    /\ session_count \in Int
    /\ result_count \in Int
    /\ allocated_bytes \in Int
    /\ pc \in [Threads -> ReaderPC \cup HostPC]
    /\ \A r \in Readers : pc[r] \in ReaderPC
    /\ pc[Host] \in HostPC
    /\ ptr \in [Threads -> 0..(SlotCount + 1)]
    /\ return \in {"idle", "desCount"}
    /\ seen \in [Readers -> 0..MaxGeneration]

--------------------------------------------------------------------------------
(* Properties. *)

(* Every slot's reference count is the number of its owners: the threads    *)
(* between their acquisition (or creation) and their release, plus one when *)
(* it is the session's current result.  A retain or release lost or doubled *)
(* anywhere in apta_result_lifetime.c, whoever it interleaves with, breaks  *)
(* it.                                                                      *)
ReferencesAreCounted ==
    \A s \in Slots :
        reference_count[s] = Cardinality(RefOwners(s)) + SessionOwns(s)

(* A slot that is being written or recycled belongs to one thread alone:    *)
(* no reader can reach it and it is not the current result, so the memset   *)
(* of create_empty_result never runs under a reader.                        *)
SlotExclusive ==
    \A s \in Slots :
        \A t \in SlotOwners(s) :
            /\ SlotOwners(s) = {t}
            /\ RefOwners(s) = {}
            /\ current_result # s

(* An active slot has an owner: no interleaving of a release with a scan    *)
(* loses a slot, which would exhaust the pool for good.                     *)
NoLostSlot ==
    \A s \in Slots :
        active[s] <=> \/ current_result = s
                      \/ RefOwners(s) # {}
                      \/ SlotOwners(s) # {}

(* The result a reader can acquire, or has acquired, is complete: it carries *)
(* a generation that was issued and its storage was fully built.            *)
NoTornSnapshot ==
    /\ current_result # NoSlot =>
           /\ built[current_result]
           /\ content[current_result] = generation
    /\ \A r \in Readers : pc[r] \in OwnsRef =>
           /\ built[ptr[r]]
           /\ content[ptr[r]] \in 1..generation

(* The pool's count is the session's own reference, one per slot between    *)
(* its retain and its exchange, and one per thread between its exchange and *)
(* its decrement.                                                           *)
RetainedSlots ==
    {s \in Slots : /\ active[s]
                   /\ ~(pc[Host] \in {"clear", "fill", "retain"} /\ ptr[Host] = s)}
PoolDroppers == {t \in Threads : pc[t] = "decPool"}
SessionPoolRef == IF session \in {"open", "closing"} THEN 1 ELSE 0

PoolReferencesAreCounted ==
    pool_reference_count =
        Cardinality(RetainedSlots) + Cardinality(PoolDroppers) + SessionPoolRef

(* No step touches freed memory.  Whoever can still reach a slot or is     *)
(* about to drop or free the pool finds the pool allocated, the readers     *)
(* that outlive the session included; and apta_context_destroy answers BUSY *)
(* until the last releaser has made its last access to the context, the     *)
(* return of the bytes.                                                     *)
TouchesPool == OwnsRef \cup OwnsSlot \cup {"scan", "decPool", "freePool"}
TouchesContext == TouchesPool \cup {"decBytes"} \cup ContextPC

PoolInUse ==
    \/ session \in {"open", "closing"}
    \/ \E t \in Threads : pc[t] \in TouchesPool
ContextInUse ==
    \/ session \in {"open", "closing"}
    \/ \E t \in Threads : pc[t] \in TouchesContext

NoUseAfterFree ==
    /\ PoolInUse => pool = "live"
    /\ ContextInUse => context = "live"

(* Nothing is left behind: once the session is destroyed and every thread   *)
(* has released what it held, the pool block is freed and every counter     *)
(* that makes apta_context_destroy answer BUSY is back to zero.             *)
NothingLeaks ==
    session = "closed" /\ (\A t \in Threads : pc[t] = "idle") =>
        /\ pool = "freed"
        /\ session_count = 0
        /\ result_count = 0
        /\ allocated_bytes = 0

(* The generations one reader reads never go back, across acquisitions.     *)
ReadersSeeGenerationsInOrder ==
    [][\A r \in Readers : seen'[r] >= seen[r]]_vars

(* An acquired result does not change while it is held, whatever is         *)
(* published, released, recycled or destroyed meanwhile.                    *)
HeldIsImmutable ==
    [][\A r \in Readers : pc[r] = "holding" =>
            /\ content'[ptr[r]] = content[ptr[r]]
            /\ built'[ptr[r]] = built[ptr[r]]]_vars

(* Destruction ends with the pool's memory returned, although the last      *)
(* releaser may be a reader long after apta_session_destroy returned.       *)
PoolIsReclaimed ==
    session = "closing" ~> pool = "freed" /\ allocated_bytes = 0

(* What the pool shows of itself: the generation that can be acquired and   *)
(* the one each reader holds.  Seen so, the lock, the slots and the counts  *)
(* implement atomic publication.                                            *)
LatestGeneration == IF current_result = NoSlot THEN 0 ELSE content[current_result]
HeldGenerations ==
    [r \in Readers |-> IF pc[r] \in OwnsRef THEN content[ptr[r]] ELSE 0]

AbstractPublication == INSTANCE Publication WITH
    latest <- LatestGeneration,
    issued <- generation,
    snapshot <- HeldGenerations

(* Every step of the pool is a step of Publication or invisible to it.      *)
ImplementsPublication == AbstractPublication!Spec

================================================================================
