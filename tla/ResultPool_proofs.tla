--------------------------- MODULE ResultPool_proofs ---------------------------
(***************************************************************************)
(* Proofs about ResultPool, for any number of readers and slots and any    *)
(* largest generation.  Three invariants, each inductive given the ones    *)
(* before it:                                                              *)
(*                                                                         *)
(*   Shape      who may be where: the lock, the phase of the session and   *)
(*              the pointer each program counter may hold; implies TypeOK  *)
(*   Ownership  the count of a slot is the number of its owners, a slot    *)
(*              that is written or recycled has one, no slot is lost       *)
(*   Snapshots  what can be acquired and what is held is complete, and     *)
(*              what a reader has seen is not newer than what it holds     *)
(*                                                                         *)
(* From them follows that ResultPool implements Publication.               *)
(***************************************************************************)
EXTENDS ResultPool, FiniteSetTheorems, TLAPS

(* The steps a thread takes while it holds session->result_lock.           *)
LockedPC == {"acqRead", "acqRetain", "acqUnlock",
             "swap", "pubUnlock", "detach", "desUnlock"}

LockIsHeld == \A t \in Threads : result_lock = t <=> pc[t] \in LockedPC

(* The session outlives the calls made on it.                               *)
CallsAreInside ==
    /\ \A r \in Readers : pc[r] \in AcquirePC => session = "open"
    /\ pc[Host] \in PublishPC => session = "open"
    /\ pc[Host] \in PublishPC \ {"pubUnlock"} => generation < MaxGeneration
    /\ session = "closing" <=>
           \/ pc[Host] \in DestroyPC
           \/ pc[Host] \in ReleasePC /\ return = "desCount"
    /\ session = "absent" => \A t \in Threads : pc[t] = "idle"

(* There is a current result until the destruction detaches it.             *)
CurrentIsThere ==
    current_result \in Slots <=>
        session = "open" \/ pc[Host] \in {"desLock", "detach"}

PointersAreValid ==
    /\ \A t \in Threads : pc[t] \in OwnsRef \cup OwnsSlot => ptr[t] \in Slots
    /\ \A r \in Readers : pc[r] = "acqRetain" => ptr[r] = current_result

Control == LockIsHeld /\ CallsAreInside /\ CurrentIsThere /\ PointersAreValid

Shape == TypeOK /\ Control

(* Before anything is created every variable has its type and no thread is  *)
(* inside a call.                                                           *)
LEMMA InitShape == Init => Shape
BY PoolAssumption
DEF Init, Shape, Control, TypeOK, LockIsHeld, CallsAreInside, CurrentIsThere,
    PointersAreValid, Slots, Threads, NoSlot, LockedPC, AcquirePC, PublishPC,
    DestroyPC, ReleasePC, ContextPC, ReaderPC, HostPC, OwnsRef, OwnsSlot

(* A thread's program counter stays among the labels of its kind.          *)
LabelsOK ==
    /\ pc \in [Threads -> ReaderPC \cup HostPC]
    /\ \A r \in Readers : pc[r] \in ReaderPC
    /\ pc[Host] \in HostPC

(* A jump of the host to a label of its own keeps every label in place.     *)
LEMMA HostLabel ==
    ASSUME LabelsOK, NEW l \in HostPC, Goto(Host, l) PROVE LabelsOK'
BY PoolAssumption DEF LabelsOK, Goto, Threads

(* The same for a jump of a reader.                                         *)
LEMMA ReaderLabel ==
    ASSUME LabelsOK, NEW r \in Readers, NEW l \in ReaderPC, Goto(r, l) PROVE LabelsOK'
BY PoolAssumption DEF LabelsOK, Goto, Threads

(* The same inside the release procedure and at its return.                 *)
LEMMA ReleaseLabel ==
    ASSUME LabelsOK, return \in {"idle", "desCount"},
           NEW t \in Threads, NEW l \in ReleasePC \cup {Return(t)}, Goto(t, l)
    PROVE  LabelsOK'
<1>1. CASE t = Host
  <2>1. l \in HostPC
    BY <1>1 DEF Return, HostPC, DestroyPC
  <2> QED
    BY <1>1, <2>1, HostLabel
<1>2. CASE t \in Readers
  <2>1. l \in ReaderPC
    BY <1>2, PoolAssumption DEF Return, ReaderPC
  <2> QED
    BY <1>2, <2>1, ReaderLabel
<1> QED
  BY <1>1, <1>2 DEF Threads

(* Writing one entry of a function keeps its type.                         *)
LEMMA EntryWritten ==
    ASSUME NEW S, NEW V, NEW f \in [S -> V], NEW x, NEW v,
           x \in S => v \in V
    PROVE  [f EXCEPT ![x] = v] \in [S -> V]
OBVIOUS

(* Every step keeps every variable in its type. *)
LEMMA TypeStep == Shape /\ Next => TypeOK'
<1> SUFFICES ASSUME Shape, Next PROVE TypeOK'
  OBVIOUS
<1> USE PoolAssumption
    DEF TypeOK, NoSlot, sessionVars, slotVars, poolVars, contextVars, threadVars
<1>0. TypeOK /\ LabelsOK /\ Control
  BY DEF Shape, LabelsOK
<1>a. /\ 0 \in Slots \cup {NoSlot} /\ 1 \in Slots
      /\ Slots \subseteq 0..(SlotCount + 1) /\ 0 \in 0..(SlotCount + 1)
      /\ 0 \in 0..MaxGeneration /\ 1 \in 0..MaxGeneration
      /\ Host \in Threads /\ Readers \subseteq Threads
  BY DEF Slots, Threads
<1>1. CASE CreateSession
  <2>1. LabelsOK'
    BY <1>0, <1>1 DEF CreateSession, LabelsOK
  <2> QED
    BY <1>0, <1>a, <1>1, <2>1 DEF CreateSession, LabelsOK
<1>2. CASE StartPublish
  <2>1. LabelsOK'
    BY <1>0, <1>2, HostLabel
    DEF StartPublish, HostPC, PublishPC, DestroyPC, ContextPC, ReleasePC
  <2> QED
    BY <1>0, <1>a, <1>2, <2>1 DEF StartPublish, LabelsOK
<1>3. CASE ClaimSlot
  <2>1. LabelsOK'
    BY <1>0, <1>3, HostLabel
    DEF ClaimSlot, HostPC, PublishPC, DestroyPC, ContextPC, ReleasePC
  <2> QED
    BY <1>0, <1>a, <1>3, <2>1 DEF ClaimSlot, LabelsOK
<1>4. CASE SkipSlot
  <2>1. LabelsOK'
    BY <1>0, <1>4 DEF SkipSlot, LabelsOK
  <2>2. ptr[Host] + 1 \in 0..(SlotCount + 1)
    BY <1>4 DEF SkipSlot, Slots
  <2>3. ptr' \in [Threads -> 0..(SlotCount + 1)]
    BY <1>0, <1>4, <2>2, EntryWritten DEF SkipSlot
  <2> QED
    BY <1>0, <1>a, <1>4, <2>1, <2>2, <2>3 DEF SkipSlot, LabelsOK
<1>5. CASE SlotsExhausted
  <2>1. LabelsOK'
    BY <1>0, <1>5, HostLabel
    DEF SlotsExhausted, HostPC, PublishPC, DestroyPC, ContextPC, ReleasePC
  <2> QED
    BY <1>0, <1>a, <1>5, <2>1 DEF SlotsExhausted, LabelsOK
<1>6. CASE ClearSlot
  <2>1. LabelsOK'
    BY <1>0, <1>6, HostLabel
    DEF ClearSlot, HostPC, PublishPC, DestroyPC, ContextPC, ReleasePC
  <2>2. /\ reference_count' \in [Slots -> Int]
        /\ content' \in [Slots -> 0..MaxGeneration]
        /\ built' \in [Slots -> BOOLEAN]
    BY <1>0, <1>a, <1>6, EntryWritten DEF ClearSlot
  <2> QED
    BY <1>0, <1>a, <1>6, <2>1, <2>2 DEF ClearSlot, LabelsOK
<1>7. CASE FillHeader
  <2>1. LabelsOK'
    BY <1>0, <1>7, HostLabel
    DEF FillHeader, HostPC, PublishPC, DestroyPC, ContextPC, ReleasePC
  <2>2. generation + 1 \in 0..MaxGeneration
    BY <1>0, <1>7 DEF FillHeader, Control, CallsAreInside, PublishPC
  <2>3. content' \in [Slots -> 0..MaxGeneration]
    BY <1>0, <1>7, <2>2, EntryWritten DEF FillHeader
  <2> QED
    BY <1>0, <1>a, <1>7, <2>1, <2>2, <2>3 DEF FillHeader, LabelsOK
<1>8. CASE RetainPool
  <2>1. LabelsOK'
    BY <1>0, <1>8, HostLabel
    DEF RetainPool, HostPC, PublishPC, DestroyPC, ContextPC, ReleasePC
  <2> QED
    BY <1>0, <1>a, <1>8, <2>1 DEF RetainPool, LabelsOK
<1>9. CASE CountResult
  <2>1. LabelsOK'
    BY <1>0, <1>9, HostLabel
    DEF CountResult, HostPC, PublishPC, DestroyPC, ContextPC, ReleasePC
  <2> QED
    BY <1>0, <1>a, <1>9, <2>1 DEF CountResult, LabelsOK
<1>10. CASE BuildSnapshot
  <2>1. LabelsOK'
    BY <1>0, <1>10, HostLabel
    DEF BuildSnapshot, HostPC, PublishPC, DestroyPC, ContextPC, ReleasePC
  <2> QED
    BY <1>0, <1>a, <1>10, <2>1 DEF BuildSnapshot, LabelsOK
<1>11. CASE BuildFails
  <2>1. LabelsOK'
    BY <1>0, <1>11, HostLabel
    DEF BuildFails, HostPC, PublishPC, DestroyPC, ContextPC, ReleasePC
  <2> QED
    BY <1>0, <1>a, <1>11, <2>1 DEF BuildFails, LabelsOK
<1>12. CASE LockToPublish
  <2>1. LabelsOK'
    BY <1>0, <1>12, HostLabel
    DEF LockToPublish, HostPC, PublishPC, DestroyPC, ContextPC, ReleasePC
  <2> QED
    BY <1>0, <1>a, <1>12, <2>1 DEF LockToPublish, LabelsOK
<1>13. CASE SwapCurrent
  <2>1. LabelsOK'
    BY <1>0, <1>13, HostLabel
    DEF SwapCurrent, HostPC, PublishPC, DestroyPC, ContextPC, ReleasePC
  <2>2. ptr[Host] \in Slots /\ current_result \in Slots
    BY <1>0, <1>13 DEF SwapCurrent, Control, PointersAreValid, CurrentIsThere,
                        CallsAreInside, OwnsRef, PublishPC, Threads
  <2>3. generation + 1 \in 0..MaxGeneration
    BY <1>0, <1>13 DEF SwapCurrent, Control, CallsAreInside, PublishPC
  <2>4. ptr' \in [Threads -> 0..(SlotCount + 1)]
    BY <1>0, <1>a, <1>13, <2>2, EntryWritten DEF SwapCurrent
  <2> QED
    BY <1>0, <1>a, <1>13, <2>1, <2>2, <2>3, <2>4 DEF SwapCurrent, LabelsOK
<1>14. CASE UnlockPublished
  <2>1. LabelsOK'
    BY <1>0, <1>14, HostLabel
    DEF UnlockPublished, HostPC, PublishPC, DestroyPC, ContextPC, ReleasePC
  <2> QED
    BY <1>0, <1>a, <1>14, <2>1 DEF UnlockPublished, LabelsOK
<1>15. CASE StartDestroy
  <2>1. LabelsOK'
    BY <1>0, <1>15, HostLabel
    DEF StartDestroy, HostPC, PublishPC, DestroyPC, ContextPC, ReleasePC
  <2> QED
    BY <1>0, <1>a, <1>15, <2>1 DEF StartDestroy, LabelsOK
<1>16. CASE LockToDestroy
  <2>1. LabelsOK'
    BY <1>0, <1>16, HostLabel
    DEF LockToDestroy, HostPC, PublishPC, DestroyPC, ContextPC, ReleasePC
  <2> QED
    BY <1>0, <1>a, <1>16, <2>1 DEF LockToDestroy, LabelsOK
<1>17. CASE DetachCurrent
  <2>1. LabelsOK'
    BY <1>0, <1>17, HostLabel
    DEF DetachCurrent, HostPC, PublishPC, DestroyPC, ContextPC, ReleasePC
  <2> QED
    BY <1>0, <1>a, <1>17, <2>1 DEF DetachCurrent, LabelsOK
<1>18. CASE UnlockDetached
  <2>1. LabelsOK'
    BY <1>0, <1>18, HostLabel
    DEF UnlockDetached, HostPC, PublishPC, DestroyPC, ContextPC, ReleasePC
  <2> QED
    BY <1>0, <1>a, <1>18, <2>1 DEF UnlockDetached, LabelsOK
<1>19. CASE UncountSession
  <2>1. LabelsOK'
    BY <1>0, <1>19, HostLabel
    DEF UncountSession, HostPC, PublishPC, DestroyPC, ContextPC, ReleasePC
  <2> QED
    BY <1>0, <1>a, <1>19, <2>1 DEF UncountSession, LabelsOK
<1>20. CASE StartContextDestroy
  <2>1. LabelsOK'
    BY <1>0, <1>20, HostLabel
    DEF StartContextDestroy, HostPC, PublishPC, DestroyPC, ContextPC, ReleasePC
  <2> QED
    BY <1>0, <1>a, <1>20, <2>1 DEF StartContextDestroy, LabelsOK
<1>21. CASE LoadSessionCount
  <2>1. LabelsOK'
    <3>1. PICK l \in {"idle", "ctxResults"} : Goto(Host, l)
      BY <1>21 DEF LoadSessionCount
    <3> QED
      BY <1>0, <3>1, HostLabel DEF HostPC, ContextPC
  <2> QED
    BY <1>0, <1>a, <1>21, <2>1 DEF LoadSessionCount, LabelsOK
<1>22. CASE LoadResultCount
  <2>1. LabelsOK'
    <3>1. PICK l \in {"idle", "ctxBytes"} : Goto(Host, l)
      BY <1>22 DEF LoadResultCount
    <3> QED
      BY <1>0, <3>1, HostLabel DEF HostPC, ContextPC
  <2> QED
    BY <1>0, <1>a, <1>22, <2>1 DEF LoadResultCount, LabelsOK
<1>23. CASE LoadBytesAndFree
  <2>1. LabelsOK'
    BY <1>0, <1>23, HostLabel
    DEF LoadBytesAndFree, HostPC, PublishPC, DestroyPC, ContextPC, ReleasePC
  <2> QED
    BY <1>0, <1>a, <1>23, <2>1 DEF LoadBytesAndFree, LabelsOK
<1>24. ASSUME NEW r \in Readers, StartAcquire(r) PROVE TypeOK'
  <2>1. LabelsOK'
    BY <1>0, <1>24, ReaderLabel DEF StartAcquire, ReaderPC, AcquirePC, ReleasePC
  <2> QED
    BY <1>0, <1>a, <1>24, <2>1 DEF StartAcquire, LabelsOK
<1>25. ASSUME NEW r \in Readers, LockToAcquire(r) PROVE TypeOK'
  <2>1. LabelsOK'
    BY <1>0, <1>25, ReaderLabel DEF LockToAcquire, ReaderPC, AcquirePC, ReleasePC
  <2> QED
    BY <1>0, <1>a, <1>25, <2>1 DEF LockToAcquire, LabelsOK
<1>26. ASSUME NEW r \in Readers, ReadCurrent(r) PROVE TypeOK'
  <2>1. LabelsOK'
    BY <1>0, <1>26, ReaderLabel DEF ReadCurrent, ReaderPC, AcquirePC, ReleasePC
  <2> QED
    BY <1>0, <1>a, <1>26, <2>1 DEF ReadCurrent, LabelsOK
<1>27. ASSUME NEW r \in Readers, RetainResult(r) PROVE TypeOK'
  <2>1. LabelsOK'
    BY <1>0, <1>27, ReaderLabel DEF RetainResult, ReaderPC, AcquirePC, ReleasePC
  <2>2. reference_count' \in [Slots -> Int]
    BY <1>0, <1>27, EntryWritten DEF RetainResult, Retained
  <2> QED
    BY <1>0, <1>a, <1>27, <2>1, <2>2 DEF RetainResult, LabelsOK
<1>28. ASSUME NEW r \in Readers, UnlockAcquired(r) PROVE TypeOK'
  <2>1. LabelsOK'
    BY <1>0, <1>28, ReaderLabel DEF UnlockAcquired, ReaderPC, AcquirePC, ReleasePC
  <2> QED
    BY <1>0, <1>a, <1>28, <2>1 DEF UnlockAcquired, LabelsOK
<1>29. ASSUME NEW r \in Readers, Inspect(r) PROVE TypeOK'
  <2>1. LabelsOK'
    BY <1>0, <1>29 DEF Inspect, LabelsOK
  <2>2. content[ptr[r]] \in 0..MaxGeneration
    BY <1>0, <1>29 DEF Inspect, Control, PointersAreValid, OwnsRef, Threads
  <2> QED
    BY <1>0, <1>a, <1>29, <2>1, <2>2 DEF Inspect, LabelsOK
<1>30. ASSUME NEW r \in Readers, StartRelease(r) PROVE TypeOK'
  <2>1. LabelsOK'
    BY <1>0, <1>30, ReaderLabel DEF StartRelease, ReaderPC, AcquirePC, ReleasePC
  <2> QED
    BY <1>0, <1>a, <1>30, <2>1 DEF StartRelease, LabelsOK
<1>31. ASSUME NEW t \in Threads, DropReference(t) PROVE TypeOK'
  <2>1. LabelsOK'
    <3>1. PICK l \in ReleasePC \cup {Return(t)} : Goto(t, l)
      BY <1>31 DEF DropReference, ReleasePC
    <3> QED
      BY <1>0, <3>1, ReleaseLabel
  <2>2. reference_count' \in [Slots -> Int]
    BY <1>0, <1>31, EntryWritten DEF DropReference
  <2>3. ptr' \in [Threads -> 0..(SlotCount + 1)]
    <3>1. ptr' = ptr \/ ptr' = [ptr EXCEPT ![t] = NoSlot]
      BY <1>31 DEF DropReference
    <3> QED
      BY <1>0, <1>a, <3>1, EntryWritten
  <2> QED
    BY <1>0, <1>a, <1>31, <2>1, <2>2, <2>3 DEF DropReference, LabelsOK
<1>32. ASSUME NEW t \in Threads, UncountResult(t) PROVE TypeOK'
  <2>1. LabelsOK'
    BY <1>0, <1>32, ReleaseLabel DEF UncountResult, ReleasePC
  <2> QED
    BY <1>0, <1>a, <1>32, <2>1 DEF UncountResult, LabelsOK
<1>33. ASSUME NEW t \in Threads, FreeSlot(t) PROVE TypeOK'
  <2>1. LabelsOK'
    <3>1. PICK l \in ReleasePC \cup {Return(t)} : Goto(t, l)
      BY <1>33 DEF FreeSlot, ReleasePC
    <3> QED
      BY <1>0, <3>1, ReleaseLabel
  <2> QED
    BY <1>0, <1>a, <1>33, <2>1 DEF FreeSlot, LabelsOK
<1>34. ASSUME NEW t \in Threads, DropPool(t) PROVE TypeOK'
  <2>1. LabelsOK'
    <3>1. PICK l \in ReleasePC \cup {Return(t)} : Goto(t, l)
      BY <1>34 DEF DropPool, ReleasePC
    <3> QED
      BY <1>0, <3>1, ReleaseLabel
  <2> QED
    BY <1>0, <1>a, <1>34, <2>1 DEF DropPool, LabelsOK
<1>35. ASSUME NEW t \in Threads, FreePool(t) PROVE TypeOK'
  <2>1. LabelsOK'
    BY <1>0, <1>35, ReleaseLabel DEF FreePool, ReleasePC
  <2> QED
    BY <1>0, <1>a, <1>35, <2>1 DEF FreePool, LabelsOK
<1>36. ASSUME NEW t \in Threads, ReturnBytes(t) PROVE TypeOK'
  <2>1. LabelsOK'
    <3>1. PICK l \in ReleasePC \cup {Return(t)} : Goto(t, l)
      BY <1>36 DEF ReturnBytes, ReleasePC
    <3> QED
      BY <1>0, <3>1, ReleaseLabel
  <2> QED
    BY <1>0, <1>a, <1>36, <2>1 DEF ReturnBytes, LabelsOK
<1> HIDE DEF TypeOK
<1> QED
  BY <1>1, <1>2, <1>3, <1>4, <1>5, <1>6, <1>7, <1>8, <1>9, <1>10, <1>11, <1>12,
     <1>13, <1>14, <1>15, <1>16, <1>17, <1>18, <1>19, <1>20, <1>21, <1>22, <1>23, <1>24,
     <1>25, <1>26, <1>27, <1>28, <1>29, <1>30, <1>31, <1>32, <1>33, <1>34, <1>35, <1>36
  DEF Next, PublishNext, DestroyNext, ReaderNext, ReleaseNext

(* Every step keeps the lock, the phases and the pointers in order. *)
LEMMA ControlStep == Shape /\ Next => Control'
<1> SUFFICES ASSUME Shape, Next PROVE Control'
  OBVIOUS
<1> USE PoolAssumption DEF Shape, Control, TypeOK, LockIsHeld, CallsAreInside,
         CurrentIsThere, PointersAreValid, Slots, Threads, NoSlot, LockedPC,
         AcquirePC, PublishPC, DestroyPC, ReleasePC, ContextPC, ReaderPC, HostPC,
         OwnsRef, OwnsSlot, Goto, Return, sessionVars, slotVars, poolVars,
         contextVars, threadVars, GenerationLeft, LockIsFree, Retained, LastReference
<1>1. CASE CreateSession
  BY <1>1 DEF CreateSession
<1>2. CASE StartPublish
  BY <1>2 DEF StartPublish
<1>3. CASE ClaimSlot
  BY <1>3 DEF ClaimSlot
<1>4. CASE SkipSlot
  BY <1>4 DEF SkipSlot
<1>5. CASE SlotsExhausted
  BY <1>5 DEF SlotsExhausted
<1>6. CASE ClearSlot
  BY <1>6 DEF ClearSlot
<1>7. CASE FillHeader
  BY <1>7 DEF FillHeader
<1>8. CASE RetainPool
  BY <1>8 DEF RetainPool
<1>9. CASE CountResult
  BY <1>9 DEF CountResult
<1>10. CASE BuildSnapshot
  BY <1>10 DEF BuildSnapshot
<1>11. CASE BuildFails
  BY <1>11 DEF BuildFails
<1>12. CASE LockToPublish
  BY <1>12 DEF LockToPublish
<1>13. CASE SwapCurrent
  BY <1>13 DEF SwapCurrent
<1>14. CASE UnlockPublished
  BY <1>14 DEF UnlockPublished
<1>15. CASE StartDestroy
  BY <1>15 DEF StartDestroy
<1>16. CASE LockToDestroy
  BY <1>16 DEF LockToDestroy
<1>17. CASE DetachCurrent
  BY <1>17 DEF DetachCurrent
<1>18. CASE UnlockDetached
  BY <1>18 DEF UnlockDetached
<1>19. CASE UncountSession
  BY <1>19 DEF UncountSession
<1>20. CASE StartContextDestroy
  BY <1>20 DEF StartContextDestroy
<1>21. CASE LoadSessionCount
  BY <1>21 DEF LoadSessionCount
<1>22. CASE LoadResultCount
  BY <1>22 DEF LoadResultCount
<1>23. CASE LoadBytesAndFree
  BY <1>23 DEF LoadBytesAndFree
<1>24. ASSUME NEW r \in Readers, StartAcquire(r) PROVE Control'
  BY <1>24 DEF StartAcquire
<1>25. ASSUME NEW r \in Readers, LockToAcquire(r) PROVE Control'
  BY <1>25 DEF LockToAcquire
<1>26. ASSUME NEW r \in Readers, ReadCurrent(r) PROVE Control'
  BY <1>26 DEF ReadCurrent
<1>27. ASSUME NEW r \in Readers, RetainResult(r) PROVE Control'
  BY <1>27 DEF RetainResult
<1>28. ASSUME NEW r \in Readers, UnlockAcquired(r) PROVE Control'
  BY <1>28 DEF UnlockAcquired
<1>29. ASSUME NEW r \in Readers, Inspect(r) PROVE Control'
  BY <1>29 DEF Inspect
<1>30. ASSUME NEW r \in Readers, StartRelease(r) PROVE Control'
  BY <1>30 DEF StartRelease
<1>31. ASSUME NEW t \in Threads, DropReference(t) PROVE Control'
  <2>1. /\ pc[t] = "decRef" /\ UNCHANGED <<sessionVars, return>>
        /\ \A u \in Threads : u # t => pc'[u] = pc[u] /\ ptr'[u] = ptr[u]
    BY <1>31 DEF DropReference
  <2>2. \/ pc'[t] = "decCount" /\ ptr'[t] = ptr[t]
        \/ pc'[t] = Return(t)
    BY <1>31 DEF DropReference
  <2>3. LockIsHeld'
    BY <2>1, <2>2
  <2>4. CallsAreInside'
    <3>1. CASE t = Host
      BY <2>1, <2>2, <3>1
    <3>2. CASE t \in Readers
      BY <2>1, <2>2, <3>2
    <3> QED
      BY <3>1, <3>2
  <2>5. CurrentIsThere'
    BY <2>1, <2>2
  <2>6. PointersAreValid'
    BY <2>1, <2>2
  <2> QED
    BY <2>3, <2>4, <2>5, <2>6
<1>32. ASSUME NEW t \in Threads, UncountResult(t) PROVE Control'
  BY <1>32 DEF UncountResult
<1>33. ASSUME NEW t \in Threads, FreeSlot(t) PROVE Control'
  <2>1. LockIsHeld'
    BY <1>33 DEF FreeSlot
  <2>2. CallsAreInside'
    BY <1>33 DEF FreeSlot
  <2>3. CurrentIsThere' /\ PointersAreValid'
    BY <1>33 DEF FreeSlot
  <2> QED
    BY <2>1, <2>2, <2>3
<1>34. ASSUME NEW t \in Threads, DropPool(t) PROVE Control'
  BY <1>34 DEF DropPool
<1>35. ASSUME NEW t \in Threads, FreePool(t) PROVE Control'
  BY <1>35 DEF FreePool
<1>36. ASSUME NEW t \in Threads, ReturnBytes(t) PROVE Control'
  BY <1>36 DEF ReturnBytes
<1> HIDE DEF Shape, TypeOK, Control
<1> QED
  BY <1>1, <1>2, <1>3, <1>4, <1>5, <1>6, <1>7, <1>8, <1>9, <1>10, <1>11, <1>12,
     <1>13, <1>14, <1>15, <1>16, <1>17, <1>18, <1>19, <1>20, <1>21, <1>22, <1>23, <1>24,
     <1>25, <1>26, <1>27, <1>28, <1>29, <1>30, <1>31, <1>32, <1>33, <1>34, <1>35, <1>36
  DEF Next, PublishNext, DestroyNext, ReaderNext, ReleaseNext

(* Types and control hold in every reachable state.                         *)
LEMMA ShapeAlways == Spec => []Shape
<1>1. Shape /\ UNCHANGED vars => Shape'
  BY DEF vars, sessionVars, slotVars, poolVars, contextVars, threadVars, Shape, Control,
         TypeOK, LockIsHeld, CallsAreInside, CurrentIsThere, PointersAreValid
<1>2. Shape /\ [Next]_vars => Shape'
  BY <1>1, TypeStep, ControlStep DEF Shape
<1> QED
  BY InitShape, <1>2, PTL DEF Spec

(* The largest generation is never exceeded, no slot index leaves the pool *)
(* and no thread loses its place, whatever the interleaving.               *)
THEOREM TypeCorrect == Spec => []TypeOK
<1>1. Shape => TypeOK
  BY DEF Shape
<1> QED
  BY ShapeAlways, <1>1, PTL

--------------------------------------------------------------------------------
(* Ownership. *)

(* The owner of a slot shares it with nobody.                               *)
OwnersAreAlone ==
    /\ \A t, u \in Threads :
           /\ pc[t] \in OwnsSlot
           /\ pc[u] \in OwnsRef \cup OwnsSlot
           /\ ptr[u] = ptr[t]
           => u = t
    /\ \A t \in Threads : pc[t] \in OwnsSlot => ptr[t] # current_result

Ownership == ReferencesAreCounted /\ OwnersAreAlone /\ NoLostSlot

(* How the cardinality of a set changes when one element joins or leaves.  *)
LEMMA OneElement ==
    ASSUME NEW A, IsFiniteSet(A), NEW x
    PROVE  /\ Cardinality(A) \in Nat
           /\ IsFiniteSet(A \cup {x}) /\ IsFiniteSet(A \ {x})
           /\ Cardinality(A \cup {x}) =
                  Cardinality(A) + (IF x \in A THEN 0 ELSE 1)
           /\ Cardinality(A \ {x}) =
                  Cardinality(A) - (IF x \in A THEN 1 ELSE 0)
BY FS_CardinalityType, FS_AddElement, FS_RemoveElement

(* The owners of a slot are finitely many, so they can be counted.          *)
LEMMA OwnersAreFinite ==
    ASSUME NEW s
    PROVE  IsFiniteSet(RefOwners(s))
<1>1. IsFiniteSet(Threads)
  BY PoolAssumption, FS_AddElement DEF Threads
<1>2. RefOwners(s) \subseteq Threads
  BY DEF RefOwners
<1> QED
  BY <1>1, <1>2, FS_Subset

(* Thread t moves to label l with pointer p; the owners of slot s change by *)
(* t at most.                                                               *)
Moves(t, l, p) ==
    /\ pc' = [pc EXCEPT ![t] = l]
    /\ ptr' = [ptr EXCEPT ![t] = p]

(* Only the thread that moves can join or leave the owners of a slot.       *)
LEMMA OwnersMove ==
    ASSUME TypeOK, NEW t \in Threads, NEW l, NEW p, Moves(t, l, p), NEW s
    PROVE  /\ RefOwners(s)' = IF l \in OwnsRef /\ p = s
                              THEN RefOwners(s) \cup {t} ELSE RefOwners(s) \ {t}
           /\ SlotOwners(s)' = IF l \in OwnsSlot /\ p = s
                               THEN SlotOwners(s) \cup {t} ELSE SlotOwners(s) \ {t}
<1>1. /\ pc'[t] = l /\ ptr'[t] = p
      /\ \A u \in Threads \ {t} : pc'[u] = pc[u] /\ ptr'[u] = ptr[u]
  BY DEF Moves, TypeOK
<1> QED
  BY <1>1 DEF RefOwners, SlotOwners

(* The number of owners of a slot after one thread has moved.               *)
LEMMA CountMove ==
    ASSUME TypeOK, NEW t \in Threads, NEW l, NEW p, Moves(t, l, p), NEW s
    PROVE  /\ Cardinality(RefOwners(s)) \in Nat
           /\ Cardinality(RefOwners(s)') =
                  Cardinality(RefOwners(s))
                  + (IF l \in OwnsRef /\ p = s THEN 1 ELSE 0)
                  - (IF pc[t] \in OwnsRef /\ ptr[t] = s THEN 1 ELSE 0)
<1>1. t \in RefOwners(s) <=> pc[t] \in OwnsRef /\ ptr[t] = s
  BY DEF RefOwners
<1> DEFINE A == RefOwners(s)
<1>2. IsFiniteSet(A)
  BY OwnersAreFinite
<1>3. RefOwners(s)' = IF l \in OwnsRef /\ p = s THEN A \cup {t} ELSE A \ {t}
  BY OwnersMove
<1> HIDE DEF A
<1>4. /\ Cardinality(A) \in Nat
      /\ Cardinality(A \cup {t}) = Cardinality(A) + (IF t \in A THEN 0 ELSE 1)
      /\ Cardinality(A \ {t}) = Cardinality(A) - (IF t \in A THEN 1 ELSE 0)
  BY <1>2, OneElement
<1>5. t \in A <=> pc[t] \in OwnsRef /\ ptr[t] = s
  BY <1>1 DEF A
<1>6. Cardinality(RefOwners(s)') =
          Cardinality(A) + (IF l \in OwnsRef /\ p = s THEN 1 ELSE 0)
                         - (IF t \in A THEN 1 ELSE 0)
  BY <1>3, <1>4
<1> QED
  BY <1>4, <1>5, <1>6 DEF A

(* Before anything is created nobody owns a slot.                           *)
LEMMA InitOwnership == Init => Ownership
<1> SUFFICES ASSUME Init PROVE Ownership
  OBVIOUS
<1>1. \A s : RefOwners(s) = {} /\ SlotOwners(s) = {}
  BY DEF Init, RefOwners, SlotOwners, OwnsRef, OwnsSlot, Threads
<1>2. \A s \in Slots : SessionOwns(s) = 0
  BY PoolAssumption DEF Init, SessionOwns, Slots, NoSlot
<1>3. ReferencesAreCounted
  BY <1>1, <1>2, FS_EmptySet DEF Init, ReferencesAreCounted
<1>4. OwnersAreAlone
  BY DEF Init, OwnersAreAlone, OwnsSlot
<1>5. NoLostSlot
  BY <1>1, PoolAssumption DEF Init, NoLostSlot, Slots, NoSlot
<1> QED
  BY <1>3, <1>4, <1>5 DEF Ownership

(* A step that hands nothing over keeps the ownership as it is.             *)
LEMMA NeutralMove ==
    ASSUME TypeOK, Ownership, NEW t \in Threads, NEW l, NEW p, Moves(t, l, p),
           l \in OwnsRef <=> pc[t] \in OwnsRef,
           l \in OwnsSlot <=> pc[t] \in OwnsSlot,
           pc[t] \in OwnsRef \cup OwnsSlot => p = ptr[t],
           UNCHANGED <<active, reference_count, current_result>>
    PROVE  Ownership'
<1>1. \A s : RefOwners(s)' = RefOwners(s) /\ SlotOwners(s)' = SlotOwners(s)
  BY OwnersMove DEF RefOwners, SlotOwners
<1>2. ReferencesAreCounted'
  BY <1>1 DEF Ownership, ReferencesAreCounted, SessionOwns
<1>3. \A u \in Threads : /\ pc'[u] \in OwnsRef <=> pc[u] \in OwnsRef
                         /\ pc'[u] \in OwnsSlot <=> pc[u] \in OwnsSlot
                         /\ pc[u] \in OwnsRef \cup OwnsSlot => ptr'[u] = ptr[u]
  BY DEF Moves, TypeOK
<1>4. OwnersAreAlone'
  BY <1>3 DEF Ownership, OwnersAreAlone
<1>5. NoLostSlot'
  BY <1>1 DEF Ownership, NoLostSlot
<1> QED
  BY <1>2, <1>4, <1>5 DEF Ownership

(* The creator of a slot turns its exclusive ownership into a reference.    *)
LEMMA SlotBecomesReference ==
    ASSUME TypeOK, Ownership, NEW t \in Threads, NEW l, l \in OwnsRef, l \notin OwnsSlot,
           pc[t] \in OwnsSlot, pc[t] \notin OwnsRef, ptr[t] \in Slots,
           Moves(t, l, ptr[t]),
           UNCHANGED <<active, current_result>>,
           \A s \in Slots : reference_count'[s] =
                                reference_count[s] + (IF s = ptr[t] THEN 1 ELSE 0)
    PROVE  Ownership'
<1>1. \A s \in Slots :
          /\ Cardinality(RefOwners(s)) \in Nat
          /\ Cardinality(RefOwners(s)') = Cardinality(RefOwners(s))
                 + (IF ptr[t] = s THEN 1 ELSE 0)
  BY CountMove
<1>2. ReferencesAreCounted'
  BY <1>1 DEF Ownership, ReferencesAreCounted, SessionOwns, TypeOK
<1>3. /\ pc'[t] = l /\ ptr'[t] = ptr[t]
      /\ \A u \in Threads \ {t} : pc'[u] = pc[u] /\ ptr'[u] = ptr[u]
  BY DEF Moves, TypeOK
<1>4. OwnersAreAlone'
  BY <1>3 DEF Ownership, OwnersAreAlone
<1>5. NoLostSlot'
  <2>1. \A s : /\ RefOwners(s)' = IF ptr[t] = s THEN RefOwners(s) \cup {t}
                                                ELSE RefOwners(s)
               /\ SlotOwners(s)' = IF ptr[t] = s THEN SlotOwners(s) \ {t}
                                                 ELSE SlotOwners(s)
    BY OwnersMove DEF RefOwners, SlotOwners
  <2>2. t \in SlotOwners(ptr[t])
    BY DEF SlotOwners
  <2> QED
    BY <2>1, <2>2 DEF Ownership, NoLostSlot
<1> QED
  BY <1>2, <1>4, <1>5 DEF Ownership

(* The releaser of the last reference becomes the owner of the slot.        *)
LEMMA ReferenceBecomesSlot ==
    ASSUME TypeOK, Ownership, NEW t \in Threads, pc[t] = "decRef", ptr[t] \in Slots,
           Moves(t, "decCount", ptr[t]),
           RefOwners(ptr[t]) = {t}, current_result # ptr[t],
           UNCHANGED <<active, current_result>>,
           \A s \in Slots : reference_count'[s] =
                                reference_count[s] - (IF s = ptr[t] THEN 1 ELSE 0)
    PROVE  Ownership'
<1>1. \A s \in Slots :
          /\ Cardinality(RefOwners(s)) \in Nat
          /\ Cardinality(RefOwners(s)') = Cardinality(RefOwners(s))
                 - (IF ptr[t] = s THEN 1 ELSE 0)
  BY CountMove DEF OwnsRef
<1>2. ReferencesAreCounted'
  BY <1>1 DEF Ownership, ReferencesAreCounted, SessionOwns, TypeOK
<1>3. /\ pc'[t] = "decCount" /\ ptr'[t] = ptr[t]
      /\ \A u \in Threads \ {t} : pc'[u] = pc[u] /\ ptr'[u] = ptr[u]
  BY DEF Moves, TypeOK
<1>4. \A u \in Threads \ {t} : pc[u] \in OwnsRef \cup OwnsSlot => ptr[u] # ptr[t]
  <2>1. t \in Threads /\ pc[t] \in OwnsRef
    BY DEF OwnsRef
  <2> QED
    BY <2>1 DEF Ownership, OwnersAreAlone, RefOwners
<1>5. OwnersAreAlone'
  BY <1>3, <1>4 DEF Ownership, OwnersAreAlone, OwnsRef
<1>6. NoLostSlot'
  <2>1. \A s : /\ RefOwners(s)' = RefOwners(s) \ {t}
               /\ SlotOwners(s)' = IF ptr[t] = s THEN SlotOwners(s) \cup {t}
                                                 ELSE SlotOwners(s)
    BY OwnersMove DEF OwnsRef, OwnsSlot, SlotOwners
  <2>2. \A s : s # ptr[t] => t \notin RefOwners(s)
    BY DEF RefOwners
  <2> QED
    BY <2>1, <2>2 DEF Ownership, NoLostSlot
<1> QED
  BY <1>2, <1>5, <1>6 DEF Ownership

(* Every step keeps the count of every slot equal to the number of its     *)
(* owners and leaves a slot that is written or recycled to one thread.     *)
LEMMA OwnershipStep == Shape /\ Ownership /\ Next => Ownership'
<1> SUFFICES ASSUME Shape, Ownership, Next PROVE Ownership'
  OBVIOUS
<1> USE DEF Shape
<1> Host \in Threads
  BY DEF Threads
<1> Readers \subseteq Threads
  BY DEF Threads
<1>1. CASE CreateSession
  <2>1. \A s : RefOwners(s) = {} /\ SlotOwners(s) = {}
    BY <1>1 DEF CreateSession, Control, CallsAreInside, RefOwners, SlotOwners,
                  OwnsRef, OwnsSlot
  <2>2. \A s : RefOwners(s)' = {} /\ SlotOwners(s)' = {}
    BY <1>1, <2>1 DEF CreateSession, threadVars, RefOwners, SlotOwners
  <2>3. current_result \notin Slots /\ 1 \in Slots
    BY <1>1, PoolAssumption
    DEF CreateSession, Control, CurrentIsThere, Slots
  <2>4. \A s \in Slots : reference_count[s] = 0 /\ ~active[s]
    BY <2>1, <2>3, FS_EmptySet
    DEF Ownership, ReferencesAreCounted, NoLostSlot, SessionOwns
  <2>5. ReferencesAreCounted'
    <3>1. \A s \in Slots : Cardinality(RefOwners(s)') = 0
      BY <2>2, FS_EmptySet
    <3>2. \A s \in Slots : reference_count'[s] = IF s = 1 THEN 1 ELSE 0
      BY <1>1, <2>3, <2>4 DEF CreateSession, TypeOK
    <3>3. current_result' = 1
      BY <1>1 DEF CreateSession
    <3> QED
      BY <3>1, <3>2, <3>3 DEF ReferencesAreCounted, SessionOwns
  <2>6. OwnersAreAlone'
    BY <1>1 DEF CreateSession, threadVars, Control, CallsAreInside,
                  OwnersAreAlone, OwnsSlot
  <2>7. NoLostSlot'
    BY <1>1, <2>2, <2>4 DEF CreateSession, NoLostSlot, TypeOK
  <2> QED
    BY <2>5, <2>6, <2>7 DEF Ownership
<1>2. CASE StartPublish
  <2>1. Moves(Host, "scan", 1)
    BY <1>2 DEF StartPublish, Goto, Moves, TypeOK
  <2>2. UNCHANGED <<active, reference_count, current_result>>
    BY <1>2 DEF StartPublish, sessionVars, slotVars, poolVars, contextVars
  <2> QED
    BY <1>2, <2>1, <2>2, NeutralMove DEF StartPublish, OwnsRef, OwnsSlot
<1>3. CASE ClaimSlot
  <2> DEFINE s0 == ptr[Host]
  <2>1. Moves(Host, "clear", s0) /\ s0 \in Slots /\ pc[Host] = "scan"
    BY <1>3 DEF ClaimSlot, Goto, Moves, TypeOK
  <2>2. RefOwners(s0) = {} /\ SlotOwners(s0) = {} /\ current_result # s0
    BY <1>3, <2>1 DEF ClaimSlot, SlotIsFree, Ownership, NoLostSlot
  <2>3. \A s : /\ RefOwners(s)' = RefOwners(s)
               /\ SlotOwners(s)' = IF s = s0 THEN {Host} ELSE SlotOwners(s)
    BY <2>1, <2>2, OwnersMove DEF RefOwners, SlotOwners, OwnsRef, OwnsSlot
  <2>4. ReferencesAreCounted'
    BY <1>3, <2>3
    DEF ClaimSlot, sessionVars, Ownership, ReferencesAreCounted, SessionOwns
  <2>5. OwnersAreAlone'
    <3>1. \A u \in Threads : pc[u] \in OwnsRef \cup OwnsSlot => ptr[u] # s0
      BY <2>2 DEF RefOwners, SlotOwners
    <3>2. /\ pc'[Host] = "clear" /\ ptr'[Host] = s0
          /\ \A u \in Threads \ {Host} : pc'[u] = pc[u] /\ ptr'[u] = ptr[u]
      BY <2>1 DEF Moves, TypeOK
    <3> QED
      BY <1>3, <2>2, <3>1, <3>2
      DEF ClaimSlot, sessionVars, Ownership, OwnersAreAlone, OwnsRef
  <2>6. NoLostSlot'
    BY <1>3, <2>1, <2>3
    DEF ClaimSlot, sessionVars, Ownership, NoLostSlot, TypeOK
  <2> QED
    BY <2>4, <2>5, <2>6 DEF Ownership
<1>4. CASE SkipSlot
  <2>1. Moves(Host, "scan", ptr[Host] + 1)
    BY <1>4 DEF SkipSlot, Goto, Moves, TypeOK
  <2>2. UNCHANGED <<active, reference_count, current_result>>
    BY <1>4 DEF SkipSlot, sessionVars, slotVars, poolVars, contextVars
  <2> QED
    BY <1>4, <2>1, <2>2, NeutralMove DEF SkipSlot, OwnsRef, OwnsSlot
<1>5. CASE SlotsExhausted
  <2>1. Moves(Host, "idle", NoSlot)
    BY <1>5 DEF SlotsExhausted, Goto, Moves, TypeOK
  <2>2. UNCHANGED <<active, reference_count, current_result>>
    BY <1>5 DEF SlotsExhausted, sessionVars, slotVars, poolVars, contextVars
  <2> QED
    BY <1>5, <2>1, <2>2, NeutralMove DEF SlotsExhausted, OwnsRef, OwnsSlot
<1>6. CASE ClearSlot
  <2> DEFINE s0 == ptr[Host]
  <2>1. Moves(Host, "fill", s0) /\ s0 \in Slots /\ pc[Host] = "clear"
    BY <1>6 DEF ClearSlot, Goto, Moves, TypeOK, Control, PointersAreValid, OwnsSlot
  <2>2. RefOwners(s0) = {} /\ current_result # s0
    BY <2>1 DEF Ownership, OwnersAreAlone, RefOwners, OwnsRef, OwnsSlot
  <2>3. \A s \in Slots : reference_count'[s] = reference_count[s]
    <3>1. reference_count[s0] = 0
      BY <2>1, <2>2, FS_EmptySet DEF Ownership, ReferencesAreCounted, SessionOwns
    <3> QED
      BY <1>6, <2>1, <3>1 DEF ClearSlot, TypeOK
  <2>4. UNCHANGED <<active, reference_count, current_result>>
    BY <1>6, <2>3 DEF ClearSlot, TypeOK, sessionVars
  <2> QED
    BY <2>1, <2>4, NeutralMove DEF OwnsRef, OwnsSlot
<1>7. CASE FillHeader
  <2> DEFINE s0 == ptr[Host]
  <2>1. Moves(Host, "retain", s0) /\ s0 \in Slots /\ pc[Host] = "fill"
    BY <1>7 DEF FillHeader, Goto, Moves, TypeOK, Control, PointersAreValid, OwnsSlot
  <2>2. RefOwners(s0) = {} /\ current_result # s0 /\ SlotOwners(s0) = {Host}
    BY <2>1 DEF Ownership, OwnersAreAlone, RefOwners, SlotOwners, OwnsRef, OwnsSlot
  <2>3. \A s \in Slots : reference_count'[s] =
                             reference_count[s] + (IF s = s0 THEN 1 ELSE 0)
    <3>1. reference_count[s0] = 0
      BY <2>1, <2>2, FS_EmptySet DEF Ownership, ReferencesAreCounted, SessionOwns
    <3> QED
      BY <1>7, <2>1, <3>1 DEF FillHeader, TypeOK
  <2>4. UNCHANGED <<active, current_result>>
    BY <1>7 DEF FillHeader, sessionVars
  <2> QED
    BY <2>1, <2>3, <2>4, SlotBecomesReference DEF OwnsRef, OwnsSlot
<1>8. CASE RetainPool
  <2>1. Moves(Host, "count", ptr[Host])
    BY <1>8 DEF RetainPool, Goto, Moves, TypeOK
  <2>2. UNCHANGED <<active, reference_count, current_result>>
    BY <1>8 DEF RetainPool, sessionVars, slotVars, poolVars, contextVars
  <2> QED
    BY <1>8, <2>1, <2>2, NeutralMove DEF RetainPool, OwnsRef, OwnsSlot
<1>9. CASE CountResult
  <2>1. Moves(Host, "build", ptr[Host])
    BY <1>9 DEF CountResult, Goto, Moves, TypeOK
  <2>2. UNCHANGED <<active, reference_count, current_result>>
    BY <1>9 DEF CountResult, sessionVars, slotVars, poolVars, contextVars
  <2> QED
    BY <1>9, <2>1, <2>2, NeutralMove DEF CountResult, OwnsRef, OwnsSlot
<1>10. CASE BuildSnapshot
  <2>1. Moves(Host, "pubLock", ptr[Host])
    BY <1>10 DEF BuildSnapshot, Goto, Moves, TypeOK
  <2>2. UNCHANGED <<active, reference_count, current_result>>
    BY <1>10 DEF BuildSnapshot, sessionVars, slotVars, poolVars, contextVars
  <2> QED
    BY <1>10, <2>1, <2>2, NeutralMove DEF BuildSnapshot, OwnsRef, OwnsSlot
<1>11. CASE BuildFails
  <2>1. Moves(Host, "decRef", ptr[Host])
    BY <1>11 DEF BuildFails, Goto, Moves, TypeOK
  <2>2. UNCHANGED <<active, reference_count, current_result>>
    BY <1>11 DEF BuildFails, sessionVars, slotVars, poolVars, contextVars
  <2> QED
    BY <1>11, <2>1, <2>2, NeutralMove DEF BuildFails, OwnsRef, OwnsSlot
<1>12. CASE LockToPublish
  <2>1. Moves(Host, "swap", ptr[Host])
    BY <1>12 DEF LockToPublish, Goto, Moves, TypeOK
  <2>2. UNCHANGED <<active, reference_count, current_result>>
    BY <1>12 DEF LockToPublish, sessionVars, slotVars, poolVars, contextVars
  <2> QED
    BY <1>12, <2>1, <2>2, NeutralMove DEF LockToPublish, OwnsRef, OwnsSlot
<1>13. CASE SwapCurrent
  <2> DEFINE s0 == ptr[Host]
             c == current_result
  <2>1. /\ Moves(Host, "pubUnlock", c) /\ pc[Host] = "swap"
        /\ s0 \in Slots /\ c \in Slots /\ current_result' = s0
    BY <1>13 DEF SwapCurrent, Goto, Moves, Control, PointersAreValid, CurrentIsThere,
                  CallsAreInside, PublishPC, OwnsRef
  <2>2. UNCHANGED <<active, reference_count>>
    BY <1>13 DEF SwapCurrent, slotVars
  <2>3. \A s \in Slots :
            /\ Cardinality(RefOwners(s)) \in Nat
            /\ Cardinality(RefOwners(s)') = Cardinality(RefOwners(s))
                   + (IF c = s THEN 1 ELSE 0) - (IF s0 = s THEN 1 ELSE 0)
    BY <2>1, CountMove DEF OwnsRef
  <2>4. ReferencesAreCounted'
    BY <2>1, <2>2, <2>3 DEF Ownership, ReferencesAreCounted, SessionOwns, TypeOK
  <2>5. /\ pc'[Host] = "pubUnlock" /\ ptr'[Host] = c
        /\ \A u \in Threads \ {Host} : pc'[u] = pc[u] /\ ptr'[u] = ptr[u]
    BY <2>1 DEF Moves, TypeOK
  <2>6. OwnersAreAlone'
    <3>1. \A u \in Threads : pc[u] \in OwnsSlot => ptr[u] # s0 /\ ptr[u] # c
      BY <2>1 DEF Ownership, OwnersAreAlone, OwnsRef, OwnsSlot
    <3>2. pc'[Host] \notin OwnsSlot
      BY <2>5 DEF OwnsSlot
    <3> QED
      BY <2>1, <2>5, <3>1, <3>2 DEF Ownership, OwnersAreAlone
  <2>7. NoLostSlot'
    <3>1. \A s : /\ RefOwners(s)' = IF c = s THEN RefOwners(s) \cup {Host}
                                             ELSE RefOwners(s) \ {Host}
                 /\ SlotOwners(s)' = SlotOwners(s)
      BY <2>1, OwnersMove DEF OwnsRef, OwnsSlot, SlotOwners
    <3>2. Host \in RefOwners(s0) /\ \A s : s # s0 => Host \notin RefOwners(s)
      BY <2>1 DEF RefOwners, OwnsRef
    <3> QED
      BY <2>1, <2>2, <3>1, <3>2 DEF Ownership, NoLostSlot
  <2> QED
    BY <2>4, <2>6, <2>7 DEF Ownership
<1>14. CASE UnlockPublished
  <2>1. Moves(Host, "decRef", ptr[Host])
    BY <1>14 DEF UnlockPublished, Goto, Moves, TypeOK
  <2>2. UNCHANGED <<active, reference_count, current_result>>
    BY <1>14 DEF UnlockPublished, sessionVars, slotVars, poolVars, contextVars
  <2> QED
    BY <1>14, <2>1, <2>2, NeutralMove DEF UnlockPublished, OwnsRef, OwnsSlot
<1>15. CASE StartDestroy
  <2>1. Moves(Host, "desLock", ptr[Host])
    BY <1>15 DEF StartDestroy, Goto, Moves, TypeOK
  <2>2. UNCHANGED <<active, reference_count, current_result>>
    BY <1>15 DEF StartDestroy, sessionVars, slotVars, poolVars, contextVars
  <2> QED
    BY <1>15, <2>1, <2>2, NeutralMove DEF StartDestroy, OwnsRef, OwnsSlot
<1>16. CASE LockToDestroy
  <2>1. Moves(Host, "detach", ptr[Host])
    BY <1>16 DEF LockToDestroy, Goto, Moves, TypeOK
  <2>2. UNCHANGED <<active, reference_count, current_result>>
    BY <1>16 DEF LockToDestroy, sessionVars, slotVars, poolVars, contextVars
  <2> QED
    BY <1>16, <2>1, <2>2, NeutralMove DEF LockToDestroy, OwnsRef, OwnsSlot
<1>17. CASE DetachCurrent
  <2> DEFINE c == current_result
  <2>1. /\ Moves(Host, "desUnlock", c) /\ pc[Host] = "detach"
        /\ c \in Slots /\ current_result' \notin Slots
    BY <1>17, PoolAssumption
    DEF DetachCurrent, Goto, Moves, Control, CurrentIsThere, Slots, NoSlot
  <2>2. UNCHANGED <<active, reference_count>>
    BY <1>17 DEF DetachCurrent, slotVars
  <2>3. \A s \in Slots :
            /\ Cardinality(RefOwners(s)) \in Nat
            /\ Cardinality(RefOwners(s)') = Cardinality(RefOwners(s))
                   + (IF c = s THEN 1 ELSE 0)
    BY <2>1, CountMove DEF OwnsRef
  <2>4. ReferencesAreCounted'
    BY <2>1, <2>2, <2>3 DEF Ownership, ReferencesAreCounted, SessionOwns, TypeOK
  <2>5. /\ pc'[Host] = "desUnlock" /\ ptr'[Host] = c
        /\ \A u \in Threads \ {Host} : pc'[u] = pc[u] /\ ptr'[u] = ptr[u]
    BY <2>1 DEF Moves, TypeOK
  <2>6. OwnersAreAlone'
    <3>1. \A u \in Threads : pc[u] \in OwnsSlot => ptr[u] \in Slots /\ ptr[u] # c
      BY <2>1 DEF Ownership, OwnersAreAlone, OwnsSlot, Control, PointersAreValid
    <3>2. pc'[Host] \notin OwnsSlot
      BY <2>5 DEF OwnsSlot
    <3> QED
      BY <2>1, <2>5, <3>1, <3>2 DEF Ownership, OwnersAreAlone
  <2>7. NoLostSlot'
    <3>1. \A s : /\ RefOwners(s)' = IF c = s THEN RefOwners(s) \cup {Host}
                                             ELSE RefOwners(s) \ {Host}
                 /\ SlotOwners(s)' = SlotOwners(s)
                 /\ Host \notin RefOwners(s)
      BY <2>1, OwnersMove DEF OwnsRef, OwnsSlot, SlotOwners, RefOwners
    <3> QED
      BY <2>1, <2>2, <3>1 DEF Ownership, NoLostSlot
  <2> QED
    BY <2>4, <2>6, <2>7 DEF Ownership
<1>18. CASE UnlockDetached
  <2>1. Moves(Host, "decRef", ptr[Host])
    BY <1>18 DEF UnlockDetached, Goto, Moves, TypeOK
  <2>2. UNCHANGED <<active, reference_count, current_result>>
    BY <1>18 DEF UnlockDetached, sessionVars, slotVars, poolVars, contextVars
  <2> QED
    BY <1>18, <2>1, <2>2, NeutralMove DEF UnlockDetached, OwnsRef, OwnsSlot
<1>19. CASE UncountSession
  <2>1. Moves(Host, "decPool", ptr[Host])
    BY <1>19 DEF UncountSession, Goto, Moves, TypeOK
  <2>2. UNCHANGED <<active, reference_count, current_result>>
    BY <1>19 DEF UncountSession, sessionVars, slotVars, poolVars, contextVars
  <2> QED
    BY <1>19, <2>1, <2>2, NeutralMove DEF UncountSession, OwnsRef, OwnsSlot
<1>20. CASE StartContextDestroy
  <2>1. Moves(Host, "ctxSessions", ptr[Host])
    BY <1>20 DEF StartContextDestroy, Goto, Moves, TypeOK
  <2>2. UNCHANGED <<active, reference_count, current_result>>
    BY <1>20 DEF StartContextDestroy, sessionVars, slotVars, poolVars, contextVars
  <2> QED
    BY <1>20, <2>1, <2>2, NeutralMove DEF StartContextDestroy, OwnsRef, OwnsSlot
<1>21. CASE LoadSessionCount
  <2>1. PICK l \in {"idle", "ctxResults"} : Moves(Host, l, ptr[Host])
    BY <1>21 DEF LoadSessionCount, Goto, Moves, TypeOK
  <2>2. UNCHANGED <<active, reference_count, current_result>>
    BY <1>21 DEF LoadSessionCount, sessionVars, slotVars
  <2> QED
    BY <1>21, <2>1, <2>2, NeutralMove DEF LoadSessionCount, OwnsRef, OwnsSlot
<1>22. CASE LoadResultCount
  <2>1. PICK l \in {"idle", "ctxBytes"} : Moves(Host, l, ptr[Host])
    BY <1>22 DEF LoadResultCount, Goto, Moves, TypeOK
  <2>2. UNCHANGED <<active, reference_count, current_result>>
    BY <1>22 DEF LoadResultCount, sessionVars, slotVars
  <2> QED
    BY <1>22, <2>1, <2>2, NeutralMove DEF LoadResultCount, OwnsRef, OwnsSlot
<1>23. CASE LoadBytesAndFree
  <2>1. Moves(Host, "idle", ptr[Host])
    BY <1>23 DEF LoadBytesAndFree, Goto, Moves, TypeOK
  <2>2. UNCHANGED <<active, reference_count, current_result>>
    BY <1>23 DEF LoadBytesAndFree, sessionVars, slotVars
  <2> QED
    BY <1>23, <2>1, <2>2, NeutralMove DEF LoadBytesAndFree, OwnsRef, OwnsSlot
<1>24. ASSUME NEW r \in Readers, StartAcquire(r) PROVE Ownership'
  <2>1. Moves(r, "acqLock", ptr[r])
    BY <1>24 DEF StartAcquire, Goto, Moves, TypeOK
  <2>2. UNCHANGED <<active, reference_count, current_result>>
    BY <1>24 DEF StartAcquire, sessionVars, slotVars, poolVars, contextVars
  <2> QED
    BY <1>24, <2>1, <2>2, NeutralMove DEF StartAcquire, OwnsRef, OwnsSlot
<1>25. ASSUME NEW r \in Readers, LockToAcquire(r) PROVE Ownership'
  <2>1. Moves(r, "acqRead", ptr[r])
    BY <1>25 DEF LockToAcquire, Goto, Moves, TypeOK
  <2>2. UNCHANGED <<active, reference_count, current_result>>
    BY <1>25 DEF LockToAcquire, sessionVars, slotVars, poolVars, contextVars
  <2> QED
    BY <1>25, <2>1, <2>2, NeutralMove DEF LockToAcquire, OwnsRef, OwnsSlot
<1>26. ASSUME NEW r \in Readers, ReadCurrent(r) PROVE Ownership'
  <2>1. Moves(r, "acqRetain", current_result)
    BY <1>26 DEF ReadCurrent, Goto, Moves, TypeOK
  <2>2. UNCHANGED <<active, reference_count, current_result>>
    BY <1>26 DEF ReadCurrent, sessionVars, slotVars, poolVars, contextVars
  <2> QED
    BY <1>26, <2>1, <2>2, NeutralMove DEF ReadCurrent, OwnsRef, OwnsSlot
<1>27. ASSUME NEW r \in Readers, RetainResult(r) PROVE Ownership'
  <2> DEFINE c == current_result
  <2>1. /\ Moves(r, "acqUnlock", c) /\ pc[r] = "acqRetain"
        /\ c \in Slots /\ ptr[r] = c
    BY <1>27 DEF RetainResult, Goto, Moves, TypeOK, Control, PointersAreValid,
                  CurrentIsThere, CallsAreInside, AcquirePC
  <2>2. /\ UNCHANGED <<active, current_result>>
        /\ \A s \in Slots : reference_count'[s] =
                                reference_count[s] + (IF s = c THEN 1 ELSE 0)
    BY <1>27, <2>1 DEF RetainResult, Retained, TypeOK, sessionVars
  <2>3. \A s \in Slots :
            /\ Cardinality(RefOwners(s)) \in Nat
            /\ Cardinality(RefOwners(s)') = Cardinality(RefOwners(s))
                   + (IF c = s THEN 1 ELSE 0)
    BY <2>1, CountMove DEF OwnsRef
  <2>4. ReferencesAreCounted'
    BY <2>1, <2>2, <2>3 DEF Ownership, ReferencesAreCounted, SessionOwns, TypeOK
  <2>5. /\ pc'[r] = "acqUnlock" /\ ptr'[r] = c
        /\ \A u \in Threads \ {r} : pc'[u] = pc[u] /\ ptr'[u] = ptr[u]
    BY <2>1 DEF Moves, TypeOK
  <2>6. OwnersAreAlone'
    <3>1. pc'[r] \notin OwnsSlot
      BY <2>5 DEF OwnsSlot
    <3> QED
      BY <2>2, <2>5, <3>1 DEF Ownership, OwnersAreAlone
  <2>7. NoLostSlot'
    <3>1. \A s : /\ RefOwners(s)' = IF c = s THEN RefOwners(s) \cup {r}
                                             ELSE RefOwners(s) \ {r}
                 /\ SlotOwners(s)' = SlotOwners(s)
                 /\ r \notin RefOwners(s)
      BY <2>1, OwnersMove DEF OwnsRef, OwnsSlot, SlotOwners, RefOwners
    <3> QED
      BY <2>1, <2>2, <3>1 DEF Ownership, NoLostSlot
  <2> QED
    BY <2>4, <2>6, <2>7 DEF Ownership
<1>28. ASSUME NEW r \in Readers, UnlockAcquired(r) PROVE Ownership'
  <2>1. Moves(r, "holding", ptr[r])
    BY <1>28 DEF UnlockAcquired, Goto, Moves, TypeOK
  <2>2. UNCHANGED <<active, reference_count, current_result>>
    BY <1>28 DEF UnlockAcquired, sessionVars, slotVars, poolVars, contextVars
  <2> QED
    BY <1>28, <2>1, <2>2, NeutralMove DEF UnlockAcquired, OwnsRef, OwnsSlot
<1>29. ASSUME NEW r \in Readers, Inspect(r) PROVE Ownership'
  <2>1. Moves(r, "holding", ptr[r])
    BY <1>29 DEF Inspect, Goto, Moves, TypeOK
  <2>2. UNCHANGED <<active, reference_count, current_result>>
    BY <1>29 DEF Inspect, sessionVars, slotVars, poolVars, contextVars
  <2> QED
    BY <1>29, <2>1, <2>2, NeutralMove DEF Inspect, OwnsRef, OwnsSlot
<1>30. ASSUME NEW r \in Readers, StartRelease(r) PROVE Ownership'
  <2>1. Moves(r, "decRef", ptr[r])
    BY <1>30 DEF StartRelease, Goto, Moves, TypeOK
  <2>2. UNCHANGED <<active, reference_count, current_result>>
    BY <1>30 DEF StartRelease, sessionVars, slotVars, poolVars, contextVars
  <2> QED
    BY <1>30, <2>1, <2>2, NeutralMove DEF StartRelease, OwnsRef, OwnsSlot
<1>31. ASSUME NEW t \in Threads, DropReference(t) PROVE Ownership'
  <2>0. PICK s0 \in Slots : s0 = ptr[t]
    BY <1>31 DEF DropReference, Control, PointersAreValid, OwnsRef
  <2>1. pc[t] = "decRef" /\ s0 \in Slots /\ t \in RefOwners(s0)
    BY <1>31, <2>0 DEF DropReference, Control, PointersAreValid, RefOwners, OwnsRef
  <2>2. /\ UNCHANGED <<active, current_result>>
        /\ \A s \in Slots : reference_count'[s] =
                                reference_count[s] - (IF s = s0 THEN 1 ELSE 0)
    BY <1>31, <2>0, <2>1 DEF DropReference, TypeOK, sessionVars
  <2>3. CASE LastReference(s0)
    <3>1. Moves(t, "decCount", s0)
      BY <1>31, <2>0, <2>3 DEF DropReference, Goto, Moves, TypeOK
    <3>2. RefOwners(s0) = {t} /\ current_result # s0
      <4>1. /\ IsFiniteSet(RefOwners(s0)) /\ Cardinality(RefOwners(s0)) \in Nat
            /\ Cardinality(RefOwners(s0) \ {t}) = Cardinality(RefOwners(s0)) - 1
            /\ IsFiniteSet(RefOwners(s0) \ {t})
        BY <2>1, OwnersAreFinite, OneElement
      <4>2. Cardinality(RefOwners(s0)) + SessionOwns(s0) = 1
        BY <2>1, <2>3 DEF LastReference, Ownership, ReferencesAreCounted
      <4>3. Cardinality(RefOwners(s0) \ {t}) \in Nat
        BY <4>1, FS_CardinalityType
      <4>4. Cardinality(RefOwners(s0) \ {t}) = 0 /\ SessionOwns(s0) = 0
        BY <4>1, <4>2, <4>3 DEF SessionOwns
      <4>5. RefOwners(s0) \ {t} = {}
        BY <4>1, <4>4, FS_EmptySet
      <4> QED
        BY <2>1, <4>4, <4>5 DEF SessionOwns
    <3> QED
      BY <2>0, <2>1, <2>2, <3>1, <3>2, ReferenceBecomesSlot
  <2>4. CASE ~LastReference(s0)
    <3>1. PICK l \in {"idle", "desCount"} : Moves(t, l, NoSlot)
      BY <1>31, <2>0, <2>4 DEF DropReference, Goto, Moves, Return, TypeOK
    <3>2. \A s \in Slots :
              /\ Cardinality(RefOwners(s)) \in Nat
              /\ Cardinality(RefOwners(s)') = Cardinality(RefOwners(s))
                     - (IF s0 = s THEN 1 ELSE 0)
      BY <2>0, <2>1, <3>1, CountMove DEF OwnsRef
    <3>3. ReferencesAreCounted'
      BY <2>1, <2>2, <3>2 DEF Ownership, ReferencesAreCounted, SessionOwns, TypeOK
    <3>4. /\ pc'[t] = l
          /\ \A u \in Threads \ {t} : pc'[u] = pc[u] /\ ptr'[u] = ptr[u]
      BY <3>1 DEF Moves, TypeOK
    <3>5. OwnersAreAlone'
      BY <2>2, <3>1, <3>4 DEF Ownership, OwnersAreAlone, OwnsRef, OwnsSlot
    <3>6. NoLostSlot'
      <4>1. \A s : /\ RefOwners(s)' = RefOwners(s) \ {t}
                   /\ SlotOwners(s)' = SlotOwners(s)
        BY <2>1, <3>1, OwnersMove DEF OwnsRef, OwnsSlot, SlotOwners
      <4>2. \A s : s # s0 => t \notin RefOwners(s)
        BY <2>0 DEF RefOwners
      <4>3. active[s0]
        BY <2>1 DEF Ownership, NoLostSlot
      <4>4. RefOwners(s0)' # {} \/ current_result = s0
        <5>1. Cardinality(RefOwners(s0)) + SessionOwns(s0) # 1
          BY <2>1, <2>4 DEF LastReference, Ownership, ReferencesAreCounted
        <5>2. Cardinality(RefOwners(s0)') # 0 \/ current_result = s0
          <6>1. /\ Cardinality(RefOwners(s0)) \in Nat
                /\ Cardinality(RefOwners(s0)') = Cardinality(RefOwners(s0)) - 1
            BY <2>1, <3>2
          <6>2. current_result # s0 => SessionOwns(s0) = 0
            BY DEF SessionOwns
          <6> QED
            BY <5>1, <6>1, <6>2
        <5> QED
          BY <5>2, FS_EmptySet
      <4>5. ASSUME NEW s \in Slots, s # s0
            PROVE  RefOwners(s)' = RefOwners(s) /\ SlotOwners(s)' = SlotOwners(s)
        BY <4>1, <4>2, <4>5
      <4>6. active' = active /\ current_result' = current_result
        BY <2>2
      <4> QED
        BY <4>3, <4>4, <4>5, <4>6 DEF Ownership, NoLostSlot
    <3> QED
      BY <3>3, <3>5, <3>6 DEF Ownership
  <2> QED
    BY <2>3, <2>4
<1>32. ASSUME NEW t \in Threads, UncountResult(t) PROVE Ownership'
  <2>1. Moves(t, "freeSlot", ptr[t])
    BY <1>32 DEF UncountResult, Goto, Moves, TypeOK
  <2>2. UNCHANGED <<active, reference_count, current_result>>
    BY <1>32 DEF UncountResult, sessionVars, slotVars, poolVars, contextVars
  <2> QED
    BY <1>32, <2>1, <2>2, NeutralMove DEF UncountResult, OwnsRef, OwnsSlot
<1>33. ASSUME NEW t \in Threads, FreeSlot(t) PROVE Ownership'
  <2> DEFINE s0 == ptr[t]
  <2>1. pc[t] = "freeSlot" /\ s0 \in Slots
    BY <1>33 DEF FreeSlot, Control, PointersAreValid, OwnsSlot
  <2>2. PICK l \in {"decPool", "idle", "desCount"} : Moves(t, l, NoSlot)
    BY <1>33 DEF FreeSlot, Goto, Moves, Return, TypeOK
  <2>3. RefOwners(s0) = {} /\ current_result # s0 /\ SlotOwners(s0) = {t}
    BY <2>1 DEF Ownership, OwnersAreAlone, RefOwners, SlotOwners, OwnsRef, OwnsSlot
  <2>4. \A s : /\ RefOwners(s)' = RefOwners(s)
               /\ SlotOwners(s)' = IF s = s0 THEN {} ELSE SlotOwners(s)
    BY <2>1, <2>2, <2>3, OwnersMove DEF OwnsRef, OwnsSlot, RefOwners, SlotOwners
  <2>5. ReferencesAreCounted'
    BY <1>33, <2>4
    DEF FreeSlot, sessionVars, Ownership, ReferencesAreCounted, SessionOwns
  <2>6. OwnersAreAlone'
    <3>1. /\ pc'[t] = l
          /\ \A u \in Threads \ {t} : pc'[u] = pc[u] /\ ptr'[u] = ptr[u]
      BY <2>2 DEF Moves, TypeOK
    <3> QED
      BY <1>33, <2>2, <3>1
      DEF FreeSlot, sessionVars, Ownership, OwnersAreAlone, OwnsRef, OwnsSlot
  <2>7. NoLostSlot'
    BY <1>33, <2>1, <2>3, <2>4
    DEF FreeSlot, sessionVars, Ownership, NoLostSlot, TypeOK
  <2> QED
    BY <2>5, <2>6, <2>7 DEF Ownership
<1>34. ASSUME NEW t \in Threads, DropPool(t) PROVE Ownership'
  <2>1. PICK l \in {"freePool", "idle", "desCount"} : Moves(t, l, ptr[t])
    BY <1>34 DEF DropPool, Goto, Moves, Return, TypeOK
  <2>2. UNCHANGED <<active, reference_count, current_result>>
    BY <1>34 DEF DropPool, sessionVars, slotVars
  <2> QED
    BY <1>34, <2>1, <2>2, NeutralMove DEF DropPool, OwnsRef, OwnsSlot
<1>35. ASSUME NEW t \in Threads, FreePool(t) PROVE Ownership'
  <2>1. Moves(t, "decBytes", ptr[t])
    BY <1>35 DEF FreePool, Goto, Moves, TypeOK
  <2>2. UNCHANGED <<active, reference_count, current_result>>
    BY <1>35 DEF FreePool, sessionVars, slotVars, poolVars, contextVars
  <2> QED
    BY <1>35, <2>1, <2>2, NeutralMove DEF FreePool, OwnsRef, OwnsSlot
<1>36. ASSUME NEW t \in Threads, ReturnBytes(t) PROVE Ownership'
  <2>1. PICK l \in {"idle", "desCount"} : Moves(t, l, ptr[t])
    BY <1>36 DEF ReturnBytes, Goto, Moves, Return, TypeOK
  <2>2. UNCHANGED <<active, reference_count, current_result>>
    BY <1>36 DEF ReturnBytes, sessionVars, slotVars
  <2> QED
    BY <1>36, <2>1, <2>2, NeutralMove DEF ReturnBytes, OwnsRef, OwnsSlot
<1> HIDE DEF Shape
<1> QED
  BY <1>1, <1>2, <1>3, <1>4, <1>5, <1>6, <1>7, <1>8, <1>9, <1>10, <1>11, <1>12,
     <1>13, <1>14, <1>15, <1>16, <1>17, <1>18, <1>19, <1>20, <1>21, <1>22, <1>23, <1>24,
     <1>25, <1>26, <1>27, <1>28, <1>29, <1>30, <1>31, <1>32, <1>33, <1>34, <1>35, <1>36
  DEF Next, PublishNext, DestroyNext, ReaderNext, ReleaseNext


(* Ownership holds in every reachable state.                                *)
LEMMA OwnershipAlways == Spec => [](Shape /\ Ownership)
<1>1. Ownership /\ UNCHANGED vars => Ownership'
  BY DEF vars, sessionVars, slotVars, threadVars, Ownership, ReferencesAreCounted,
         OwnersAreAlone, NoLostSlot, RefOwners, SlotOwners, SessionOwns
<1>2. Shape /\ Ownership /\ [Next]_vars => Ownership'
  BY <1>1, OwnershipStep
<1> QED
  BY ShapeAlways, InitOwnership, <1>2, PTL DEF Spec

(* The reference count of every slot is the number of its owners, whatever *)
(* the number of readers and the interleaving of their acquisitions and    *)
(* releases with the host's publications and the destruction.              *)
THEOREM CountsAreExact == Spec => []ReferencesAreCounted
<1>1. Ownership => ReferencesAreCounted
  BY DEF Ownership
<1> QED
  BY OwnershipAlways, <1>1, PTL

(* The memset and the refill of a slot never run under a reader: a slot    *)
(* being written or recycled has one owner and is not the current result.  *)
THEOREM SlotsAreExclusive == Spec => []SlotExclusive
<1>1. Ownership => SlotExclusive
  <2> SUFFICES ASSUME Ownership, NEW s \in Slots, NEW t \in SlotOwners(s)
               PROVE  /\ SlotOwners(s) = {t}
                      /\ RefOwners(s) = {}
                      /\ current_result # s
    BY DEF SlotExclusive
  <2>1. t \in Threads /\ pc[t] \in OwnsSlot /\ pc[t] \notin OwnsRef /\ ptr[t] = s
    BY DEF SlotOwners, OwnsSlot, OwnsRef
  <2> QED
    BY <2>1 DEF Ownership, OwnersAreAlone, SlotOwners, RefOwners
<1> QED
  BY OwnershipAlways, <1>1, PTL

(* No interleaving of a release with a scan loses a slot for good.         *)
THEOREM SlotsAreNotLost == Spec => []NoLostSlot
<1>1. Ownership => NoLostSlot
  BY DEF Ownership
<1> QED
  BY OwnershipAlways, <1>1, PTL

--------------------------------------------------------------------------------
(* Snapshots. *)

(* What the host is preparing is the next generation, and what it is about *)
(* to install is built.                                                     *)
NextIsPrepared ==
    /\ session = "absent" <=> generation = 0
    /\ pc[Host] \in {"retain", "count", "build", "pubLock", "swap"} =>
           content[ptr[Host]] = generation + 1
    /\ pc[Host] \in {"pubLock", "swap"} => built[ptr[Host]]

(* What a reader has read is not newer than what it can read next.          *)
SeenIsOld ==
    \A r \in Readers :
        /\ seen[r] <= generation
        /\ pc[r] \in {"acqUnlock", "holding"} => seen[r] <= content[ptr[r]]

Snapshots == NoTornSnapshot /\ NextIsPrepared /\ SeenIsOld

(* Before anything is created there is no result to be torn.                *)
LEMMA InitSnapshots == Init => Snapshots
BY PoolAssumption
DEF Init, Snapshots, NoTornSnapshot, NextIsPrepared, SeenIsOld, OwnsRef, NoSlot, Threads

(* Every step keeps what can be acquired, and what is held, complete.      *)
LEMMA SnapshotsStep == Shape /\ Ownership /\ Snapshots /\ Next => Snapshots'
<1> SUFFICES ASSUME Shape, OwnersAreAlone, Snapshots, Next PROVE Snapshots'
  BY DEF Ownership
<1> USE PoolAssumption
    DEF Shape, Control, TypeOK, CallsAreInside, CurrentIsThere, PointersAreValid,
        Slots, Threads, NoSlot, AcquirePC, PublishPC, DestroyPC, OwnsRef, OwnsSlot,
        Goto, Return, sessionVars, slotVars, poolVars, contextVars, threadVars,
        Snapshots, NoTornSnapshot, NextIsPrepared, SeenIsOld
<1>1. CASE CreateSession
  <2>1. \A r \in Readers : pc'[r] = "idle" /\ pc'[Host] = "idle"
    BY <1>1 DEF CreateSession
  <2>2. 1 \in Slots /\ content'[1] = 1 /\ built'[1] = TRUE
    BY <1>1 DEF CreateSession
  <2>3. generation' = 1 /\ current_result' = 1 /\ seen' = seen
    BY <1>1 DEF CreateSession
  <2>4. \A r \in Readers : seen[r] <= 1
    <3>1. generation <= 1
      BY <1>1 DEF CreateSession
    <3> QED
      BY <3>1
  <2>5. NoTornSnapshot'
    BY <2>1, <2>2, <2>3
  <2>6. NextIsPrepared' /\ SeenIsOld'
    BY <1>1, <2>1, <2>3, <2>4 DEF CreateSession
  <2> QED
    BY <2>5, <2>6
<1>2. CASE StartPublish
  BY <1>2 DEF StartPublish
<1>3. CASE ClaimSlot
  BY <1>3 DEF ClaimSlot
<1>4. CASE SkipSlot
  BY <1>4 DEF SkipSlot
<1>5. CASE SlotsExhausted
  BY <1>5 DEF SlotsExhausted
<1>6. CASE ClearSlot
  <2>1. /\ pc[Host] = "clear" /\ current_result # ptr[Host]
        /\ \A r \in Readers : pc[r] \in OwnsRef => ptr[r] # ptr[Host]
    BY <1>6 DEF ClearSlot, OwnersAreAlone
  <2>2. /\ pc'[Host] = "fill" /\ \A r \in Readers : pc'[r] = pc[r]
        /\ ptr' = ptr /\ seen' = seen /\ session' = session
        /\ generation' = generation /\ current_result' = current_result
    BY <1>6 DEF ClearSlot
  <2>3. \A s \in Slots : s # ptr[Host] => content'[s] = content[s] /\ built'[s] = built[s]
    BY <1>6 DEF ClearSlot
  <2>4. /\ \A r \in Readers : pc[r] \in OwnsRef =>
               content'[ptr[r]] = content[ptr[r]] /\ built'[ptr[r]] = built[ptr[r]]
        /\ current_result # NoSlot =>
               /\ content'[current_result] = content[current_result]
               /\ built'[current_result] = built[current_result]
    BY <2>1, <2>3
  <2> HIDE DEF Shape
  <2>5. NextIsPrepared'
    BY <2>2
  <2>6. NoTornSnapshot'
    BY <2>2, <2>4
  <2>7. SeenIsOld'
    BY <2>2, <2>4
  <2> QED
    BY <2>5, <2>6, <2>7
<1>7. CASE FillHeader
  <2>1. /\ pc[Host] = "fill" /\ current_result # ptr[Host] /\ ptr[Host] \in Slots
        /\ \A r \in Readers : pc[r] \in OwnsRef => ptr[r] # ptr[Host]
    BY <1>7 DEF FillHeader, OwnersAreAlone
  <2>2. /\ pc'[Host] = "retain" /\ \A r \in Readers : pc'[r] = pc[r]
        /\ ptr' = ptr /\ seen' = seen /\ session' = session /\ built' = built
        /\ generation' = generation /\ current_result' = current_result
    BY <1>7 DEF FillHeader
  <2>3. /\ content'[ptr[Host]] = generation + 1
        /\ \A s \in Slots : s # ptr[Host] => content'[s] = content[s]
    BY <1>7, <2>1 DEF FillHeader
  <2>4. /\ \A r \in Readers : pc[r] \in OwnsRef => content'[ptr[r]] = content[ptr[r]]
        /\ current_result # NoSlot => content'[current_result] = content[current_result]
    BY <2>1, <2>3
  <2> HIDE DEF Shape
  <2>5. NextIsPrepared'
    BY <2>2, <2>3
  <2>6. NoTornSnapshot'
    BY <2>2, <2>4
  <2>7. SeenIsOld'
    BY <2>2, <2>4
  <2> QED
    BY <2>5, <2>6, <2>7
<1>8. CASE RetainPool
  BY <1>8 DEF RetainPool
<1>9. CASE CountResult
  BY <1>9 DEF CountResult
<1>10. CASE BuildSnapshot
  BY <1>10 DEF BuildSnapshot
<1>11. CASE BuildFails
  BY <1>11 DEF BuildFails
<1>12. CASE LockToPublish
  BY <1>12 DEF LockToPublish
<1>13. CASE SwapCurrent
  <2> DEFINE s0 == ptr[Host]
  <2>1. /\ s0 \in Slots /\ current_result' = s0 /\ session = "open"
        /\ generation' = generation + 1 /\ generation \in Nat
        /\ pc'[Host] = "pubUnlock" /\ session' = session /\ seen' = seen
        /\ \A r \in Readers : pc'[r] = pc[r] /\ ptr'[r] = ptr[r]
    BY <1>13 DEF SwapCurrent
  <2>2. UNCHANGED <<content, built>> /\ content[s0] = generation + 1 /\ built[s0]
    BY <1>13 DEF SwapCurrent
  <2>3. \A r \in Readers : pc[r] \in OwnsRef =>
            built[ptr[r]] /\ content[ptr[r]] \in 1..generation
    OBVIOUS
  <2>4. \A r \in Readers :
            /\ seen[r] \in Nat /\ seen[r] <= generation
            /\ pc[r] \in {"acqUnlock", "holding"} => seen[r] <= content[ptr[r]]
    OBVIOUS
  <2> HIDE DEF Shape, Snapshots, s0
  <2>5. NoTornSnapshot'
    BY <2>1, <2>2, <2>3
  <2>6. NextIsPrepared'
    BY <2>1
  <2>7. SeenIsOld'
    BY <2>1, <2>2, <2>4
  <2> QED
    BY <2>5, <2>6, <2>7 DEF Snapshots
<1>14. CASE UnlockPublished
  BY <1>14 DEF UnlockPublished
<1>15. CASE StartDestroy
  BY <1>15 DEF StartDestroy
<1>16. CASE LockToDestroy
  BY <1>16 DEF LockToDestroy
<1>17. CASE DetachCurrent
  BY <1>17 DEF DetachCurrent
<1>18. CASE UnlockDetached
  BY <1>18 DEF UnlockDetached
<1>19. CASE UncountSession
  BY <1>19 DEF UncountSession
<1>20. CASE StartContextDestroy
  BY <1>20 DEF StartContextDestroy
<1>21. CASE LoadSessionCount
  BY <1>21 DEF LoadSessionCount
<1>22. CASE LoadResultCount
  BY <1>22 DEF LoadResultCount
<1>23. CASE LoadBytesAndFree
  BY <1>23 DEF LoadBytesAndFree
<1>24. ASSUME NEW r \in Readers, StartAcquire(r) PROVE Snapshots'
  BY <1>24 DEF StartAcquire
<1>25. ASSUME NEW r \in Readers, LockToAcquire(r) PROVE Snapshots'
  BY <1>25 DEF LockToAcquire
<1>26. ASSUME NEW r \in Readers, ReadCurrent(r) PROVE Snapshots'
  BY <1>26 DEF ReadCurrent
<1>27. ASSUME NEW r \in Readers, RetainResult(r) PROVE Snapshots'
  <2>1. /\ ptr[r] = current_result /\ current_result \in Slots
        /\ session = "open" /\ generation \in Nat
    BY <1>27 DEF RetainResult
  <2>2. /\ pc'[r] = "acqUnlock" /\ ptr' = ptr
        /\ pc'[Host] = pc[Host] /\ \A u \in Readers : u # r => pc'[u] = pc[u]
        /\ UNCHANGED <<sessionVars, content, built, seen>>
    BY <1>27 DEF RetainResult
  <2> HIDE DEF Shape
  <2>3. NoTornSnapshot'
    BY <2>1, <2>2
  <2>4. NextIsPrepared'
    BY <2>2
  <2>5. SeenIsOld'
    BY <2>1, <2>2
  <2> QED
    BY <2>3, <2>4, <2>5
<1>28. ASSUME NEW r \in Readers, UnlockAcquired(r) PROVE Snapshots'
  BY <1>28 DEF UnlockAcquired
<1>29. ASSUME NEW r \in Readers, Inspect(r) PROVE Snapshots'
  <2>1. content[ptr[r]] <= generation /\ ptr[r] \in Slots
    BY <1>29 DEF Inspect
  <2>2. /\ seen'[r] = content[ptr[r]]
        /\ \A u \in Readers : u # r => seen'[u] = seen[u]
        /\ UNCHANGED <<sessionVars, slotVars, pc, ptr>>
    BY <1>29 DEF Inspect
  <2>3. NoTornSnapshot' /\ NextIsPrepared'
    BY <2>2
  <2>4. \A u \in Readers :
            /\ seen[u] \in Nat /\ seen[u] <= generation
            /\ pc[u] \in {"acqUnlock", "holding"} => seen[u] <= content[ptr[u]]
    OBVIOUS
  <2>5. content[ptr[r]] \in Nat
    BY <2>1
  <2> HIDE DEF Shape, Snapshots
  <2>6. SeenIsOld'
    BY <2>1, <2>2, <2>4, <2>5
  <2> QED
    BY <2>3, <2>6 DEF Snapshots
<1>30. ASSUME NEW r \in Readers, StartRelease(r) PROVE Snapshots'
  BY <1>30 DEF StartRelease
<1>31. ASSUME NEW t \in Threads, DropReference(t) PROVE Snapshots'
  <2>1. /\ \A u \in Threads : u # t => pc'[u] = pc[u] /\ ptr'[u] = ptr[u]
        /\ pc'[t] \in {"decCount", "idle", "desCount"}
    BY <1>31 DEF DropReference
  <2>2. UNCHANGED <<content, built, generation, current_result, seen, session>>
    BY <1>31 DEF DropReference
  <2>3. NoTornSnapshot'
    BY <2>1, <2>2
  <2>4. NextIsPrepared' /\ SeenIsOld'
    BY <2>1, <2>2
  <2> QED
    BY <2>3, <2>4
<1>32. ASSUME NEW t \in Threads, UncountResult(t) PROVE Snapshots'
  BY <1>32 DEF UncountResult
<1>33. ASSUME NEW t \in Threads, FreeSlot(t) PROVE Snapshots'
  BY <1>33 DEF FreeSlot
<1>34. ASSUME NEW t \in Threads, DropPool(t) PROVE Snapshots'
  BY <1>34 DEF DropPool
<1>35. ASSUME NEW t \in Threads, FreePool(t) PROVE Snapshots'
  BY <1>35 DEF FreePool
<1>36. ASSUME NEW t \in Threads, ReturnBytes(t) PROVE Snapshots'
  BY <1>36 DEF ReturnBytes
<1> HIDE DEF Shape, Snapshots
<1> QED
  BY <1>1, <1>2, <1>3, <1>4, <1>5, <1>6, <1>7, <1>8, <1>9, <1>10, <1>11, <1>12,
     <1>13, <1>14, <1>15, <1>16, <1>17, <1>18, <1>19, <1>20, <1>21, <1>22, <1>23, <1>24,
     <1>25, <1>26, <1>27, <1>28, <1>29, <1>30, <1>31, <1>32, <1>33, <1>34, <1>35, <1>36
  DEF Next, PublishNext, DestroyNext, ReaderNext, ReleaseNext

(* What can be acquired or is held is complete in every reachable state.    *)
LEMMA SnapshotsAlways == Spec => [](Shape /\ Ownership /\ Snapshots)
<1>1. Snapshots /\ UNCHANGED vars => Snapshots'
  BY DEF vars, sessionVars, slotVars, threadVars, Snapshots, NoTornSnapshot,
         NextIsPrepared, SeenIsOld
<1>2. Shape /\ Ownership /\ Snapshots /\ [Next]_vars => Snapshots'
  BY <1>1, SnapshotsStep
<1> QED
  BY OwnershipAlways, InitSnapshots, <1>2, PTL DEF Spec

(* The result that can be acquired, and every result a reader holds, is    *)
(* complete and of a generation that was issued, during every publication, *)
(* failed construction and destruction.                                    *)
THEOREM SnapshotsAreWhole == Spec => []NoTornSnapshot
<1>1. Snapshots => NoTornSnapshot
  BY DEF Snapshots
<1> QED
  BY SnapshotsAlways, <1>1, PTL

(* A held result never changes under its reader.                            *)
THEOREM HeldStaysTheSame == Spec => HeldIsImmutable
<1> DEFINE Kept(r) == /\ content'[ptr[r]] = content[ptr[r]]
                      /\ built'[ptr[r]] = built[ptr[r]]
<1>1. Shape /\ Ownership /\ Snapshots /\ [Next]_vars =>
          \A r \in Readers : pc[r] = "holding" => Kept(r)
  <2> SUFFICES ASSUME Shape, Ownership, Snapshots, [Next]_vars,
                      NEW r \in Readers, pc[r] = "holding"
               PROVE  Kept(r)
    OBVIOUS
  <2> DEFINE s == ptr[r]
  <2>1. s \in Slots /\ built[s] /\ r \in Threads
    BY DEF Shape, Control, PointersAreValid, Snapshots, NoTornSnapshot, OwnsRef, Threads
  <2>2. CASE CreateSession
    BY <2>1, <2>2 DEF CreateSession, Shape, Control, CallsAreInside
  <2>3. pc[Host] \in {"clear", "fill"} => ptr[Host] # s
    BY <2>1 DEF Ownership, OwnersAreAlone, OwnsRef, OwnsSlot, Threads
  <2>4. CASE ClearSlot
    BY <2>1, <2>3, <2>4 DEF ClearSlot, Shape, TypeOK
  <2>5. CASE FillHeader
    BY <2>1, <2>3, <2>5 DEF FillHeader, Shape, TypeOK
  <2>6. CASE BuildSnapshot
    BY <2>1, <2>6 DEF BuildSnapshot, Shape, TypeOK
  <2>7. CASE PublishNext /\ ~(ClearSlot \/ FillHeader \/ BuildSnapshot)
    BY <2>7 DEF PublishNext, StartPublish, ClaimSlot, SkipSlot, SlotsExhausted,
                RetainPool, CountResult, BuildFails, LockToPublish, SwapCurrent,
                UnlockPublished, slotVars
  <2>8. CASE DestroyNext
    BY <2>8 DEF DestroyNext, StartDestroy, LockToDestroy, DetachCurrent,
                UnlockDetached, UncountSession, StartContextDestroy,
                LoadSessionCount, LoadResultCount, LoadBytesAndFree, slotVars
  <2>9. CASE \E u \in Readers : ReaderNext(u)
    BY <2>9 DEF ReaderNext, StartAcquire, LockToAcquire, ReadCurrent, RetainResult,
                UnlockAcquired, Inspect, StartRelease, slotVars
  <2>10. CASE \E t \in Threads : ReleaseNext(t)
    BY <2>10 DEF ReleaseNext, DropReference, UncountResult, FreeSlot, DropPool,
                 FreePool, ReturnBytes, slotVars
  <2>11. CASE UNCHANGED vars
    BY <2>11 DEF vars, slotVars
  <2> QED
    BY <2>2, <2>4, <2>5, <2>6, <2>7, <2>8, <2>9, <2>10, <2>11 DEF Next
<1>2. [][Shape /\ Ownership /\ Snapshots /\ [Next]_vars]_vars => HeldIsImmutable
  BY <1>1, PTL DEF HeldIsImmutable
<1> QED
  BY SnapshotsAlways, <1>2, PTL DEF Spec

(* The generations a reader reads, across its acquisitions, never go back. *)
THEOREM GenerationsAreSeenInOrder == Spec => ReadersSeeGenerationsInOrder
<1>1. Shape /\ Snapshots /\ [Next]_vars => \A r \in Readers : seen'[r] >= seen[r]
  <2> SUFFICES ASSUME Shape, Snapshots, [Next]_vars, NEW r \in Readers
               PROVE  seen'[r] >= seen[r]
    OBVIOUS
  <2>1. seen \in [Readers -> 0..MaxGeneration] /\ MaxGeneration \in Nat
    BY PoolAssumption DEF Shape, TypeOK
  <2>2. CASE \E u \in Readers : Inspect(u)
    <3>1. PICK u \in Readers : Inspect(u)
      BY <2>2
    <3>2. content[ptr[u]] >= seen[u]
      BY <2>1, <3>1
      DEF Inspect, Snapshots, SeenIsOld, Shape, TypeOK, Control, PointersAreValid,
          OwnsRef, Threads
    <3> QED
      BY <2>1, <3>1, <3>2 DEF Inspect
  <2>3. CASE ~ \E u \in Readers : Inspect(u)
    <3>1. seen' = seen
      BY <2>3
      DEF Next, CreateSession, PublishNext, StartPublish, ClaimSlot, SkipSlot,
          SlotsExhausted, ClearSlot, FillHeader, RetainPool, CountResult,
          BuildSnapshot, BuildFails, LockToPublish, SwapCurrent, UnlockPublished,
          DestroyNext, StartDestroy, LockToDestroy, DetachCurrent, UnlockDetached,
          UncountSession, StartContextDestroy, LoadSessionCount, LoadResultCount,
          LoadBytesAndFree, ReaderNext, StartAcquire, LockToAcquire, ReadCurrent,
          RetainResult, UnlockAcquired, StartRelease, ReleaseNext, DropReference,
          UncountResult, FreeSlot, DropPool, FreePool, ReturnBytes, vars, threadVars
    <3> QED
      BY <2>1, <3>1
  <2> QED
    BY <2>2, <2>3
<1>2. [][Shape /\ Snapshots /\ [Next]_vars]_vars => ReadersSeeGenerationsInOrder
  BY <1>1, PTL DEF ReadersSeeGenerationsInOrder
<1> QED
  BY SnapshotsAlways, <1>2, PTL DEF Spec

--------------------------------------------------------------------------------
(* ResultPool implements Publication: the initial states map to initial    *)
(* states, and a step of the pool is, seen through LatestGeneration and    *)
(* HeldGenerations, a step of Publication or none.  Five steps are         *)
(* visible:                                                                *)
(*                                                                         *)
(*   CreateSession    Open                                                 *)
(*   SwapCurrent      Publish                                              *)
(*   RetainResult(r)  Acquire(r)                                           *)
(*   DropReference(r) Release(r), when r is a reader                       *)
(*   DetachCurrent    Close                                                *)

(* Before the session exists there is no generation, and nobody holds one.  *)
LEMMA InitRefines == Init => AbstractPublication!Init
BY DEF Init, AbstractPublication!Init, LatestGeneration, HeldGenerations, OwnsRef,
       Threads, NoSlot

(* The readers hold what they held.                                         *)
LEMMA HeldUnchanged ==
    ASSUME \A r \in Readers :
               /\ pc'[r] \in OwnsRef <=> pc[r] \in OwnsRef
               /\ pc[r] \in OwnsRef => content'[ptr'[r]] = content[ptr[r]]
    PROVE  HeldGenerations' = HeldGenerations
BY DEF HeldGenerations

(* A step that leaves the contents, the current result and the references  *)
(* of the readers alone is invisible.                                      *)
LEMMA Invisible ==
    ASSUME UNCHANGED <<current_result, generation, content>>,
           \A r \in Readers :
               /\ pc'[r] \in OwnsRef <=> pc[r] \in OwnsRef
               /\ pc[r] \in OwnsRef => ptr'[r] = ptr[r]
    PROVE  UNCHANGED AbstractPublication!vars
<1>1. HeldGenerations' = HeldGenerations
  BY HeldUnchanged
<1>2. LatestGeneration' = LatestGeneration
  BY DEF LatestGeneration, NoSlot
<1> QED
  BY <1>1, <1>2 DEF AbstractPublication!vars

(* The creation of the session opens the publication at generation 1.       *)
LEMMA CreateRefines ==
    ASSUME Shape, Snapshots, CreateSession PROVE AbstractPublication!Open
<1>1. generation = 0 /\ generation' = 1
  BY DEF CreateSession, Snapshots, NextIsPrepared
<1>2. LatestGeneration' = 1
  BY PoolAssumption
  DEF CreateSession, LatestGeneration, NoSlot, Slots, Shape, TypeOK
<1>3. \A r \in Readers : pc[r] = "idle" /\ pc'[r] = "idle"
  BY DEF CreateSession, threadVars, Shape, Control, CallsAreInside, Threads
<1>4. HeldGenerations' = HeldGenerations
  BY <1>3, HeldUnchanged DEF OwnsRef
<1> QED
  BY <1>1, <1>2, <1>4 DEF AbstractPublication!Open

(* What can be acquired is a generation that was issued.                    *)
LEMMA LatestIsIssued ==
    ASSUME Shape, Snapshots, current_result \in Slots
    PROVE  LatestGeneration = generation /\ generation # 0
<1>1. current_result # NoSlot
  BY PoolAssumption DEF Slots, NoSlot
<1>2. session # "absent"
  BY DEF Shape, Control, CurrentIsThere, CallsAreInside, Threads
<1> QED
  BY <1>1, <1>2 DEF LatestGeneration, Snapshots, NoTornSnapshot, NextIsPrepared

(* The exchange of the current result under the lock is the publication.    *)
LEMMA SwapRefines ==
    ASSUME Shape, Snapshots, SwapCurrent PROVE AbstractPublication!Publish
<1>1. /\ pc[Host] = "swap" /\ generation' = generation + 1
      /\ current_result' = ptr[Host] /\ content' = content
      /\ \A r \in Readers : pc'[r] = pc[r] /\ ptr'[r] = ptr[r]
  BY PoolAssumption DEF SwapCurrent, Goto, slotVars, Shape, TypeOK, Threads
<1>2. ptr[Host] \in Slots /\ current_result \in Slots /\ generation < MaxGeneration
  BY <1>1 DEF Shape, Control, PointersAreValid, CurrentIsThere, CallsAreInside,
              PublishPC, OwnsRef, Threads
<1>3. LatestGeneration # 0
  BY <1>2, LatestIsIssued
<1>4. LatestGeneration' = generation'
  BY <1>1, <1>2, PoolAssumption
  DEF LatestGeneration, Slots, NoSlot, Snapshots, NextIsPrepared
<1>5. HeldGenerations' = HeldGenerations
  BY <1>1, HeldUnchanged
<1> QED
  BY <1>1, <1>2, <1>3, <1>4, <1>5 DEF AbstractPublication!Publish

(* Taking the current result away in apta_session_destroy closes it.        *)
LEMMA DetachRefines ==
    ASSUME Shape, Snapshots, DetachCurrent PROVE AbstractPublication!Close
<1>1. /\ pc[Host] = "detach" /\ current_result' = NoSlot
      /\ content' = content /\ generation' = generation
      /\ \A r \in Readers : pc'[r] = pc[r] /\ ptr'[r] = ptr[r]
  BY PoolAssumption DEF DetachCurrent, Goto, slotVars, Shape, TypeOK, Threads
<1>2. LatestGeneration # 0
  BY <1>1, LatestIsIssued DEF Shape, Control, CurrentIsThere
<1>3. LatestGeneration' = 0
  BY <1>1 DEF LatestGeneration, NoSlot
<1>4. HeldGenerations' = HeldGenerations
  BY <1>1, HeldUnchanged
<1> QED
  BY <1>1, <1>2, <1>3, <1>4 DEF AbstractPublication!Close

(* The retain under the lock is the moment a result is acquired.            *)
LEMMA RetainRefines ==
    ASSUME Shape, Snapshots, NEW r \in Readers, RetainResult(r)
    PROVE  AbstractPublication!Acquire(r)
<1>1. /\ pc[r] = "acqRetain" /\ pc'[r] = "acqUnlock"
      /\ \A u \in Readers : u # r => pc'[u] = pc[u]
      /\ UNCHANGED <<current_result, generation, content, ptr>>
  BY DEF RetainResult, Goto, sessionVars, Shape, TypeOK, Threads
<1>2. ptr[r] = current_result /\ current_result \in Slots
  BY <1>1 DEF Shape, Control, PointersAreValid, CurrentIsThere, CallsAreInside, AcquirePC
<1>3. LatestGeneration # 0 /\ LatestGeneration = content[ptr[r]]
  BY <1>2, LatestIsIssued, PoolAssumption DEF LatestGeneration, Slots, NoSlot
<1>4. HeldGenerations[r] = 0
  BY <1>1 DEF HeldGenerations, OwnsRef
<1>5. HeldGenerations' = [HeldGenerations EXCEPT ![r] = LatestGeneration]
  <2>1. pc'[r] \in OwnsRef
    BY <1>1 DEF OwnsRef
  <2> QED
    BY <1>1, <1>3, <2>1 DEF HeldGenerations
<1>6. LatestGeneration' = LatestGeneration
  BY <1>1 DEF LatestGeneration, NoSlot
<1> QED
  BY <1>1, <1>3, <1>4, <1>5, <1>6 DEF AbstractPublication!Acquire

(* The decrement of the count is the moment a result is given back.         *)
LEMMA DropRefines ==
    ASSUME Shape, Snapshots, NEW r \in Readers, DropReference(r)
    PROVE  AbstractPublication!Release(r)
<1>1. /\ pc[r] = "decRef" /\ pc'[r] \in {"decCount", "idle"}
      /\ \A u \in Readers : u # r => pc'[u] = pc[u] /\ ptr'[u] = ptr[u]
      /\ UNCHANGED <<current_result, generation, content>>
  BY PoolAssumption
  DEF DropReference, Goto, Return, sessionVars, Shape, TypeOK, Threads
<1>2. HeldGenerations[r] # 0
  <2>1. pc[r] \in OwnsRef
    BY <1>1 DEF OwnsRef
  <2>2. content[ptr[r]] \in 1..generation /\ generation \in Nat
    BY <2>1, PoolAssumption DEF Snapshots, NoTornSnapshot, Shape, TypeOK
  <2> QED
    BY <2>1, <2>2 DEF HeldGenerations
<1>3. HeldGenerations' = [HeldGenerations EXCEPT ![r] = 0]
  <2>1. pc'[r] \notin OwnsRef
    BY <1>1 DEF OwnsRef
  <2> QED
    BY <1>1, <2>1 DEF HeldGenerations
<1>4. LatestGeneration' = LatestGeneration
  BY <1>1 DEF LatestGeneration, NoSlot
<1> QED
  BY <1>1, <1>2, <1>3, <1>4 DEF AbstractPublication!Release

(* The host writes only the slot it owns, which nobody can see.             *)
LEMMA WriteIsInvisible ==
    ASSUME Shape, Ownership, pc[Host] \in {"clear", "fill"},
           UNCHANGED <<current_result, generation, ptr>>,
           \A r \in Readers : pc'[r] = pc[r],
           \A s \in Slots : s # ptr[Host] => content'[s] = content[s]
    PROVE  UNCHANGED AbstractPublication!vars
<1>1. /\ current_result # ptr[Host]
      /\ \A r \in Readers : pc[r] \in OwnsRef => ptr[r] # ptr[Host] /\ ptr[r] \in Slots
  BY PoolAssumption
  DEF Ownership, OwnersAreAlone, Shape, Control, PointersAreValid, OwnsRef, OwnsSlot, Threads
<1>2. HeldGenerations' = HeldGenerations
  BY <1>1, HeldUnchanged
<1>3. LatestGeneration' = LatestGeneration
  BY <1>1 DEF LatestGeneration, NoSlot, Shape, TypeOK
<1> QED
  BY <1>2, <1>3 DEF AbstractPublication!vars

(* The remaining steps of the host, of a reader and of a release.          *)
LEMMA HostIsInvisible ==
    ASSUME TypeOK,
           \/ PublishNext /\ ~(SwapCurrent \/ ClearSlot \/ FillHeader)
           \/ DestroyNext /\ ~DetachCurrent
           \/ DropReference(Host)
    PROVE  UNCHANGED AbstractPublication!vars
<1> USE PoolAssumption DEF TypeOK, Threads, Goto, sessionVars, slotVars
<1>1. UNCHANGED <<current_result, generation, content>>
  BY DEF PublishNext, DestroyNext, DropReference,
         StartPublish, ClaimSlot, SkipSlot, SlotsExhausted, RetainPool,
         CountResult, BuildSnapshot, BuildFails, LockToPublish,
         UnlockPublished, StartDestroy, LockToDestroy, UnlockDetached,
         UncountSession, StartContextDestroy, LoadSessionCount,
         LoadResultCount, LoadBytesAndFree
<1>2. \A r \in Readers : pc'[r] = pc[r] /\ ptr'[r] = ptr[r]
  <2>1. ASSUME NEW l, NEW p, Goto(Host, l),
               ptr' = ptr \/ ptr' = [ptr EXCEPT ![Host] = p]
        PROVE  \A r \in Readers : pc'[r] = pc[r] /\ ptr'[r] = ptr[r]
    BY <2>1
  <2>2. CASE SkipSlot
    BY <2>2 DEF SkipSlot
  <2>3. CASE ~SkipSlot
    <3>1. (\E l : Goto(Host, l)) /\ (ptr' = ptr \/ \E p : ptr' = [ptr EXCEPT ![Host] = p])
      <4> HIDE DEF TypeOK, Threads, Goto
      <4> QED
        BY <2>3 DEF PublishNext, DestroyNext, DropReference,
         StartPublish, ClaimSlot, SlotsExhausted, RetainPool, CountResult,
         BuildSnapshot, BuildFails, LockToPublish, UnlockPublished,
         StartDestroy, LockToDestroy, UnlockDetached, UncountSession,
         StartContextDestroy, LoadSessionCount, LoadResultCount,
         LoadBytesAndFree
    <3> QED
      BY <2>1, <3>1
  <2> QED
    BY <2>2, <2>3
<1> QED
  BY <1>1, <1>2, Invisible

(* The steps of a reader around its retain, and its accessors.              *)
LEMMA ReaderIsInvisible ==
    ASSUME TypeOK, NEW r \in Readers, ReaderNext(r), ~RetainResult(r)
    PROVE  UNCHANGED AbstractPublication!vars
<1>1. UNCHANGED <<current_result, generation, content>>
  BY DEF ReaderNext, sessionVars, slotVars,
         StartAcquire, LockToAcquire, ReadCurrent, UnlockAcquired,
         Inspect, StartRelease
<1>2. \A u \in Readers : u # r => pc'[u] = pc[u] /\ ptr'[u] = ptr[u]
  BY DEF TypeOK, Threads, Goto, ReaderNext,
         StartAcquire, LockToAcquire, ReadCurrent, UnlockAcquired,
         Inspect, StartRelease
<1>3. /\ pc'[r] \in OwnsRef <=> pc[r] \in OwnsRef
      /\ pc[r] \in OwnsRef => ptr'[r] = ptr[r]
  BY DEF TypeOK, Threads, Goto, ReaderNext, OwnsRef,
         StartAcquire, LockToAcquire, ReadCurrent, UnlockAcquired,
         Inspect, StartRelease
<1> QED
  BY <1>1, <1>2, <1>3, Invisible

(* What the last releaser does after its decrement.                         *)
LEMMA ReleaseIsInvisible ==
    ASSUME TypeOK, NEW t \in Threads, ReleaseNext(t), ~DropReference(t)
    PROVE  UNCHANGED AbstractPublication!vars
<1>1. UNCHANGED <<current_result, generation, content>>
  BY DEF ReleaseNext, sessionVars, slotVars,
         UncountResult, FreeSlot, DropPool, FreePool, ReturnBytes
<1>2. \A u \in Readers : u # t => pc'[u] = pc[u] /\ ptr'[u] = ptr[u]
  BY DEF TypeOK, Threads, Goto, ReleaseNext,
         UncountResult, FreeSlot, DropPool, FreePool, ReturnBytes
<1>3. pc[t] \notin OwnsRef /\ pc'[t] \notin OwnsRef
  BY DEF TypeOK, Goto, Return, ReleaseNext, OwnsRef,
         UncountResult, FreeSlot, DropPool, FreePool, ReturnBytes
<1> QED
  BY <1>1, <1>2, <1>3, Invisible

(* Every step of the pool is a step of Publication or invisible.           *)
LEMMA StepRefines ==
    Shape /\ Ownership /\ Snapshots /\ [Next]_vars =>
        [AbstractPublication!Next]_(AbstractPublication!vars)
<1> SUFFICES ASSUME Shape, Ownership, Snapshots, [Next]_vars
             PROVE  \/ AbstractPublication!Next
                    \/ UNCHANGED AbstractPublication!vars
  OBVIOUS
<1>0. TypeOK
  BY DEF Shape
<1>1. CASE CreateSession
  BY <1>1, CreateRefines DEF AbstractPublication!Next
<1>2. CASE SwapCurrent
  BY <1>2, SwapRefines DEF AbstractPublication!Next
<1>3. CASE DetachCurrent
  BY <1>3, DetachRefines DEF AbstractPublication!Next
<1>4. CASE ClearSlot
  BY <1>4, WriteIsInvisible, PoolAssumption
  DEF ClearSlot, Goto, sessionVars, Shape, TypeOK, Threads
<1>5. CASE FillHeader
  BY <1>5, WriteIsInvisible, PoolAssumption
  DEF FillHeader, Goto, sessionVars, Shape, TypeOK, Threads
<1>6. CASE \/ PublishNext /\ ~(SwapCurrent \/ ClearSlot \/ FillHeader)
           \/ DestroyNext /\ ~DetachCurrent
  BY <1>0, <1>6, HostIsInvisible
<1>7. CASE \E r \in Readers : ReaderNext(r)
  <2>1. PICK r \in Readers : ReaderNext(r)
    BY <1>7
  <2>2. CASE RetainResult(r)
    BY <2>2, RetainRefines DEF AbstractPublication!Next
  <2>3. CASE ~RetainResult(r)
    BY <1>0, <2>1, <2>3, ReaderIsInvisible
  <2> QED
    BY <2>2, <2>3
<1>8. CASE \E t \in Threads : ReleaseNext(t)
  <2>1. PICK t \in Threads : ReleaseNext(t)
    BY <1>8
  <2>2. CASE DropReference(t) /\ t \in Readers
    BY <2>2, DropRefines DEF AbstractPublication!Next
  <2>3. CASE DropReference(t) /\ t = Host
    BY <1>0, <2>3, HostIsInvisible
  <2>4. CASE ~DropReference(t)
    BY <1>0, <2>1, <2>4, ReleaseIsInvisible
  <2> QED
    BY <2>2, <2>3, <2>4 DEF Threads
<1>9. CASE UNCHANGED vars
  BY <1>9, Invisible DEF vars, sessionVars, slotVars, threadVars
<1> QED
  BY <1>1, <1>2, <1>3, <1>4, <1>5, <1>6, <1>7, <1>8, <1>9 DEF Next

(* The lock, the slots and the reference counts of the pool give atomic    *)
(* publication, for any number of readers and of slots: an acquisition     *)
(* returns the latest generation, and what it returned stays until its     *)
(* release.                                                                *)
THEOREM PoolImplementsPublication == Spec => ImplementsPublication
<1> QED
  BY InitRefines, StepRefines, SnapshotsAlways, PTL
  DEF Spec, ImplementsPublication, AbstractPublication!Spec

================================================================================
