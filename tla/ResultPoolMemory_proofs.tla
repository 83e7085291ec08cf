------------------------ MODULE ResultPoolMemory_proofs ------------------------
(***************************************************************************)
(* Reclamation of the result pool and of the context, proved for any       *)
(* number of readers and slots.  The last of the invariants of ResultPool, *)
(* inductive given Shape and Ownership of ResultPool_proofs:               *)
(*                                                                         *)
(*   Reclamation  the three counters are exact, the pool block has one end *)
(*                (one thread frees it, the same thread returns its bytes) *)
(*                and the context goes last                                *)
(*                                                                         *)
(* It implies that no thread touches freed memory and that nothing is left *)
(* behind.                                                                 *)
(***************************************************************************)
EXTENDS ResultPool_proofs

(* The slots whose result is in context->result_count: it is counted last  *)
(* when a result is created and first when it is destroyed.                *)
UncountedPC == {"clear", "fill", "retain", "count", "freeSlot"}

CountedSlots ==
    {s \in Slots : /\ active[s]
                   /\ \A t \in Threads : pc[t] \in UncountedPC => ptr[t] # s}

CountersAreExact ==
    /\ PoolReferencesAreCounted
    /\ result_count = Cardinality(CountedSlots)
    /\ session_count = SessionPoolRef

(* The pool block lives from the creation of the session until the thread  *)
(* that dropped the last pool reference frees it; nobody else can be that  *)
(* thread, and the block's bytes stay accounted until it has returned them. *)
Reclaiming(label) == \E t \in Threads : pc[t] = label

PoolHasOneEnd ==
    /\ pool = "none" <=> session = "absent"
    /\ pool = "live" => (pool_reference_count = 0 <=> Reclaiming("freePool"))
    /\ pool = "freed" => pool_reference_count = 0
    /\ Reclaiming("freePool") => pool = "live"
    /\ Reclaiming("decBytes") => pool = "freed"
    /\ \A t, u \in Threads :
           pc[t] \in {"freePool", "decBytes"} /\ pc[u] = pc[t] => t = u
    /\ allocated_bytes = IF pool = "live" \/ Reclaiming("decBytes") THEN 1 ELSE 0

(* apta_context_destroy runs on a live context of a closed session, and    *)
(* frees it only when nothing is accounted to it.                          *)
ContextIsLast ==
    /\ pc[Host] \in ContextPC => session = "closed" /\ context = "live"
    /\ context = "freed" => session = "closed" /\ allocated_bytes = 0

Reclamation == CountersAreExact /\ PoolHasOneEnd /\ ContextIsLast

(* The labels at which a thread bears on one of the counters.               *)
CountingPC == UncountedPC \cup {"decPool", "freePool", "decBytes"} \cup ContextPC

(* What is counted is finite.                                               *)
LEMMA CountedAreFinite ==
    /\ IsFiniteSet(RetainedSlots)
    /\ IsFiniteSet(CountedSlots)
    /\ IsFiniteSet(PoolDroppers)
<1>1. IsFiniteSet(Threads) /\ IsFiniteSet(Slots)
  BY PoolAssumption, FS_AddElement, FS_Interval DEF Threads, Slots
<1>2. /\ RetainedSlots \subseteq Slots /\ CountedSlots \subseteq Slots
      /\ PoolDroppers \subseteq Threads
  BY DEF RetainedSlots, CountedSlots, PoolDroppers
<1> QED
  BY <1>1, <1>2, FS_Subset

(* The three cardinalities are numbers.                                     *)
LEMMA CountsAreNumbers ==
    /\ Cardinality(RetainedSlots) \in Nat
    /\ Cardinality(CountedSlots) \in Nat
    /\ Cardinality(PoolDroppers) \in Nat
BY CountedAreFinite, FS_CardinalityType

(* Only the thread that moves changes its label and its pointer.            *)
LEMMA OneThreadMoves ==
    ASSUME TypeOK, NEW t \in Threads, NEW l, NEW p, Moves(t, l, p)
    PROVE  /\ pc'[t] = l /\ ptr'[t] = p
           /\ \A u \in Threads : u # t => pc'[u] = pc[u] /\ ptr'[u] = ptr[u]
BY DEF Moves, TypeOK

(* Before anything is created there is nothing to count or to free.         *)
LEMMA InitReclamation == Init => Reclamation
<1> SUFFICES ASSUME Init PROVE Reclamation
  OBVIOUS
<1>1. RetainedSlots = {} /\ CountedSlots = {} /\ PoolDroppers = {}
  BY DEF Init, RetainedSlots, CountedSlots, PoolDroppers
<1>2. CountersAreExact
  BY <1>1, FS_EmptySet
  DEF Init, CountersAreExact, PoolReferencesAreCounted, SessionPoolRef
<1>3. PoolHasOneEnd
  BY DEF Init, PoolHasOneEnd, Reclaiming
<1>4. ContextIsLast
  BY DEF Init, ContextIsLast, ContextPC, Threads
<1> QED
  BY <1>2, <1>3, <1>4 DEF Reclamation

(* A step away from every counting label leaves the counted sets alone.     *)
LEMMA QuietMove ==
    ASSUME TypeOK, Reclamation, NEW t \in Threads, NEW l, NEW p, Moves(t, l, p),
           pc[t] \notin CountingPC, l \notin CountingPC,
           UNCHANGED <<active, poolVars, contextVars>>,
           \/ session' = session
           \/ session = "open" /\ session' = "closing" /\ t = Host
    PROVE  Reclamation'
<1> Host \in Threads
  BY DEF Threads
<1>1. /\ pc'[t] = l /\ ptr'[t] = p
      /\ \A u \in Threads : u # t => pc'[u] = pc[u] /\ ptr'[u] = ptr[u]
  BY OneThreadMoves
<1>2. \A u \in Threads, k \in CountingPC :
          /\ pc'[u] = k <=> pc[u] = k
          /\ pc[u] = k => ptr'[u] = ptr[u]
  BY <1>1
<1>3. RetainedSlots' = RetainedSlots
  BY <1>2 DEF RetainedSlots, CountingPC, UncountedPC
<1>4. CountedSlots' = CountedSlots
  BY <1>2 DEF CountedSlots, CountingPC, UncountedPC
<1>5. PoolDroppers' = PoolDroppers
  BY <1>2 DEF PoolDroppers, CountingPC
<1>6. CountersAreExact'
  BY <1>3, <1>4, <1>5
  DEF Reclamation, CountersAreExact, PoolReferencesAreCounted, SessionPoolRef,
      poolVars, contextVars
<1>7. /\ Reclaiming("freePool")' = Reclaiming("freePool")
      /\ Reclaiming("decBytes")' = Reclaiming("decBytes")
  BY <1>2 DEF Reclaiming, CountingPC
<1>8. PoolHasOneEnd'
  <2>1. \A u, v \in Threads :
            pc'[u] \in {"freePool", "decBytes"} /\ pc'[v] = pc'[u] => u = v
    BY <1>2 DEF Reclamation, PoolHasOneEnd, CountingPC
  <2> QED
    BY <1>7, <2>1 DEF Reclamation, PoolHasOneEnd, poolVars, contextVars
<1>9. ContextIsLast'
  <2>1. pc'[Host] \in ContextPC <=> pc[Host] \in ContextPC
    BY <1>2 DEF CountingPC
  <2>2. t = Host => pc[Host] \notin ContextPC
    BY DEF CountingPC
  <2> QED
    BY <2>1, <2>2 DEF Reclamation, ContextIsLast, contextVars
<1> QED
  BY <1>6, <1>8, <1>9 DEF Reclamation

(* The pool is live while a reference of it is counted.                     *)
LEMMA CountedIsLive ==
    ASSUME TypeOK, Reclamation, session # "absent", pool_reference_count # 0
    PROVE  pool = "live" /\ ~Reclaiming("freePool")
BY DEF TypeOK, Reclamation, PoolHasOneEnd

(* Every step keeps the counters exact, leaves one thread to free the pool  *)
(* and frees the context last.                                              *)
LEMMA ReclamationStep == Shape /\ Ownership /\ Reclamation /\ Next => Reclamation'
<1> SUFFICES ASSUME Shape, Ownership, Reclamation, Next PROVE Reclamation'
  OBVIOUS
<1> USE DEF Shape
<1>H. Host \in Threads /\ Readers \subseteq Threads
  BY DEF Threads
<1>P. /\ TypeOK /\ Control
      /\ CountersAreExact /\ PoolHasOneEnd /\ ContextIsLast
  BY DEF Reclamation
<1>N. /\ Cardinality(RetainedSlots) \in Nat
      /\ Cardinality(CountedSlots) \in Nat
      /\ Cardinality(PoolDroppers) \in Nat
  BY CountsAreNumbers
<1>1. CASE CreateSession
  <2>1. /\ \A t \in Threads : pc[t] = "idle" /\ pc'[t] = "idle"
        /\ 1 \in Slots /\ current_result \notin Slots
    BY <1>1, <1>P, PoolAssumption
    DEF CreateSession, Control, CallsAreInside, CurrentIsThere, threadVars, Slots
  <2>2. \A s \in Slots : ~active[s]
    <3>1. \A s \in Slots : RefOwners(s) = {} /\ SlotOwners(s) = {}
      BY <2>1 DEF RefOwners, SlotOwners, OwnsRef, OwnsSlot
    <3> QED
      BY <2>1, <3>1 DEF Ownership, NoLostSlot
  <2>3. \A s \in Slots : active'[s] <=> s = 1
    BY <1>1, <1>P, <2>1, <2>2 DEF CreateSession, TypeOK
  <2>4. RetainedSlots = {} /\ CountedSlots = {} /\ PoolDroppers = {}
    BY <2>1, <2>2 DEF RetainedSlots, CountedSlots, PoolDroppers
  <2>5. RetainedSlots' = {1} /\ CountedSlots' = {1} /\ PoolDroppers' = {}
    BY <1>H, <2>1, <2>3 DEF RetainedSlots, CountedSlots, PoolDroppers, UncountedPC
  <2>6. CountersAreExact'
    <3>1. Cardinality({1}) = 1 /\ Cardinality({}) = 0
      BY FS_Singleton, FS_EmptySet
    <3> QED
      BY <1>1, <1>P, <2>4, <2>5, <3>1
      DEF CreateSession, CountersAreExact, PoolReferencesAreCounted, SessionPoolRef
  <2>7. PoolHasOneEnd'
    BY <1>1, <1>P, <2>1 DEF CreateSession, PoolHasOneEnd, Reclaiming
  <2>8. ContextIsLast'
    BY <1>1, <1>H, <1>P, <2>1 DEF CreateSession, ContextIsLast, ContextPC
  <2> QED
    BY <2>6, <2>7, <2>8 DEF Reclamation
<1>2. CASE StartPublish
  <2>1. Moves(Host, "scan", 1)
    BY <1>H, <1>P, <1>2 DEF StartPublish, Goto, Moves, TypeOK
  <2>2. /\ UNCHANGED <<active, poolVars, contextVars, session>>
        /\ pc[Host] \notin CountingPC
    BY <1>2
    DEF StartPublish, sessionVars, slotVars, poolVars, contextVars, CountingPC, UncountedPC,
        ContextPC
  <2> QED
    BY <1>H, <1>P, <2>1, <2>2, QuietMove DEF CountingPC, UncountedPC, ContextPC
<1>3. CASE ClaimSlot
  <2> DEFINE s0 == ptr[Host]
  <2>1. Moves(Host, "clear", s0) /\ pc[Host] = "scan" /\ s0 \in Slots /\ ~active[s0]
    BY <1>3, <1>H, <1>P DEF ClaimSlot, SlotIsFree, Goto, Moves, TypeOK
  <2>2. /\ pc'[Host] = "clear" /\ ptr'[Host] = s0
        /\ \A u \in Threads : u # Host => pc'[u] = pc[u] /\ ptr'[u] = ptr[u]
    BY <1>H, <1>P, <2>1, OneThreadMoves
  <2>3. \A s \in Slots : active'[s] <=> active[s] \/ s = s0
    BY <1>3, <1>P, <2>1 DEF ClaimSlot, TypeOK
  <2>4. RetainedSlots' = RetainedSlots /\ PoolDroppers' = PoolDroppers
    BY <1>H, <2>1, <2>2, <2>3 DEF RetainedSlots, PoolDroppers
  <2>5. CountedSlots' = CountedSlots
    BY <1>H, <2>1, <2>2, <2>3 DEF CountedSlots, UncountedPC
  <2>6. CountersAreExact'
    BY <1>3, <1>P, <2>4, <2>5
    DEF ClaimSlot, CountersAreExact, PoolReferencesAreCounted, SessionPoolRef,
        sessionVars, poolVars, contextVars
  <2>7. PoolHasOneEnd'
    <3>1. /\ Reclaiming("freePool")' <=> Reclaiming("freePool")
          /\ Reclaiming("decBytes")' <=> Reclaiming("decBytes")
      BY <1>H, <2>1, <2>2 DEF Reclaiming
    <3>2. \A u, v \in Threads :
              pc'[u] \in {"freePool", "decBytes"} /\ pc'[v] = pc'[u] => u = v
      BY <1>P, <2>1, <2>2 DEF PoolHasOneEnd
    <3> QED
      BY <1>3, <1>P, <3>1, <3>2
      DEF ClaimSlot, PoolHasOneEnd, sessionVars, poolVars, contextVars
  <2>8. ContextIsLast'
    BY <1>3, <1>H, <1>P, <2>1, <2>2
    DEF ClaimSlot, ContextIsLast, sessionVars, contextVars, ContextPC
  <2> QED
    BY <2>6, <2>7, <2>8 DEF Reclamation
<1>4. CASE SkipSlot
  <2>1. Moves(Host, "scan", ptr[Host] + 1)
    BY <1>H, <1>P, <1>4 DEF SkipSlot, Goto, Moves, TypeOK
  <2>2. /\ UNCHANGED <<active, poolVars, contextVars, session>>
        /\ pc[Host] \notin CountingPC
    BY <1>4
    DEF SkipSlot, sessionVars, slotVars, poolVars, contextVars, CountingPC, UncountedPC,
        ContextPC
  <2> QED
    BY <1>H, <1>P, <2>1, <2>2, QuietMove DEF CountingPC, UncountedPC, ContextPC
<1>5. CASE SlotsExhausted
  <2>1. Moves(Host, "idle", NoSlot)
    BY <1>H, <1>P, <1>5 DEF SlotsExhausted, Goto, Moves, TypeOK
  <2>2. /\ UNCHANGED <<active, poolVars, contextVars, session>>
        /\ pc[Host] \notin CountingPC
    BY <1>5
    DEF SlotsExhausted, sessionVars, slotVars, poolVars, contextVars, CountingPC, UncountedPC,
        ContextPC
  <2> QED
    BY <1>H, <1>P, <2>1, <2>2, QuietMove DEF CountingPC, UncountedPC, ContextPC
<1>6. CASE ClearSlot
  <2>1. Moves(Host, "fill", ptr[Host]) /\ pc[Host] = "clear"
    BY <1>6, <1>H, <1>P DEF ClearSlot, Goto, Moves, TypeOK
  <2>2. /\ pc'[Host] = "fill" /\ ptr'[Host] = ptr[Host]
        /\ \A u \in Threads : u # Host => pc'[u] = pc[u] /\ ptr'[u] = ptr[u]
    BY <1>H, <1>P, <2>1, OneThreadMoves
  <2>3. active' = active
    BY <1>6 DEF ClearSlot
  <2>4. RetainedSlots' = RetainedSlots /\ PoolDroppers' = PoolDroppers
    BY <1>H, <2>1, <2>2, <2>3 DEF RetainedSlots, PoolDroppers
  <2>5. CountedSlots' = CountedSlots
    BY <1>H, <2>1, <2>2, <2>3 DEF CountedSlots, UncountedPC
  <2>6. CountersAreExact'
    BY <1>6, <1>P, <2>4, <2>5
    DEF ClearSlot, CountersAreExact, PoolReferencesAreCounted, SessionPoolRef,
        sessionVars, poolVars, contextVars
  <2>7. PoolHasOneEnd'
    <3>1. /\ Reclaiming("freePool")' <=> Reclaiming("freePool")
          /\ Reclaiming("decBytes")' <=> Reclaiming("decBytes")
      BY <1>H, <2>1, <2>2 DEF Reclaiming
    <3>2. \A u, v \in Threads :
              pc'[u] \in {"freePool", "decBytes"} /\ pc'[v] = pc'[u] => u = v
      BY <1>P, <2>1, <2>2 DEF PoolHasOneEnd
    <3> QED
      BY <1>6, <1>P, <3>1, <3>2
      DEF ClearSlot, PoolHasOneEnd, sessionVars, poolVars, contextVars
  <2>8. ContextIsLast'
    BY <1>6, <1>H, <1>P, <2>1, <2>2
    DEF ClearSlot, ContextIsLast, sessionVars, contextVars, ContextPC
  <2> QED
    BY <2>6, <2>7, <2>8 DEF Reclamation
<1>7. CASE FillHeader
  <2>1. Moves(Host, "retain", ptr[Host]) /\ pc[Host] = "fill"
    BY <1>7, <1>H, <1>P DEF FillHeader, Goto, Moves, TypeOK
  <2>2. /\ pc'[Host] = "retain" /\ ptr'[Host] = ptr[Host]
        /\ \A u \in Threads : u # Host => pc'[u] = pc[u] /\ ptr'[u] = ptr[u]
    BY <1>H, <1>P, <2>1, OneThreadMoves
  <2>3. active' = active
    BY <1>7 DEF FillHeader
  <2>4. RetainedSlots' = RetainedSlots /\ PoolDroppers' = PoolDroppers
    BY <1>H, <2>1, <2>2, <2>3 DEF RetainedSlots, PoolDroppers
  <2>5. CountedSlots' = CountedSlots
    BY <1>H, <2>1, <2>2, <2>3 DEF CountedSlots, UncountedPC
  <2>6. CountersAreExact'
    BY <1>7, <1>P, <2>4, <2>5
    DEF FillHeader, CountersAreExact, PoolReferencesAreCounted, SessionPoolRef,
        sessionVars, poolVars, contextVars
  <2>7. PoolHasOneEnd'
    <3>1. /\ Reclaiming("freePool")' <=> Reclaiming("freePool")
          /\ Reclaiming("decBytes")' <=> Reclaiming("decBytes")
      BY <1>H, <2>1, <2>2 DEF Reclaiming
    <3>2. \A u, v \in Threads :
              pc'[u] \in {"freePool", "decBytes"} /\ pc'[v] = pc'[u] => u = v
      BY <1>P, <2>1, <2>2 DEF PoolHasOneEnd
    <3> QED
      BY <1>7, <1>P, <3>1, <3>2
      DEF FillHeader, PoolHasOneEnd, sessionVars, poolVars, contextVars
  <2>8. ContextIsLast'
    BY <1>7, <1>H, <1>P, <2>1, <2>2
    DEF FillHeader, ContextIsLast, sessionVars, contextVars, ContextPC
  <2> QED
    BY <2>6, <2>7, <2>8 DEF Reclamation
<1>8. CASE RetainPool
  <2> DEFINE s0 == ptr[Host]
  <2>1. Moves(Host, "count", s0) /\ pc[Host] = "retain" /\ s0 \in Slots
    BY <1>8, <1>H, <1>P
    DEF RetainPool, Goto, Moves, TypeOK, Control, PointersAreValid, OwnsRef
  <2>2. /\ pc'[Host] = "count" /\ ptr'[Host] = s0
        /\ \A u \in Threads : u # Host => pc'[u] = pc[u] /\ ptr'[u] = ptr[u]
    BY <1>H, <1>P, <2>1, OneThreadMoves
  <2>3. active' = active /\ active[s0]
    <3>1. Host \in RefOwners(s0)
      BY <1>H, <2>1 DEF RefOwners, OwnsRef
    <3> QED
      BY <1>8, <2>1, <3>1 DEF RetainPool, slotVars, Ownership, NoLostSlot
  <2>4. /\ RetainedSlots' = RetainedSlots \cup {s0} /\ s0 \notin RetainedSlots
        /\ PoolDroppers' = PoolDroppers
    BY <1>H, <2>1, <2>2, <2>3 DEF RetainedSlots, PoolDroppers
  <2>5. CountedSlots' = CountedSlots
    BY <1>H, <2>1, <2>2, <2>3 DEF CountedSlots, UncountedPC
  <2>6. Cardinality(RetainedSlots') = Cardinality(RetainedSlots) + 1
    BY <2>4, CountedAreFinite, OneElement
  <2>7. CountersAreExact'
    BY <1>8, <1>P, <1>N, <2>4, <2>5, <2>6
    DEF RetainPool, CountersAreExact, PoolReferencesAreCounted, SessionPoolRef,
        sessionVars, contextVars
  <2>8. PoolHasOneEnd'
    <3>1. /\ Reclaiming("freePool")' <=> Reclaiming("freePool")
          /\ Reclaiming("decBytes")' <=> Reclaiming("decBytes")
      BY <1>H, <2>1, <2>2 DEF Reclaiming
    <3>2. \A u, v \in Threads :
              pc'[u] \in {"freePool", "decBytes"} /\ pc'[v] = pc'[u] => u = v
      BY <1>P, <2>1, <2>2 DEF PoolHasOneEnd
    <3>3. session = "open"
      BY <1>P, <2>1 DEF Control, CallsAreInside, PublishPC
    <3>4. pool_reference_count \in Nat \ {0}
      BY <1>P, <1>N, <3>3
      DEF CountersAreExact, PoolReferencesAreCounted, SessionPoolRef
    <3>5. pool = "live" /\ ~Reclaiming("freePool")
      BY <1>P, <3>3, <3>4, CountedIsLive
    <3> QED
      BY <1>8, <1>P, <3>1, <3>2, <3>4, <3>5
      DEF RetainPool, PoolHasOneEnd, sessionVars, contextVars
  <2>9. ContextIsLast'
    BY <1>8, <1>H, <1>P, <2>1, <2>2
    DEF RetainPool, ContextIsLast, sessionVars, contextVars, ContextPC
  <2> QED
    BY <2>7, <2>8, <2>9 DEF Reclamation
<1>9. CASE CountResult
  <2> DEFINE s0 == ptr[Host]
  <2>1. Moves(Host, "build", s0) /\ pc[Host] = "count" /\ s0 \in Slots
    BY <1>9, <1>H, <1>P
    DEF CountResult, Goto, Moves, TypeOK, Control, PointersAreValid, OwnsRef
  <2>2. /\ pc'[Host] = "build" /\ ptr'[Host] = s0
        /\ \A u \in Threads : u # Host => pc'[u] = pc[u] /\ ptr'[u] = ptr[u]
    BY <1>H, <1>P, <2>1, OneThreadMoves
  <2>3. active' = active /\ active[s0]
    <3>1. Host \in RefOwners(s0)
      BY <1>H, <2>1 DEF RefOwners, OwnsRef
    <3> QED
      BY <1>9, <2>1, <3>1 DEF CountResult, slotVars, Ownership, NoLostSlot
  <2>4. RetainedSlots' = RetainedSlots /\ PoolDroppers' = PoolDroppers
    BY <1>H, <2>1, <2>2, <2>3 DEF RetainedSlots, PoolDroppers
  <2>5. CountedSlots' = CountedSlots \cup {s0} /\ s0 \notin CountedSlots
    <3>1. \A u \in Threads : u # Host /\ pc[u] \in UncountedPC => ptr[u] # s0
      <4>1. \A u \in Threads : u # Host /\ pc[u] \in UncountedPC => pc[u] \in OwnsSlot
        BY <1>P DEF TypeOK, Threads, ReaderPC, AcquirePC, ReleasePC, UncountedPC, OwnsSlot
      <4>2. pc[Host] \in OwnsRef
        BY <2>1 DEF OwnsRef
      <4> QED
        BY <1>H, <4>1, <4>2 DEF Ownership, OwnersAreAlone
    <3> QED
      BY <1>H, <2>1, <2>2, <2>3, <3>1 DEF CountedSlots, UncountedPC
  <2>6. Cardinality(CountedSlots') = Cardinality(CountedSlots) + 1
    BY <2>5, CountedAreFinite, OneElement
  <2>7. CountersAreExact'
    BY <1>9, <1>P, <1>N, <2>4, <2>6
    DEF CountResult, CountersAreExact, PoolReferencesAreCounted, SessionPoolRef,
        sessionVars, poolVars
  <2>8. PoolHasOneEnd'
    <3>1. /\ Reclaiming("freePool")' <=> Reclaiming("freePool")
          /\ Reclaiming("decBytes")' <=> Reclaiming("decBytes")
      BY <1>H, <2>1, <2>2 DEF Reclaiming
    <3>2. \A u, v \in Threads :
              pc'[u] \in {"freePool", "decBytes"} /\ pc'[v] = pc'[u] => u = v
      BY <1>P, <2>1, <2>2 DEF PoolHasOneEnd
    <3> QED
      BY <1>9, <1>P, <3>1, <3>2
      DEF CountResult, PoolHasOneEnd, sessionVars, poolVars, contextVars
  <2>9. ContextIsLast'
    BY <1>9, <1>H, <1>P, <2>1, <2>2
    DEF CountResult, ContextIsLast, sessionVars, contextVars, ContextPC
  <2> QED
    BY <2>7, <2>8, <2>9 DEF Reclamation
<1>10. CASE BuildSnapshot
  <2>1. Moves(Host, "pubLock", ptr[Host])
    BY <1>H, <1>P, <1>10 DEF BuildSnapshot, Goto, Moves, TypeOK
  <2>2. /\ UNCHANGED <<active, poolVars, contextVars, session>>
        /\ pc[Host] \notin CountingPC
    BY <1>10
    DEF BuildSnapshot, sessionVars, slotVars, poolVars, contextVars, CountingPC, UncountedPC,
        ContextPC
  <2> QED
    BY <1>H, <1>P, <2>1, <2>2, QuietMove DEF CountingPC, UncountedPC, ContextPC
<1>11. CASE BuildFails
  <2>1. Moves(Host, "decRef", ptr[Host])
    BY <1>H, <1>P, <1>11 DEF BuildFails, Goto, Moves, TypeOK
  <2>2. /\ UNCHANGED <<active, poolVars, contextVars, session>>
        /\ pc[Host] \notin CountingPC
    BY <1>11
    DEF BuildFails, sessionVars, slotVars, poolVars, contextVars, CountingPC, UncountedPC,
        ContextPC
  <2> QED
    BY <1>H, <1>P, <2>1, <2>2, QuietMove DEF CountingPC, UncountedPC, ContextPC
<1>12. CASE LockToPublish
  <2>1. Moves(Host, "swap", ptr[Host])
    BY <1>H, <1>P, <1>12 DEF LockToPublish, Goto, Moves, TypeOK
  <2>2. /\ UNCHANGED <<active, poolVars, contextVars, session>>
        /\ pc[Host] \notin CountingPC
    BY <1>12
    DEF LockToPublish, sessionVars, slotVars, poolVars, contextVars, CountingPC, UncountedPC,
        ContextPC
  <2> QED
    BY <1>H, <1>P, <2>1, <2>2, QuietMove DEF CountingPC, UncountedPC, ContextPC
<1>13. CASE SwapCurrent
  <2>1. Moves(Host, "pubUnlock", current_result)
    BY <1>H, <1>P, <1>13 DEF SwapCurrent, Goto, Moves, TypeOK
  <2>2. /\ UNCHANGED <<active, poolVars, contextVars, session>>
        /\ pc[Host] \notin CountingPC
    BY <1>13
    DEF SwapCurrent, sessionVars, slotVars, poolVars, contextVars, CountingPC, UncountedPC,
        ContextPC
  <2> QED
    BY <1>H, <1>P, <2>1, <2>2, QuietMove DEF CountingPC, UncountedPC, ContextPC
<1>14. CASE UnlockPublished
  <2>1. Moves(Host, "decRef", ptr[Host])
    BY <1>H, <1>P, <1>14 DEF UnlockPublished, Goto, Moves, TypeOK
  <2>2. /\ UNCHANGED <<active, poolVars, contextVars, session>>
        /\ pc[Host] \notin CountingPC
    BY <1>14
    DEF UnlockPublished, sessionVars, slotVars, poolVars, contextVars, CountingPC, UncountedPC,
        ContextPC
  <2> QED
    BY <1>H, <1>P, <2>1, <2>2, QuietMove DEF CountingPC, UncountedPC, ContextPC
<1>15. CASE StartDestroy
  <2>1. Moves(Host, "desLock", ptr[Host])
    BY <1>H, <1>P, <1>15 DEF StartDestroy, Goto, Moves, TypeOK
  <2>2. /\ UNCHANGED <<active, poolVars, contextVars>> /\ pc[Host] \notin CountingPC
        /\ session' = session \/ (session = "open" /\ session' = "closing")
    BY <1>15
    DEF StartDestroy, sessionVars, slotVars, poolVars, contextVars, CountingPC, UncountedPC,
        ContextPC
  <2> QED
    BY <1>H, <1>P, <2>1, <2>2, QuietMove DEF CountingPC, UncountedPC, ContextPC
<1>16. CASE LockToDestroy
  <2>1. Moves(Host, "detach", ptr[Host])
    BY <1>H, <1>P, <1>16 DEF LockToDestroy, Goto, Moves, TypeOK
  <2>2. /\ UNCHANGED <<active, poolVars, contextVars, session>>
        /\ pc[Host] \notin CountingPC
    BY <1>16
    DEF LockToDestroy, sessionVars, slotVars, poolVars, contextVars, CountingPC, UncountedPC,
        ContextPC
  <2> QED
    BY <1>H, <1>P, <2>1, <2>2, QuietMove DEF CountingPC, UncountedPC, ContextPC
<1>17. CASE DetachCurrent
  <2>1. Moves(Host, "desUnlock", current_result)
    BY <1>H, <1>P, <1>17 DEF DetachCurrent, Goto, Moves, TypeOK
  <2>2. /\ UNCHANGED <<active, poolVars, contextVars, session>>
        /\ pc[Host] \notin CountingPC
    BY <1>17
    DEF DetachCurrent, sessionVars, slotVars, poolVars, contextVars, CountingPC, UncountedPC,
        ContextPC
  <2> QED
    BY <1>H, <1>P, <2>1, <2>2, QuietMove DEF CountingPC, UncountedPC, ContextPC
<1>18. CASE UnlockDetached
  <2>1. Moves(Host, "decRef", ptr[Host])
    BY <1>H, <1>P, <1>18 DEF UnlockDetached, Goto, Moves, TypeOK
  <2>2. /\ UNCHANGED <<active, poolVars, contextVars, session>>
        /\ pc[Host] \notin CountingPC
    BY <1>18
    DEF UnlockDetached, sessionVars, slotVars, poolVars, contextVars, CountingPC, UncountedPC,
        ContextPC
  <2> QED
    BY <1>H, <1>P, <2>1, <2>2, QuietMove DEF CountingPC, UncountedPC, ContextPC
<1>19. CASE UncountSession
  <2>1. Moves(Host, "decPool", ptr[Host]) /\ pc[Host] = "desCount"
    BY <1>19, <1>H, <1>P DEF UncountSession, Goto, Moves, TypeOK
  <2>2. /\ pc'[Host] = "decPool" /\ ptr'[Host] = ptr[Host]
        /\ \A u \in Threads : u # Host => pc'[u] = pc[u] /\ ptr'[u] = ptr[u]
    BY <1>H, <1>P, <2>1, OneThreadMoves
  <2>3. active' = active /\ session = "closing" /\ session' = "closed"
    BY <1>19, <1>P, <2>1
    DEF UncountSession, slotVars, Control, CallsAreInside, DestroyPC
  <2>4. /\ RetainedSlots' = RetainedSlots
        /\ PoolDroppers' = PoolDroppers \cup {Host} /\ Host \notin PoolDroppers
    BY <1>H, <2>1, <2>2, <2>3 DEF RetainedSlots, PoolDroppers
  <2>5. CountedSlots' = CountedSlots
    BY <1>H, <2>1, <2>2, <2>3 DEF CountedSlots, UncountedPC
  <2>6. Cardinality(PoolDroppers') = Cardinality(PoolDroppers) + 1
    BY <2>4, CountedAreFinite, OneElement
  <2>7. CountersAreExact'
    BY <1>19, <1>P, <1>N, <2>3, <2>4, <2>5, <2>6
    DEF UncountSession, CountersAreExact, PoolReferencesAreCounted, SessionPoolRef,
        poolVars
  <2>8. PoolHasOneEnd'
    <3>1. /\ Reclaiming("freePool")' <=> Reclaiming("freePool")
          /\ Reclaiming("decBytes")' <=> Reclaiming("decBytes")
      BY <1>H, <2>1, <2>2 DEF Reclaiming
    <3>2. \A u, v \in Threads :
              pc'[u] \in {"freePool", "decBytes"} /\ pc'[v] = pc'[u] => u = v
      BY <1>P, <2>1, <2>2 DEF PoolHasOneEnd
    <3> QED
      BY <1>19, <1>P, <3>1, <3>2, <2>3
      DEF UncountSession, PoolHasOneEnd, sessionVars, poolVars, contextVars
  <2>9. ContextIsLast'
    BY <1>19, <1>H, <1>P, <2>1, <2>2
    DEF UncountSession, ContextIsLast, sessionVars, contextVars, ContextPC
  <2> QED
    BY <2>7, <2>8, <2>9 DEF Reclamation
<1>20. CASE StartContextDestroy
  <2>1. Moves(Host, "ctxSessions", ptr[Host]) /\ pc[Host] = "idle"
    BY <1>20, <1>H, <1>P DEF StartContextDestroy, Goto, Moves, TypeOK
  <2>2. /\ pc'[Host] = "ctxSessions" /\ ptr'[Host] = ptr[Host]
        /\ \A u \in Threads : u # Host => pc'[u] = pc[u] /\ ptr'[u] = ptr[u]
    BY <1>H, <1>P, <2>1, OneThreadMoves
  <2>3. active' = active
    BY <1>20 DEF StartContextDestroy, slotVars
  <2>4. RetainedSlots' = RetainedSlots /\ PoolDroppers' = PoolDroppers
    BY <1>H, <2>1, <2>2, <2>3 DEF RetainedSlots, PoolDroppers
  <2>5. CountedSlots' = CountedSlots
    BY <1>H, <2>1, <2>2, <2>3 DEF CountedSlots, UncountedPC
  <2>6. CountersAreExact'
    BY <1>20, <1>P, <2>4, <2>5
    DEF StartContextDestroy, CountersAreExact, PoolReferencesAreCounted, SessionPoolRef,
        sessionVars, poolVars, contextVars
  <2>7. PoolHasOneEnd'
    <3>1. /\ Reclaiming("freePool")' <=> Reclaiming("freePool")
          /\ Reclaiming("decBytes")' <=> Reclaiming("decBytes")
      BY <1>H, <2>1, <2>2 DEF Reclaiming
    <3>2. \A u, v \in Threads :
              pc'[u] \in {"freePool", "decBytes"} /\ pc'[v] = pc'[u] => u = v
      BY <1>P, <2>1, <2>2 DEF PoolHasOneEnd
    <3> QED
      BY <1>20, <1>P, <3>1, <3>2
      DEF StartContextDestroy, PoolHasOneEnd, sessionVars, poolVars, contextVars
  <2>8. ContextIsLast'
    BY <1>20, <1>H, <1>P, <2>1, <2>2
    DEF StartContextDestroy, ContextIsLast, sessionVars, contextVars, ContextPC
  <2> QED
    BY <2>6, <2>7, <2>8 DEF Reclamation
<1>21. CASE LoadSessionCount
  <2>0. PICK l \in {"idle", "ctxResults"} : Moves(Host, l, ptr[Host])
    BY <1>21, <1>H, <1>P DEF LoadSessionCount, Goto, Moves, TypeOK
  <2>1. Moves(Host, l, ptr[Host]) /\ l \notin {"freePool", "decBytes"} /\ pc[Host] = "ctxSessions"
    BY <1>21, <2>0 DEF LoadSessionCount
  <2>2. /\ pc'[Host] = l /\ ptr'[Host] = ptr[Host]
        /\ \A u \in Threads : u # Host => pc'[u] = pc[u] /\ ptr'[u] = ptr[u]
    BY <1>H, <1>P, <2>1, OneThreadMoves
  <2>3. active' = active
    BY <1>21 DEF LoadSessionCount, slotVars
  <2>4. RetainedSlots' = RetainedSlots /\ PoolDroppers' = PoolDroppers
    BY <1>H, <2>0, <2>1, <2>2, <2>3 DEF RetainedSlots, PoolDroppers
  <2>5. CountedSlots' = CountedSlots
    BY <1>H, <2>0, <2>1, <2>2, <2>3 DEF CountedSlots, UncountedPC
  <2>6. CountersAreExact'
    BY <1>21, <1>P, <2>4, <2>5
    DEF LoadSessionCount, CountersAreExact, PoolReferencesAreCounted, SessionPoolRef,
        sessionVars, poolVars, contextVars
  <2>7. PoolHasOneEnd'
    <3>1. /\ Reclaiming("freePool")' <=> Reclaiming("freePool")
          /\ Reclaiming("decBytes")' <=> Reclaiming("decBytes")
      BY <1>H, <2>1, <2>2 DEF Reclaiming
    <3>2. \A u, v \in Threads :
              pc'[u] \in {"freePool", "decBytes"} /\ pc'[v] = pc'[u] => u = v
      BY <1>P, <2>1, <2>2 DEF PoolHasOneEnd
    <3> QED
      BY <1>21, <1>P, <3>1, <3>2
      DEF LoadSessionCount, PoolHasOneEnd, sessionVars, poolVars, contextVars
  <2>8. ContextIsLast'
    BY <1>21, <1>H, <1>P, <2>1, <2>2
    DEF LoadSessionCount, ContextIsLast, sessionVars, contextVars, ContextPC
  <2> QED
    BY <2>6, <2>7, <2>8 DEF Reclamation
<1>22. CASE LoadResultCount
  <2>0. PICK l \in {"idle", "ctxBytes"} : Moves(Host, l, ptr[Host])
    BY <1>22, <1>H, <1>P DEF LoadResultCount, Goto, Moves, TypeOK
  <2>1. Moves(Host, l, ptr[Host]) /\ l \notin {"freePool", "decBytes"} /\ pc[Host] = "ctxResults"
    BY <1>22, <2>0 DEF LoadResultCount
  <2>2. /\ pc'[Host] = l /\ ptr'[Host] = ptr[Host]
        /\ \A u \in Threads : u # Host => pc'[u] = pc[u] /\ ptr'[u] = ptr[u]
    BY <1>H, <1>P, <2>1, OneThreadMoves
  <2>3. active' = active
    BY <1>22 DEF LoadResultCount, slotVars
  <2>4. RetainedSlots' = RetainedSlots /\ PoolDroppers' = PoolDroppers
    BY <1>H, <2>0, <2>1, <2>2, <2>3 DEF RetainedSlots, PoolDroppers
  <2>5. CountedSlots' = CountedSlots
    BY <1>H, <2>0, <2>1, <2>2, <2>3 DEF CountedSlots, UncountedPC
  <2>6. CountersAreExact'
    BY <1>22, <1>P, <2>4, <2>5
    DEF LoadResultCount, CountersAreExact, PoolReferencesAreCounted, SessionPoolRef,
        sessionVars, poolVars, contextVars
  <2>7. PoolHasOneEnd'
    <3>1. /\ Reclaiming("freePool")' <=> Reclaiming("freePool")
          /\ Reclaiming("decBytes")' <=> Reclaiming("decBytes")
      BY <1>H, <2>1, <2>2 DEF Reclaiming
    <3>2. \A u, v \in Threads :
              pc'[u] \in {"freePool", "decBytes"} /\ pc'[v] = pc'[u] => u = v
      BY <1>P, <2>1, <2>2 DEF PoolHasOneEnd
    <3> QED
      BY <1>22, <1>P, <3>1, <3>2
      DEF LoadResultCount, PoolHasOneEnd, sessionVars, poolVars, contextVars
  <2>8. ContextIsLast'
    BY <1>22, <1>H, <1>P, <2>1, <2>2
    DEF LoadResultCount, ContextIsLast, sessionVars, contextVars, ContextPC
  <2> QED
    BY <2>6, <2>7, <2>8 DEF Reclamation
<1>23. CASE LoadBytesAndFree
  <2>1. Moves(Host, "idle", ptr[Host]) /\ pc[Host] = "ctxBytes"
    BY <1>23, <1>H, <1>P DEF LoadBytesAndFree, Goto, Moves, TypeOK
  <2>2. /\ pc'[Host] = "idle" /\ ptr'[Host] = ptr[Host]
        /\ \A u \in Threads : u # Host => pc'[u] = pc[u] /\ ptr'[u] = ptr[u]
    BY <1>H, <1>P, <2>1, OneThreadMoves
  <2>3. active' = active
    BY <1>23 DEF LoadBytesAndFree, slotVars
  <2>4. RetainedSlots' = RetainedSlots /\ PoolDroppers' = PoolDroppers
    BY <1>H, <2>1, <2>2, <2>3 DEF RetainedSlots, PoolDroppers
  <2>5. CountedSlots' = CountedSlots
    BY <1>H, <2>1, <2>2, <2>3 DEF CountedSlots, UncountedPC
  <2>6. CountersAreExact'
    BY <1>23, <1>P, <2>4, <2>5
    DEF LoadBytesAndFree, CountersAreExact, PoolReferencesAreCounted, SessionPoolRef,
        sessionVars, poolVars, contextVars
  <2>7. PoolHasOneEnd'
    <3>1. /\ Reclaiming("freePool")' <=> Reclaiming("freePool")
          /\ Reclaiming("decBytes")' <=> Reclaiming("decBytes")
      BY <1>H, <2>1, <2>2 DEF Reclaiming
    <3>2. \A u, v \in Threads :
              pc'[u] \in {"freePool", "decBytes"} /\ pc'[v] = pc'[u] => u = v
      BY <1>P, <2>1, <2>2 DEF PoolHasOneEnd
    <3> QED
      BY <1>23, <1>P, <3>1, <3>2
      DEF LoadBytesAndFree, PoolHasOneEnd, sessionVars, poolVars, contextVars
  <2>8. ContextIsLast'
    BY <1>23, <1>H, <1>P, <2>1, <2>2
    DEF LoadBytesAndFree, BytesOutstanding, ContextIsLast, sessionVars, contextVars, ContextPC
  <2> QED
    BY <2>6, <2>7, <2>8 DEF Reclamation
<1>24. ASSUME NEW r \in Readers, StartAcquire(r) PROVE Reclamation'
  <2>1. Moves(r, "acqLock", ptr[r])
    BY <1>H, <1>P, <1>24 DEF StartAcquire, Goto, Moves, TypeOK
  <2>2. /\ UNCHANGED <<active, poolVars, contextVars, session>>
        /\ pc[r] \notin CountingPC
    BY <1>24
    DEF StartAcquire, sessionVars, slotVars, poolVars, contextVars, CountingPC, UncountedPC,
        ContextPC
  <2> QED
    BY <1>H, <1>P, <2>1, <2>2, QuietMove DEF CountingPC, UncountedPC, ContextPC
<1>25. ASSUME NEW r \in Readers, LockToAcquire(r) PROVE Reclamation'
  <2>1. Moves(r, "acqRead", ptr[r])
    BY <1>H, <1>P, <1>25 DEF LockToAcquire, Goto, Moves, TypeOK
  <2>2. /\ UNCHANGED <<active, poolVars, contextVars, session>>
        /\ pc[r] \notin CountingPC
    BY <1>25
    DEF LockToAcquire, sessionVars, slotVars, poolVars, contextVars, CountingPC, UncountedPC,
        ContextPC
  <2> QED
    BY <1>H, <1>P, <2>1, <2>2, QuietMove DEF CountingPC, UncountedPC, ContextPC
<1>26. ASSUME NEW r \in Readers, ReadCurrent(r) PROVE Reclamation'
  <2>1. Moves(r, "acqRetain", current_result)
    BY <1>H, <1>P, <1>26 DEF ReadCurrent, Goto, Moves, TypeOK
  <2>2. /\ UNCHANGED <<active, poolVars, contextVars, session>>
        /\ pc[r] \notin CountingPC
    BY <1>26
    DEF ReadCurrent, sessionVars, slotVars, poolVars, contextVars, CountingPC, UncountedPC,
        ContextPC
  <2> QED
    BY <1>H, <1>P, <2>1, <2>2, QuietMove DEF CountingPC, UncountedPC, ContextPC
<1>27. ASSUME NEW r \in Readers, RetainResult(r) PROVE Reclamation'
  <2>1. Moves(r, "acqUnlock", ptr[r])
    BY <1>H, <1>P, <1>27 DEF RetainResult, Goto, Moves, TypeOK
  <2>2. /\ UNCHANGED <<active, poolVars, contextVars, session>>
        /\ pc[r] \notin CountingPC
    BY <1>27
    DEF RetainResult, sessionVars, slotVars, poolVars, contextVars, CountingPC, UncountedPC,
        ContextPC
  <2> QED
    BY <1>H, <1>P, <2>1, <2>2, QuietMove DEF CountingPC, UncountedPC, ContextPC
<1>28. ASSUME NEW r \in Readers, UnlockAcquired(r) PROVE Reclamation'
  <2>1. Moves(r, "holding", ptr[r])
    BY <1>H, <1>P, <1>28 DEF UnlockAcquired, Goto, Moves, TypeOK
  <2>2. /\ UNCHANGED <<active, poolVars, contextVars, session>>
        /\ pc[r] \notin CountingPC
    BY <1>28
    DEF UnlockAcquired, sessionVars, slotVars, poolVars, contextVars, CountingPC, UncountedPC,
        ContextPC
  <2> QED
    BY <1>H, <1>P, <2>1, <2>2, QuietMove DEF CountingPC, UncountedPC, ContextPC
<1>29. ASSUME NEW r \in Readers, Inspect(r) PROVE Reclamation'
  <2>1. Moves(r, "holding", ptr[r])
    BY <1>H, <1>P, <1>29 DEF Inspect, Goto, Moves, TypeOK
  <2>2. /\ UNCHANGED <<active, poolVars, contextVars, session>>
        /\ pc[r] \notin CountingPC
    BY <1>29
    DEF Inspect, sessionVars, slotVars, poolVars, contextVars, CountingPC, UncountedPC,
        ContextPC
  <2> QED
    BY <1>H, <1>P, <2>1, <2>2, QuietMove DEF CountingPC, UncountedPC, ContextPC
<1>30. ASSUME NEW r \in Readers, StartRelease(r) PROVE Reclamation'
  <2>1. Moves(r, "decRef", ptr[r])
    BY <1>H, <1>P, <1>30 DEF StartRelease, Goto, Moves, TypeOK
  <2>2. /\ UNCHANGED <<active, poolVars, contextVars, session>>
        /\ pc[r] \notin CountingPC
    BY <1>30
    DEF StartRelease, sessionVars, slotVars, poolVars, contextVars, CountingPC, UncountedPC,
        ContextPC
  <2> QED
    BY <1>H, <1>P, <2>1, <2>2, QuietMove DEF CountingPC, UncountedPC, ContextPC
<1>31. ASSUME NEW t \in Threads, DropReference(t) PROVE Reclamation'
  <2>1. PICK l, p : l \in {"decCount", "idle", "desCount"} /\ Moves(t, l, p)
    BY <1>31, <1>P DEF DropReference, Goto, Moves, Return, TypeOK
  <2>2. /\ UNCHANGED <<active, poolVars, contextVars, session>>
        /\ pc[t] \notin CountingPC /\ l \notin CountingPC
    BY <1>31, <2>1
    DEF DropReference, sessionVars, CountingPC, UncountedPC, ContextPC
  <2> QED
    BY <1>P, <2>1, <2>2, QuietMove
<1>32. ASSUME NEW t \in Threads, UncountResult(t) PROVE Reclamation'
  <2> DEFINE s0 == ptr[t]
  <2>1. Moves(t, "freeSlot", s0) /\ pc[t] = "decCount" /\ s0 \in Slots
    BY <1>32, <1>P
    DEF UncountResult, Goto, Moves, TypeOK, Control, PointersAreValid, OwnsSlot
  <2>2. /\ pc'[t] = "freeSlot" /\ ptr'[t] = s0
        /\ \A u \in Threads : u # t => pc'[u] = pc[u] /\ ptr'[u] = ptr[u]
    BY <1>H, <1>P, <2>1, OneThreadMoves
  <2>3. active' = active /\ active[s0]
    <3>1. t \in SlotOwners(s0)
      BY <2>1 DEF SlotOwners, OwnsSlot
    <3> QED
      BY <1>32, <2>1, <3>1 DEF UncountResult, slotVars, Ownership, NoLostSlot
  <2>4. RetainedSlots' = RetainedSlots /\ PoolDroppers' = PoolDroppers
    BY <1>H, <2>1, <2>2, <2>3 DEF RetainedSlots, PoolDroppers
  <2>5. CountedSlots' = CountedSlots \ {s0} /\ s0 \in CountedSlots
    <3>1. \A u \in Threads : u # t /\ pc[u] \in UncountedPC => ptr[u] # s0
      BY <2>1 DEF Ownership, OwnersAreAlone, UncountedPC, OwnsSlot, OwnsRef
    <3> QED
      BY <2>1, <2>2, <2>3, <3>1 DEF CountedSlots, UncountedPC
  <2>6. Cardinality(CountedSlots') = Cardinality(CountedSlots) - 1
    BY <2>5, CountedAreFinite, OneElement
  <2>7. CountersAreExact'
    BY <1>32, <1>P, <1>N, <2>4, <2>6
    DEF UncountResult, CountersAreExact, PoolReferencesAreCounted, SessionPoolRef,
        sessionVars, poolVars
  <2>8. PoolHasOneEnd'
    <3>1. /\ Reclaiming("freePool")' <=> Reclaiming("freePool")
          /\ Reclaiming("decBytes")' <=> Reclaiming("decBytes")
      BY <1>H, <2>1, <2>2 DEF Reclaiming
    <3>2. \A u, v \in Threads :
              pc'[u] \in {"freePool", "decBytes"} /\ pc'[v] = pc'[u] => u = v
      BY <1>P, <2>1, <2>2 DEF PoolHasOneEnd
    <3> QED
      BY <1>32, <1>P, <3>1, <3>2
      DEF UncountResult, PoolHasOneEnd, sessionVars, poolVars, contextVars
  <2>9. ContextIsLast'
    BY <1>32, <1>H, <1>P, <2>1, <2>2
    DEF UncountResult, ContextIsLast, sessionVars, contextVars, ContextPC
  <2> QED
    BY <2>7, <2>8, <2>9 DEF Reclamation
<1>33. ASSUME NEW t \in Threads, FreeSlot(t) PROVE Reclamation'
  <2> DEFINE s0 == ptr[t]
  <2>a. pc[t] = "freeSlot" /\ s0 \in Slots /\ active[s0]
    <3>1. pc[t] = "freeSlot" /\ s0 \in Slots
      BY <1>33, <1>P DEF FreeSlot, Control, PointersAreValid, OwnsSlot
    <3>2. t \in SlotOwners(s0)
      BY <3>1 DEF SlotOwners, OwnsSlot
    <3> QED
      BY <3>1, <3>2 DEF Ownership, NoLostSlot
  <2>1. Moves(t, "decPool", NoSlot) /\ pc[t] = "freeSlot"
    BY <1>33, <2>a DEF FreeSlot, Goto, Moves
  <2>2. /\ pc'[t] = "decPool" /\ ptr'[t] = NoSlot
        /\ \A u \in Threads : u # t => pc'[u] = pc[u] /\ ptr'[u] = ptr[u]
    BY <1>H, <1>P, <2>1, OneThreadMoves
  <2>3. \A s \in Slots : active'[s] <=> active[s] /\ s # s0
    BY <1>33, <1>P, <2>a DEF FreeSlot, TypeOK
  <2>4. \A u \in Threads : u # t /\ pc[u] \in UncountedPC => ptr[u] # s0
    BY <2>a DEF Ownership, OwnersAreAlone, UncountedPC, OwnsSlot, OwnsRef
  <2>5. RetainedSlots' = RetainedSlots \ {s0} /\ s0 \in RetainedSlots
    <3>1. ~(pc[Host] \in {"clear", "fill", "retain"} /\ ptr[Host] = s0)
      BY <1>H, <2>a, <2>4 DEF UncountedPC
    <3>2. /\ pc'[Host] \in {"clear", "fill", "retain"} <=>
                 pc[Host] \in {"clear", "fill", "retain"}
          /\ pc[Host] \in {"clear", "fill", "retain"} => ptr'[Host] = ptr[Host]
      BY <1>H, <2>a, <2>2
    <3> QED
      BY <2>a, <2>3, <3>1, <3>2 DEF RetainedSlots
  <2>6. PoolDroppers' = PoolDroppers \cup {t} /\ t \notin PoolDroppers
    BY <2>a, <2>2 DEF PoolDroppers
  <2>7. CountedSlots' = CountedSlots
    <3>1. s0 \notin CountedSlots /\ s0 \notin CountedSlots'
      BY <2>a, <2>3 DEF CountedSlots, UncountedPC
    <3>2. ASSUME NEW s \in Slots, s # s0 PROVE s \in CountedSlots' <=> s \in CountedSlots
      <4>1. \A u \in Threads : /\ pc'[u] \in UncountedPC /\ ptr'[u] = s
                               <=> pc[u] \in UncountedPC /\ ptr[u] = s
        BY <2>a, <2>2, <3>2 DEF UncountedPC
      <4> QED
        BY <2>3, <3>2, <4>1 DEF CountedSlots
    <3> QED
      BY <3>1, <3>2 DEF CountedSlots
  <2>8. /\ Cardinality(RetainedSlots') = Cardinality(RetainedSlots) - 1
        /\ Cardinality(PoolDroppers') = Cardinality(PoolDroppers) + 1
    BY <2>5, <2>6, CountedAreFinite, OneElement
  <2>9. CountersAreExact'
    BY <1>33, <1>P, <1>N, <2>7, <2>8
    DEF FreeSlot, CountersAreExact, PoolReferencesAreCounted, SessionPoolRef,
        sessionVars, poolVars, contextVars
  <2>10. PoolHasOneEnd'
    <3>1. /\ Reclaiming("freePool")' <=> Reclaiming("freePool")
          /\ Reclaiming("decBytes")' <=> Reclaiming("decBytes")
      BY <1>H, <2>1, <2>2 DEF Reclaiming
    <3>2. \A u, v \in Threads :
              pc'[u] \in {"freePool", "decBytes"} /\ pc'[v] = pc'[u] => u = v
      BY <1>P, <2>1, <2>2 DEF PoolHasOneEnd
    <3> QED
      BY <1>33, <1>P, <3>1, <3>2
      DEF FreeSlot, PoolHasOneEnd, sessionVars, poolVars, contextVars
  <2>11. ContextIsLast'
    BY <1>33, <1>H, <1>P, <2>1, <2>2
    DEF FreeSlot, ContextIsLast, sessionVars, contextVars, ContextPC
  <2> QED
    BY <2>9, <2>10, <2>11 DEF Reclamation
<1>34. ASSUME NEW t \in Threads, DropPool(t) PROVE Reclamation'
  <2>0. pc[t] = "decPool" /\ session # "absent" /\ t \in PoolDroppers
    BY <1>34, <1>P DEF DropPool, Control, CallsAreInside, PoolDroppers
  <2>1. PICK l \in {"freePool", "idle", "desCount"} :
            /\ Moves(t, l, ptr[t])
            /\ l = "freePool" <=> pool_reference_count = 1
    BY <1>34, <1>P DEF DropPool, LastPoolReference, Goto, Moves, Return, TypeOK
  <2>2. /\ pc'[t] = l /\ ptr'[t] = ptr[t]
        /\ \A u \in Threads : u # t => pc'[u] = pc[u] /\ ptr'[u] = ptr[u]
    BY <1>H, <1>P, <2>1, OneThreadMoves
  <2>3. active' = active
    BY <1>34 DEF DropPool, slotVars
  <2>4. RetainedSlots' = RetainedSlots /\ PoolDroppers' = PoolDroppers \ {t}
    BY <1>H, <2>0, <2>1, <2>2, <2>3 DEF RetainedSlots, PoolDroppers
  <2>5. CountedSlots' = CountedSlots
    BY <1>H, <2>0, <2>1, <2>2, <2>3 DEF CountedSlots, UncountedPC
  <2>6. Cardinality(PoolDroppers') = Cardinality(PoolDroppers) - 1
    BY <2>0, <2>4, CountedAreFinite, OneElement
  <2>7. CountersAreExact'
    BY <1>34, <1>P, <1>N, <2>4, <2>5, <2>6
    DEF DropPool, CountersAreExact, PoolReferencesAreCounted, SessionPoolRef,
        sessionVars, contextVars
  <2>8. pool_reference_count \in Nat \ {0}
    <3>1. Cardinality(PoolDroppers') \in Nat
      BY CountedAreFinite, <2>4, OneElement, FS_CardinalityType
    <3> QED
      BY <1>P, <1>N, <2>6, <3>1
      DEF CountersAreExact, PoolReferencesAreCounted, SessionPoolRef
  <2>9. pool = "live" /\ ~Reclaiming("freePool")
    BY <1>P, <2>0, <2>8, CountedIsLive
  <2>10. PoolHasOneEnd'
    <3>1. /\ pool' = "live" /\ session' = session /\ allocated_bytes' = allocated_bytes
          /\ pool_reference_count' = pool_reference_count - 1
      BY <1>34, <2>9 DEF DropPool, sessionVars, contextVars
    <3>2. Reclaiming("freePool")' <=> l = "freePool"
      BY <2>0, <2>2, <2>9 DEF Reclaiming
    <3>3. ~Reclaiming("decBytes") /\ ~Reclaiming("decBytes")'
      <4>1. ~Reclaiming("decBytes")
        BY <1>P, <2>9 DEF PoolHasOneEnd
      <4> QED
        BY <2>0, <2>1, <2>2, <4>1 DEF Reclaiming
    <3>4. \A u, v \in Threads :
              pc'[u] \in {"freePool", "decBytes"} /\ pc'[v] = pc'[u] => u = v
      BY <2>2, <2>9, <3>3 DEF Reclaiming
    <3> QED
      BY <1>P, <2>1, <2>8, <2>9, <3>1, <3>2, <3>3, <3>4 DEF PoolHasOneEnd
  <2>11. ContextIsLast'
    BY <1>34, <1>H, <1>P, <2>0, <2>1, <2>2
    DEF DropPool, ContextIsLast, sessionVars, contextVars, ContextPC
  <2> QED
    BY <2>7, <2>10, <2>11 DEF Reclamation
<1>35. ASSUME NEW t \in Threads, FreePool(t) PROVE Reclamation'
  <2>1. Moves(t, "decBytes", ptr[t]) /\ pc[t] = "freePool"
    BY <1>35, <1>P DEF FreePool, Goto, Moves, TypeOK
  <2>2. /\ pc'[t] = "decBytes" /\ ptr'[t] = ptr[t]
        /\ \A u \in Threads : u # t => pc'[u] = pc[u] /\ ptr'[u] = ptr[u]
    BY <1>H, <1>P, <2>1, OneThreadMoves
  <2>3. active' = active
    BY <1>35 DEF FreePool, slotVars
  <2>4. RetainedSlots' = RetainedSlots /\ PoolDroppers' = PoolDroppers
    BY <1>H, <2>1, <2>2, <2>3 DEF RetainedSlots, PoolDroppers
  <2>5. CountedSlots' = CountedSlots
    BY <1>H, <2>1, <2>2, <2>3 DEF CountedSlots, UncountedPC
  <2>6. CountersAreExact'
    BY <1>35, <1>P, <2>4, <2>5
    DEF FreePool, CountersAreExact, PoolReferencesAreCounted, SessionPoolRef,
        sessionVars, contextVars
  <2>7. PoolHasOneEnd'
    <3>1. Reclaiming("freePool") /\ pool = "live"
      BY <1>P, <2>1 DEF PoolHasOneEnd, Reclaiming
    <3>2. ~Reclaiming("decBytes")
      BY <1>P, <3>1 DEF PoolHasOneEnd
    <3>3. ~Reclaiming("freePool")'
      BY <1>P, <2>1, <2>2 DEF PoolHasOneEnd, Reclaiming
    <3>4. Reclaiming("decBytes")'
      BY <2>2 DEF Reclaiming
    <3>5. \A u, v \in Threads :
              pc'[u] \in {"freePool", "decBytes"} /\ pc'[v] = pc'[u] => u = v
      BY <2>2, <3>2, <3>3 DEF Reclaiming
    <3>6. session # "absent" /\ pool_reference_count = 0 /\ allocated_bytes = 1
      BY <1>P, <3>1 DEF PoolHasOneEnd
    <3> QED
      BY <1>35, <3>3, <3>4, <3>5, <3>6
      DEF FreePool, PoolHasOneEnd, sessionVars, contextVars
  <2>8. ContextIsLast'
    BY <1>35, <1>H, <1>P, <2>1, <2>2
    DEF FreePool, ContextIsLast, sessionVars, contextVars, ContextPC
  <2> QED
    BY <2>6, <2>7, <2>8 DEF Reclamation
<1>36. ASSUME NEW t \in Threads, ReturnBytes(t) PROVE Reclamation'
  <2>0. PICK l \in {"idle", "desCount"} : Moves(t, l, ptr[t])
    BY <1>36, <1>P DEF ReturnBytes, Goto, Moves, Return, TypeOK
  <2>1. Moves(t, l, ptr[t]) /\ l \notin CountingPC /\ pc[t] = "decBytes"
    BY <1>36, <2>0 DEF ReturnBytes, CountingPC, UncountedPC, ContextPC
  <2>2. /\ pc'[t] = l /\ ptr'[t] = ptr[t]
        /\ \A u \in Threads : u # t => pc'[u] = pc[u] /\ ptr'[u] = ptr[u]
    BY <1>H, <1>P, <2>1, OneThreadMoves
  <2>3. active' = active
    BY <1>36 DEF ReturnBytes, slotVars
  <2>4. RetainedSlots' = RetainedSlots /\ PoolDroppers' = PoolDroppers
    BY <1>H, <2>0, <2>1, <2>2, <2>3 DEF RetainedSlots, PoolDroppers
  <2>5. CountedSlots' = CountedSlots
    BY <1>H, <2>0, <2>1, <2>2, <2>3 DEF CountedSlots, UncountedPC
  <2>6. CountersAreExact'
    BY <1>36, <1>P, <2>4, <2>5
    DEF ReturnBytes, CountersAreExact, PoolReferencesAreCounted, SessionPoolRef,
        sessionVars, poolVars
  <2>7. PoolHasOneEnd'
    <3>1. Reclaiming("decBytes") /\ pool = "freed" /\ ~Reclaiming("freePool")
      BY <1>P, <2>1 DEF PoolHasOneEnd, Reclaiming
    <3>2. ~Reclaiming("decBytes")' /\ ~Reclaiming("freePool")'
      BY <1>P, <2>0, <2>1, <2>2, <3>1 DEF PoolHasOneEnd, Reclaiming
    <3>3. \A u \in Threads : pc'[u] \notin {"freePool", "decBytes"}
      BY <3>2 DEF Reclaiming
    <3>4. allocated_bytes = 1
      BY <1>P, <3>1 DEF PoolHasOneEnd
    <3> QED
      BY <1>36, <1>P, <3>1, <3>2, <3>3, <3>4
      DEF ReturnBytes, PoolHasOneEnd, sessionVars, poolVars
  <2>8. ContextIsLast'
    <3>1. allocated_bytes = 1
      BY <1>P, <2>1 DEF PoolHasOneEnd, Reclaiming
    <3> QED
      BY <1>36, <1>H, <1>P, <2>0, <2>1, <2>2, <3>1
      DEF ReturnBytes, ContextIsLast, sessionVars, ContextPC
  <2> QED
    BY <2>6, <2>7, <2>8 DEF Reclamation
<1> HIDE DEF Shape
<1> QED
  BY <1>1, <1>2, <1>3, <1>4, <1>5, <1>6, <1>7, <1>8, <1>9, <1>10, <1>11, <1>12,
     <1>13, <1>14, <1>15, <1>16, <1>17, <1>18, <1>19, <1>20, <1>21, <1>22, <1>23, <1>24,
     <1>25, <1>26, <1>27, <1>28, <1>29, <1>30, <1>31, <1>32, <1>33, <1>34, <1>35, <1>36
  DEF Next, PublishNext, DestroyNext, ReaderNext, ReleaseNext

(* Reclamation holds in every reachable state.                              *)
LEMMA ReclamationAlways == Spec => [](Shape /\ Ownership /\ Reclamation)
<1>1. Reclamation /\ UNCHANGED vars => Reclamation'
  BY DEF vars, sessionVars, slotVars, poolVars, contextVars, threadVars, Reclamation,
         CountersAreExact, PoolHasOneEnd, ContextIsLast, PoolReferencesAreCounted,
         RetainedSlots, CountedSlots, PoolDroppers, SessionPoolRef, Reclaiming
<1>2. Shape /\ Ownership /\ Reclamation /\ [Next]_vars => Reclamation'
  BY <1>1, ReclamationStep
<1> QED
  BY OwnershipAlways, InitReclamation, <1>2, PTL DEF Spec

(* pool->reference_count is, at every instant, the session's own reference  *)
(* plus one for every slot that has retained the pool and one for every     *)
(* thread that has recycled its slot and not yet dropped its reference.     *)
THEOREM PoolCountIsExact == Spec => []PoolReferencesAreCounted
<1>1. Reclamation => PoolReferencesAreCounted
  BY DEF Reclamation, CountersAreExact
<1> QED
  BY ReclamationAlways, <1>1, PTL

(* A thread that can reach a slot, or is about to drop or free the pool,    *)
(* finds the pool allocated: its own reference is among those counted.      *)
LEMMA PoolOutlivesItsUsers ==
    ASSUME Shape, Ownership, Reclamation, PoolInUse PROVE pool = "live"
<1>1. TypeOK /\ Control /\ PoolHasOneEnd /\ PoolReferencesAreCounted
  BY DEF Shape, Reclamation, CountersAreExact
<1>2. CASE session \in {"open", "closing"}
  <2>1. pool_reference_count # 0
    BY <1>1, <1>2, CountsAreNumbers DEF PoolReferencesAreCounted, SessionPoolRef
  <2> QED
    BY <1>1, <1>2, <2>1, CountedIsLive
<1>3. ASSUME NEW t \in Threads, pc[t] \in TouchesPool, session \notin {"open", "closing"}
      PROVE  pool = "live"
  <2>1. session # "absent"
    BY <1>1, <1>3 DEF Control, CallsAreInside, TouchesPool, OwnsRef, OwnsSlot
  <2>2. pc[Host] \notin PublishPC
    BY <1>1, <1>3 DEF Control, CallsAreInside
  <2>3. CASE pc[t] \in OwnsRef \cup OwnsSlot
    <3>1. ptr[t] \in Slots
      BY <1>1, <2>3 DEF Control, PointersAreValid
    <3>2. t \in RefOwners(ptr[t]) \/ t \in SlotOwners(ptr[t])
      BY <2>3 DEF RefOwners, SlotOwners
    <3>3. ptr[t] \in RetainedSlots
      BY <2>2, <3>1, <3>2 DEF Ownership, NoLostSlot, RetainedSlots, PublishPC
    <3>4. Cardinality(RetainedSlots) # 0
      BY <3>3, CountedAreFinite, FS_EmptySet
    <3>5. pool_reference_count # 0
      BY <1>1, <3>4, CountsAreNumbers DEF PoolReferencesAreCounted, SessionPoolRef
    <3> QED
      BY <1>1, <2>1, <3>5, CountedIsLive
  <2>4. CASE pc[t] = "decPool"
    <3>1. t \in PoolDroppers
      BY <2>4 DEF PoolDroppers
    <3>2. Cardinality(PoolDroppers) # 0
      BY <3>1, CountedAreFinite, FS_EmptySet
    <3>3. pool_reference_count # 0
      BY <1>1, <3>2, CountsAreNumbers DEF PoolReferencesAreCounted, SessionPoolRef
    <3> QED
      BY <1>1, <2>1, <3>3, CountedIsLive
  <2>5. CASE pc[t] = "freePool"
    BY <1>1, <2>5 DEF PoolHasOneEnd, Reclaiming
  <2>6. pc[t] # "scan"
    BY <1>1, <2>2 DEF TypeOK, Threads, ReaderPC, AcquirePC, ReleasePC, PublishPC
  <2> QED
    BY <1>3, <2>3, <2>4, <2>5, <2>6 DEF TouchesPool
<1> QED
  BY <1>2, <1>3 DEF PoolInUse

(* No thread, a reader that outlives the session included, ever touches a   *)
(* pool or a context that has been freed.                                   *)
THEOREM MemoryIsSafe == Spec => []NoUseAfterFree
<1>1. ASSUME Shape, Ownership, Reclamation PROVE NoUseAfterFree
  <2>1. PoolInUse => pool = "live"
    BY <1>1, PoolOutlivesItsUsers
  <2>2. ASSUME ContextInUse PROVE context = "live"
    <3>1. SUFFICES ASSUME context = "freed" PROVE FALSE
      BY <1>1 DEF Shape, TypeOK
    <3>2. session = "closed" /\ allocated_bytes = 0 /\ pc[Host] \notin ContextPC
      BY <1>1, <3>1 DEF Reclamation, ContextIsLast
    <3>3. pool # "live" /\ ~Reclaiming("decBytes")
      BY <1>1, <3>2 DEF Reclamation, PoolHasOneEnd
    <3>4. ~PoolInUse
      BY <2>1, <3>3
    <3>5. PICK t \in Threads : pc[t] \in ContextPC
      BY <2>2, <3>2, <3>3, <3>4 DEF ContextInUse, PoolInUse, TouchesContext, Reclaiming
    <3> QED
      BY <1>1, <3>2, <3>5
      DEF Shape, TypeOK, Threads, ReaderPC, AcquirePC, ReleasePC, ContextPC
  <2> QED
    BY <2>1, <2>2 DEF NoUseAfterFree
<1> QED
  BY ReclamationAlways, <1>1, PTL

(* Once the session is destroyed and every thread is out of the library,    *)
(* the pool is freed and the three counters that would make                 *)
(* apta_context_destroy answer BUSY are back to zero.                       *)
THEOREM EverythingIsReturned == Spec => []NothingLeaks
<1>1. ASSUME Shape, Ownership, Reclamation,
             session = "closed", \A t \in Threads : pc[t] = "idle"
      PROVE  pool = "freed" /\ session_count = 0 /\ result_count = 0 /\ allocated_bytes = 0
  <2>1. Host \in Threads
    BY DEF Threads
  <2>2. \A s \in Slots : ~active[s]
    <3>1. \A s \in Slots : RefOwners(s) = {} /\ SlotOwners(s) = {}
      BY <1>1 DEF RefOwners, SlotOwners, OwnsRef, OwnsSlot
    <3>2. current_result \notin Slots
      BY <1>1, <2>1 DEF Shape, Control, CurrentIsThere
    <3> QED
      BY <1>1, <3>1, <3>2 DEF Ownership, NoLostSlot
  <2>3. RetainedSlots = {} /\ CountedSlots = {} /\ PoolDroppers = {}
    BY <1>1, <2>2 DEF RetainedSlots, CountedSlots, PoolDroppers
  <2>4. pool_reference_count = 0 /\ result_count = 0 /\ session_count = 0
    BY <1>1, <2>3, FS_EmptySet
    DEF Reclamation, CountersAreExact, PoolReferencesAreCounted, SessionPoolRef
  <2>5. ~Reclaiming("freePool") /\ ~Reclaiming("decBytes")
    BY <1>1 DEF Reclaiming
  <2>6. pool = "freed" /\ allocated_bytes = 0
    BY <1>1, <2>4, <2>5 DEF Shape, TypeOK, Reclamation, PoolHasOneEnd
  <2> QED
    BY <2>4, <2>6
<1>2. Shape /\ Ownership /\ Reclamation => NothingLeaks
  BY <1>1 DEF NothingLeaks
<1> QED
  BY ReclamationAlways, <1>2, PTL

================================================================================
