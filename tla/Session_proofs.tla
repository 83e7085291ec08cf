------------------------------ MODULE Session_proofs ------------------------------
(***************************************************************************)
(* Proofs about Session, for any track, column, chunk and request.         *)
(***************************************************************************)
EXTENDS Session, RequestScheduler_proofs

--------------------------------------------------------------------------------
(* The life of the session. *)

(* Work is done only on a live session, between the test of the state at   *)
(* the entry and the end of the call.                                      *)
WorkIsLive == pc \in {"work", "end", "finish"} => state \in Live

Life == ResultMatchesState /\ WorkIsLive /\ EndIsAgreed

(* A created session is live and has published that.                       *)
LEMMA InitLife == Init => Life
BY DEF Init, Life, ResultMatchesState, WorkIsLive, EndIsAgreed, Live

(* Every step keeps the published state, the stored state and the end of   *)
(* input in agreement.                                                      *)
LEMMA LifeStep == Life /\ Next => Life'
<1> SUFFICES ASSUME Life, Next PROVE Life'
  OBVIOUS
<1> USE SessionAssumption
    DEF Life, ResultMatchesState, WorkIsLive, EndIsAgreed, MaximumAcceptedEnd, Live,
        lifeVars, lengthVars, inputVars, overviewVars, steeringVars, callVars,
        Leave, Goto, Result, PublicationFails, TransitionSucceeds, TransitionFails,
        EndIsSignalled, EndIsRolledBack, EndIsAcceptable, MayPull, DemandIsNoted, Unknown
<1>1. ASSUME NEW first \in Frames, NEW count \in 1 .. TrackFrames - first, PushPcm(first, count)
      PROVE  Life'
  BY <1>1 DEF PushPcm
<1>2. ASSUME NEW end \in 0 .. TrackFrames, SignalEndOfInput(end) PROVE Life'
  BY <1>2 DEF SignalEndOfInput
<1>3. ASSUME NEW source_total \in {Unknown, TrackFrames}, SetSource(source_total)
      PROVE  Life'
  BY <1>3 DEF SetSource
<1>4. ASSUME NEW region \in Regions, RequestRegion(region) PROVE Life'
  BY <1>4 DEF RequestRegion
<1>5. ASSUME NEW i \in DOMAIN requests, CancelRegionRequest(i) PROVE Life'
  BY <1>5 DEF CancelRegionRequest
<1>6. ASSUME NEW f \in Foci, SetFocus(f) PROVE Life'
  BY <1>6 DEF SetFocus
<1>7. CASE NextPcmRequest
  BY <1>7 DEF NextPcmRequest
<1>8. CASE RequestCancel
  BY <1>8 DEF RequestCancel
<1>9. CASE StartProcess
  BY <1>9 DEF StartProcess
<1>10. CASE PullRefused
  BY <1>10 DEF PullRefused
<1>11. CASE PullNotNeeded
  BY <1>11 DEF PullNotNeeded
<1>12. CASE PullFindsNoDemand
  BY <1>12 DEF PullFindsNoDemand
<1>13. CASE SourceBlocks
  BY <1>13 DEF SourceBlocks
<1>14. CASE SourceEnds
  BY <1>14 DEF SourceEnds
<1>15. CASE SourceFails
  BY <1>15 DEF SourceFails
<1>16. ASSUME NEW count \in 1 .. MaxPush, SourceDelivers(count) PROVE Life'
  BY <1>16 DEF SourceDelivers
<1>17. CASE EnterCancelled
  BY <1>17 DEF EnterCancelled
<1>18. CASE EnterTerminal
  BY <1>18 DEF EnterTerminal
<1>19. CASE EnterWork
  BY <1>19 DEF EnterWork
<1>20. CASE ReserveFails
  BY <1>20 DEF ReserveFails
<1>21. ASSUME NEW n \in 1 .. ProcessChunk, AnalyseChunk(n) PROVE Life'
  BY <1>21 DEF AnalyseChunk
<1>22. ASSUME NEW n \in 1 .. ProcessChunk, NEW c \in Columns, AnalysisFails(n, c)
       PROVE  Life'
  BY <1>22 DEF AnalysisFails
<1>23. CASE EndWork
  BY <1>23 DEF EndWork, WorkIsOver
<1>24. CASE EndWorkFails
  BY <1>24 DEF EndWorkFails, WorkIsOver
<1>25. CASE Finish
  BY <1>25 DEF Finish, IsDrained
<1> HIDE DEF Life
<1> QED
  BY <1>1, <1>2, <1>3, <1>4, <1>5, <1>6, <1>7, <1>8, <1>9, <1>10, <1>11, <1>12, <1>13,
     <1>14, <1>15, <1>16, <1>17, <1>18, <1>19, <1>20, <1>21, <1>22, <1>23, <1>24, <1>25
  DEF Next, HostNext, ProcessNext, PullNext, WorkNext

(* The invariant holds throughout.                                          *)
LEMMA LifeAlways == Spec => []Life
<1>1. Life /\ UNCHANGED vars => Life'
  BY DEF Life, ResultMatchesState, WorkIsLive, EndIsAgreed, MaximumAcceptedEnd,
         vars, lifeVars, lengthVars, inputVars, callVars
<1> QED
  BY InitLife, LifeStep, <1>1, PTL DEF Spec

(* Between any two steps the current result carries the state of the        *)
(* session, also when apta_internal_session_transition could not publish it. *)
THEOREM ResultAlwaysMatchesState == Spec => []ResultMatchesState
<1>1. Life => ResultMatchesState
  BY DEF Life
<1> QED
  BY LifeAlways, <1>1, PTL

(* The configured length, the final frame and the published length agree    *)
(* once the end of input is known, and a failed signal leaves no trace.      *)
THEOREM EndIsAlwaysAgreed == Spec => []EndIsAgreed
<1>1. Life => EndIsAgreed
  BY DEF Life
<1> QED
  BY LifeAlways, <1>1, PTL

(* No step leaves a terminal state or touches its result and its input.     *)
LEMMA TerminalStep ==
    ASSUME Life, Next, state \in Terminal
    PROVE  UNCHANGED <<state, published, accepted>>
<1> DEFINE Kept == UNCHANGED <<state, published, accepted>>
<1>1. state \notin Live /\ pc \notin {"work", "end", "finish"}
  BY DEF Life, WorkIsLive, Live, Terminal
<1> USE <1>1
    DEF Live, lifeVars, inputVars, TransitionSucceeds, TransitionFails, PublicationFails,
        EndIsSignalled, EndIsRolledBack, MayPull, DemandIsNoted, WorkIsOver
<1>2. ASSUME NEW first \in Frames, NEW count \in 1 .. TrackFrames - first, PushPcm(first, count)
      PROVE  Kept
  BY <1>2 DEF PushPcm
<1>3. ASSUME NEW end \in 0 .. TrackFrames, SignalEndOfInput(end) PROVE Kept
  BY <1>3 DEF SignalEndOfInput
<1>4. ASSUME NEW source_total \in {Unknown, TrackFrames}, SetSource(source_total)
      PROVE  Kept
  BY <1>4 DEF SetSource
<1>5. ASSUME NEW region \in Regions, RequestRegion(region) PROVE Kept
  BY <1>5 DEF RequestRegion
<1>6. ASSUME NEW i \in DOMAIN requests, CancelRegionRequest(i) PROVE Kept
  BY <1>6 DEF CancelRegionRequest
<1>7. ASSUME NEW f \in Foci, SetFocus(f) PROVE Kept
  BY <1>7 DEF SetFocus
<1>8. CASE NextPcmRequest
  BY <1>8 DEF NextPcmRequest
<1>9. CASE RequestCancel
  BY <1>9 DEF RequestCancel
<1>10. CASE StartProcess
  BY <1>10 DEF StartProcess
<1>11. CASE PullRefused
  BY <1>11 DEF PullRefused
<1>12. CASE PullNotNeeded
  BY <1>12 DEF PullNotNeeded
<1>13. CASE PullFindsNoDemand
  BY <1>13 DEF PullFindsNoDemand
<1>14. CASE SourceBlocks
  BY <1>14 DEF SourceBlocks
<1>15. CASE SourceEnds
  BY <1>15 DEF SourceEnds
<1>16. CASE SourceFails
  BY <1>16 DEF SourceFails
<1>17. ASSUME NEW count \in 1 .. MaxPush, SourceDelivers(count) PROVE Kept
  BY <1>17 DEF SourceDelivers
<1>18. CASE EnterCancelled
  BY <1>18 DEF EnterCancelled
<1>19. CASE EnterTerminal
  BY <1>19 DEF EnterTerminal
<1>20. CASE EnterWork
  BY <1>20 DEF EnterWork
<1>21. CASE ReserveFails
  BY <1>21 DEF ReserveFails
<1>22. ASSUME NEW n \in 1 .. ProcessChunk, AnalyseChunk(n) PROVE Kept
  BY <1>22 DEF AnalyseChunk
<1>23. ASSUME NEW n \in 1 .. ProcessChunk, NEW c \in Columns, AnalysisFails(n, c)
       PROVE  Kept
  BY <1>23 DEF AnalysisFails
<1>24. CASE EndWork
  BY <1>24 DEF EndWork
<1>25. CASE EndWorkFails
  BY <1>25 DEF EndWorkFails
<1>26. CASE Finish
  BY <1>26 DEF Finish
<1> QED
  BY <1>2, <1>3, <1>4, <1>5, <1>6, <1>7, <1>8, <1>9, <1>10, <1>11, <1>12, <1>13, <1>14,
     <1>15, <1>16, <1>17, <1>18, <1>19, <1>20, <1>21, <1>22, <1>23, <1>24, <1>25, <1>26
  DEF Next, HostNext, ProcessNext, PullNext, WorkNext

(* No call changes the state, the result or the input of a session that     *)
(* has completed, failed or been cancelled.                                  *)
THEOREM TerminalStaysFinal == Spec => TerminalIsFinal
<1>1. Life /\ [Next]_vars => (state \in Terminal => UNCHANGED <<state, published, accepted>>)
  BY TerminalStep DEF vars, lifeVars, inputVars
<1> QED
  BY LifeAlways, <1>1, PTL DEF Spec, TerminalIsFinal

--------------------------------------------------------------------------------
(* The PCM queue. *)

Held(node) == NodeFirst(node) .. NodeEnd(node) - 1
FramesOf(queue) == UNION {Held(queue[i]) : i \in DOMAIN queue}

(* A queue of unfinished nodes, no frame in two of them.                    *)
WellQueued(queue) ==
    /\ queue \in Seq(Node)
    /\ \A i \in DOMAIN queue : queue[i].processed < queue[i].frames
    /\ \A i, j \in DOMAIN queue : i # j => Held(queue[i]) \cap Held(queue[j]) = {}

(* The fields of a queued node are numbers, and it holds a frame.           *)
LEMMA NodeIsRange ==
    ASSUME NEW queue, WellQueued(queue), NEW i \in DOMAIN queue
    PROVE  /\ queue[i] \in Node /\ i \in 1 .. Len(queue)
           /\ NodeFirst(queue[i]) \in Nat /\ NodeEnd(queue[i]) \in Nat
           /\ NodeFirst(queue[i]) < NodeEnd(queue[i])
           /\ \A f : f \in Held(queue[i]) <=>
                  f \in Int /\ NodeFirst(queue[i]) <= f /\ f < NodeEnd(queue[i])
<1>1. queue[i] \in Node /\ i \in 1 .. Len(queue)
  BY LenProperties, ElementOfSeq DEF WellQueued
<1>2. queue[i].first \in Nat /\ queue[i].frames \in Nat /\ queue[i].processed \in Nat
  BY <1>1, SessionAssumption DEF Node, Frames
<1>3. queue[i].processed < queue[i].frames
  BY DEF WellQueued
<1> QED
  BY <1>1, <1>2, <1>3 DEF NodeFirst, NodeEnd, Held

(* The sort keeps the frames of the queue.                                  *)
LEMMA SortKeepsFrames ==
    ASSUME NEW queue, WellQueued(queue), NEW reqs, RequestsOK(reqs), NEW foc, FocusOK(foc)
    PROVE  /\ WellQueued(SortQueue(queue, reqs, foc))
           /\ FramesOf(SortQueue(queue, reqs, foc)) = FramesOf(queue)
           /\ SortQueue(queue, reqs, foc) = <<>> <=> queue = <<>>
<1> DEFINE n == Len(queue)
           q == SortQueue(queue, reqs, foc)
<1>0. n \in Nat /\ DOMAIN queue = 1 .. n /\ queue \in Seq(Node)
  BY LenProperties DEF WellQueued
<1>1. PICK p \in Bijection(1 .. n, 1 .. n) : q = [k \in 1 .. n |-> queue[p[k]]]
  BY <1>0, SortIsStable
<1>2. /\ \A k \in 1 .. n : p[k] \in 1 .. n /\ q[k] = queue[p[k]]
      /\ \A k, l \in 1 .. n : k # l => p[k] # p[l]
      /\ \A i \in 1 .. n : \E k \in 1 .. n : p[k] = i
      /\ DOMAIN q = 1 .. n
  BY <1>1 DEF Bijection, Injection, Surjection, IsInjective
<1>3. q \in Seq(Node)
  <2>1. \A k \in 1 .. n : queue[p[k]] \in Node
    BY <1>0, <1>2, ElementOfSeq
  <2>2. q \in [1 .. n -> Node]
    BY <1>1, <2>1
  <2> QED
    BY <1>0, <2>2, SeqDef
<1> HIDE DEF q
<1>4. WellQueued(q)
  <2>1. \A k \in 1 .. n : q[k].processed < q[k].frames
    BY <1>0, <1>2 DEF WellQueued
  <2>2. ASSUME NEW k \in 1 .. n, NEW l \in 1 .. n, k # l
        PROVE  Held(q[k]) \cap Held(q[l]) = {}
    <3>1. p[k] \in DOMAIN queue /\ p[l] \in DOMAIN queue /\ p[k] # p[l]
      BY <1>0, <1>2, <2>2
    <3>2. Held(queue[p[k]]) \cap Held(queue[p[l]]) = {}
      BY <3>1 DEF WellQueued
    <3> QED
      BY <1>2, <3>2
  <2> QED
    BY <1>2, <1>3, <2>1, <2>2 DEF WellQueued
<1>5. FramesOf(q) = FramesOf(queue)
  <2>1. \A f : f \in FramesOf(q) <=> \E k \in 1 .. n : f \in Held(q[k])
    BY <1>2 DEF FramesOf
  <2>2. \A f : f \in FramesOf(queue) <=> \E k \in 1 .. n : f \in Held(queue[k])
    BY <1>0 DEF FramesOf
  <2>3. ASSUME NEW f, NEW k \in 1 .. n, f \in Held(q[k]) PROVE f \in FramesOf(queue)
    BY <1>2, <2>2, <2>3
  <2>4. ASSUME NEW f, NEW i \in 1 .. n, f \in Held(queue[i]) PROVE f \in FramesOf(q)
    BY <1>2, <2>1, <2>4
  <2> QED
    BY <2>1, <2>2, <2>3, <2>4
<1>6. q = <<>> <=> queue = <<>>
  <2>1. Len(q) = n
    BY <1>0, <1>2, <1>3, LenProperties
  <2>2. q = <<>> <=> Len(q) = 0
    BY <1>3, EmptySeq
  <2>3. queue = <<>> <=> Len(queue) = 0
    BY <1>0, EmptySeq
  <2> QED
    BY <2>1, <2>2, <2>3
<1>7. q = SortQueue(queue, reqs, foc)
  BY DEF q
<1> HIDE DEF n
<1> QED
  BY <1>4, <1>5, <1>6, <1>7, Zenon

(* A node of new frames joins the queue.                                    *)
LEMMA AppendAddsFrames ==
    ASSUME NEW queue, WellQueued(queue), NEW node \in Node, node.processed < node.frames,
           Held(node) \cap FramesOf(queue) = {}
    PROVE  /\ WellQueued(Append(queue, node))
           /\ FramesOf(Append(queue, node)) = FramesOf(queue) \cup Held(node)
<1> DEFINE n == Len(queue)
           q == Append(queue, node)
<1>0. n \in Nat /\ DOMAIN queue = 1 .. n /\ queue \in Seq(Node)
  BY LenProperties DEF WellQueued
<1>1. /\ q \in Seq(Node) /\ Len(q) = n + 1
      /\ \A i \in 1 .. n : q[i] = queue[i]
      /\ q[n + 1] = node
  BY <1>0, AppendProperties
<1>2. DOMAIN q = 1 .. (n + 1)
  BY <1>1, LenProperties
<1> HIDE DEF q, n
<1>3. \A i \in 1 .. (n + 1) : \/ i \in 1 .. n /\ q[i] = queue[i]
                              \/ i = n + 1 /\ q[i] = node
  BY <1>0, <1>1
<1>4. \A i \in 1 .. n : Held(queue[i]) \subseteq FramesOf(queue)
  BY <1>0 DEF FramesOf
<1>5. WellQueued(q)
  <2>1. \A i \in DOMAIN q : q[i].processed < q[i].frames
    BY <1>0, <1>2, <1>3 DEF WellQueued
  <2>2. ASSUME NEW i \in DOMAIN q, NEW j \in DOMAIN q, i # j
        PROVE  Held(q[i]) \cap Held(q[j]) = {}
    BY <1>0, <1>2, <1>3, <1>4, <2>2 DEF WellQueued
  <2> QED
    BY <1>1, <2>1, <2>2 DEF WellQueued
<1>6. FramesOf(q) = FramesOf(queue) \cup Held(node)
  <2>1. \A i \in 1 .. n : i \in 1 .. (n + 1)
    BY <1>0
  <2>2. n + 1 \in 1 .. (n + 1)
    BY <1>0
  <2> QED
    BY <1>0, <1>1, <1>2, <1>3, <2>1, <2>2 DEF FramesOf
<1> QED
  BY <1>5, <1>6 DEF q

(* Taking element i out of a sequence closes the gap.                       *)
LEMMA RemovedElement ==
    ASSUME NEW S, NEW s \in Seq(S), NEW i \in 1 .. Len(s)
    PROVE  LET r == SubSeq(s, 1, i - 1) \o SubSeq(s, i + 1, Len(s)) IN
           /\ r \in Seq(S) /\ Len(r) = Len(s) - 1
           /\ \A k \in 1 .. Len(s) - 1 : r[k] = s[IF k < i THEN k ELSE k + 1]
<1> DEFINE n == Len(s)
           a == SubSeq(s, 1, i - 1)
           b == SubSeq(s, i + 1, n)
           r == a \o b
<1>0. n \in Nat /\ \A k \in 1 .. n : s[k] \in S
  BY LenProperties, ElementOfSeq
<1>1. a \in Seq(S) /\ Len(a) = i - 1 /\ \A k \in 1 .. i - 1 : a[k] = s[k]
  <2>1. \A k \in 1 .. i - 1 : s[k] \in S
    BY <1>0
  <2>2. /\ a \in Seq(S)
        /\ Len(a) = IF 1 <= i - 1 THEN (i - 1) - 1 + 1 ELSE 0
        /\ \A k \in 1 .. (i - 1) - 1 + 1 : a[k] = s[1 + k - 1]
    BY <1>0, <2>1, SubSeqProperties
  <2> QED
    BY <1>0, <2>2
<1>2. b \in Seq(S) /\ Len(b) = n - i /\ \A k \in 1 .. n - i : b[k] = s[i + k]
  <2>1. \A k \in i + 1 .. n : s[k] \in S
    BY <1>0
  <2>2. /\ b \in Seq(S)
        /\ Len(b) = IF i + 1 <= n THEN n - (i + 1) + 1 ELSE 0
        /\ \A k \in 1 .. n - (i + 1) + 1 : b[k] = s[(i + 1) + k - 1]
    BY <1>0, <2>1, SubSeqProperties
  <2> QED
    BY <1>0, <2>2
<1> HIDE DEF a, b
<1>3. /\ r \in Seq(S) /\ Len(r) = Len(a) + Len(b)
      /\ \A k \in 1 .. Len(a) + Len(b) : r[k] =
             IF k <= Len(a) THEN a[k] ELSE b[k - Len(a)]
  BY <1>1, <1>2, ConcatProperties
<1>4. Len(r) = n - 1
  BY <1>0, <1>1, <1>2, <1>3
<1>5. ASSUME NEW k \in 1 .. n - 1 PROVE r[k] = s[IF k < i THEN k ELSE k + 1]
  BY <1>0, <1>1, <1>2, <1>3
<1> QED
  BY <1>3, <1>4, <1>5 DEF a, b

(* The queue after n frames of node i, QueueAfter of the code, for any      *)
(* queue.                                                                   *)
Consumed(queue, i, n) ==
    IF queue[i].processed + n = queue[i].frames
    THEN SubSeq(queue, 1, i - 1) \o SubSeq(queue, i + 1, Len(queue))
    ELSE [queue EXCEPT ![i].processed = @ + n]

(* Analysing n frames of a node takes just these frames from the queue.     *)
LEMMA ConsumedTakesChunk ==
    ASSUME NEW queue, WellQueued(queue), NEW i \in DOMAIN queue, NEW n \in Nat,
           n <= queue[i].frames - queue[i].processed
    PROVE  LET chunk == NodeFirst(queue[i]) .. NodeFirst(queue[i]) + n - 1 IN
           /\ WellQueued(Consumed(queue, i, n))
           /\ chunk \subseteq FramesOf(queue)
           /\ FramesOf(Consumed(queue, i, n)) = FramesOf(queue) \ chunk
<1> DEFINE len == Len(queue)
           first == NodeFirst(queue[i])
           chunk == first .. first + n - 1
           q == Consumed(queue, i, n)
<1>0. len \in Nat /\ DOMAIN queue = 1 .. len /\ queue \in Seq(Node) /\ i \in 1 .. len
  BY LenProperties DEF WellQueued
<1>1. /\ queue[i] \in Node /\ first \in Nat /\ NodeEnd(queue[i]) \in Nat
      /\ first + n <= NodeEnd(queue[i])
      /\ queue[i].processed \in Nat /\ queue[i].frames \in Nat /\ queue[i].first \in Nat
      /\ queue[i].frames \in 1 .. TrackFrames /\ queue[i].processed < queue[i].frames
  <2>1. queue[i] \in Node
    BY NodeIsRange
  <2>2. queue[i].first \in Nat /\ queue[i].frames \in 1 .. TrackFrames
        /\ queue[i].processed \in Nat
    BY <2>1, SessionAssumption DEF Node, Frames
  <2>3. queue[i].processed < queue[i].frames
    BY DEF WellQueued
  <2> QED
    BY <2>1, <2>2, <2>3, SessionAssumption DEF NodeFirst, NodeEnd
<1>2. chunk \subseteq Held(queue[i])
  BY <1>1 DEF Held
<1>3. chunk \subseteq FramesOf(queue)
  BY <1>2 DEF FramesOf
<1>4. \A j \in 1 .. len : j # i => Held(queue[j]) \cap chunk = {}
  BY <1>0, <1>2 DEF WellQueued
<1>5. CASE queue[i].processed + n = queue[i].frames
  <2>1. Held(queue[i]) = chunk
    BY <1>1, <1>5 DEF Held, NodeFirst, NodeEnd
  <2>2. /\ q \in Seq(Node) /\ Len(q) = len - 1
        /\ \A k \in 1 .. len - 1 : q[k] = queue[IF k < i THEN k ELSE k + 1]
    BY <1>0, <1>5, RemovedElement DEF Consumed
  <2>3. DOMAIN q = 1 .. len - 1
    BY <2>2, LenProperties
  <2> HIDE DEF q, chunk, len
  <2>4. \A k \in 1 .. len - 1 : (IF k < i THEN k ELSE k + 1) \in (1 .. len) \ {i}
    BY <1>0
  <2>5. \A k, l \in 1 .. len - 1 : k # l =>
            (IF k < i THEN k ELSE k + 1) # (IF l < i THEN l ELSE l + 1)
    BY <1>0
  <2>6. \A j \in (1 .. len) \ {i} : \E k \in 1 .. len - 1 :
            j = IF k < i THEN k ELSE k + 1
    <3>1. ASSUME NEW j \in 1 .. len, j < i
          PROVE  j \in 1 .. len - 1 /\ j = IF j < i THEN j ELSE j + 1
      BY <1>0, <3>1
    <3>2. ASSUME NEW j \in 1 .. len, j > i
          PROVE  j - 1 \in 1 .. len - 1 /\ j = IF j - 1 < i THEN j - 1 ELSE (j - 1) + 1
      BY <1>0, <3>2
    <3> QED
      BY <1>0, <3>1, <3>2
  <2>7. WellQueued(q)
    <3>1. \A k \in 1 .. len - 1 : q[k].processed < q[k].frames
      BY <1>0, <2>2, <2>4 DEF WellQueued
    <3>2. \A k, l \in 1 .. len - 1 : k # l => Held(q[k]) \cap Held(q[l]) = {}
      BY <1>0, <2>2, <2>4, <2>5 DEF WellQueued
    <3> QED
      BY <2>2, <2>3, <3>1, <3>2 DEF WellQueued
  <2>8. FramesOf(q) = UNION {Held(queue[j]) : j \in (1 .. len) \ {i}}
    <3>1. \A k \in 1 .. len - 1 : \E j \in (1 .. len) \ {i} : q[k] = queue[j]
      BY <2>2, <2>4
    <3>2. \A j \in (1 .. len) \ {i} : \E k \in 1 .. len - 1 : q[k] = queue[j]
      BY <2>2, <2>6
    <3> QED
      BY <2>3, <3>1, <3>2 DEF FramesOf
  <2>9. FramesOf(q) = FramesOf(queue) \ chunk
    BY <1>0, <1>4, <2>1, <2>8 DEF FramesOf
  <2> QED
    BY <1>3, <2>7, <2>9 DEF q, chunk
<1>6. CASE queue[i].processed + n # queue[i].frames
  <2> DEFINE m == [queue[i] EXCEPT !.processed = @ + n]
  <2>1. /\ m \in Node /\ m.processed < m.frames
        /\ m.first = queue[i].first /\ m.frames = queue[i].frames
        /\ m.processed = queue[i].processed + n
    BY <1>1, <1>6, SessionAssumption DEF Node
  <2>2. q = [queue EXCEPT ![i] = m]
    BY <1>6 DEF Consumed
  <2> HIDE DEF m, q
  <2>3. /\ q \in Seq(Node) /\ Len(q) = len
        /\ \A j \in 1 .. len : q[j] = IF j = i THEN m ELSE queue[j]
    BY <1>0, <2>1, <2>2, ExceptSeq
  <2>4. DOMAIN q = 1 .. len
    BY <2>3, LenProperties
  <2>5. Held(m) = Held(queue[i]) \ chunk
    BY <1>1, <2>1 DEF Held, NodeFirst, NodeEnd
  <2> HIDE DEF chunk, len
  <2>6. WellQueued(q)
    <3>1. \A k \in 1 .. len : q[k].processed < q[k].frames
      BY <1>0, <2>1, <2>3 DEF WellQueued
    <3>2. \A k, l \in 1 .. len : k # l => Held(q[k]) \cap Held(q[l]) = {}
      BY <1>0, <2>3, <2>5 DEF WellQueued
    <3> QED
      BY <2>3, <2>4, <3>1, <3>2 DEF WellQueued
  <2>7. FramesOf(q) = FramesOf(queue) \ chunk
    <3>1. \A f : f \in FramesOf(q) <=> \E j \in 1 .. len : f \in Held(q[j])
      BY <2>4 DEF FramesOf
    <3>2. \A f : f \in FramesOf(queue) <=> \E j \in 1 .. len : f \in Held(queue[j])
      BY <1>0 DEF FramesOf
    <3>3. \A j \in 1 .. len : Held(q[j]) = Held(queue[j]) \ chunk
      BY <1>4, <2>3, <2>5
    <3> QED
      BY <3>1, <3>2, <3>3
  <2> QED
    BY <1>3, <2>6, <2>7 DEF q, chunk
<1> QED
  BY <1>5, <1>6

(* What is accepted of a block is a prefix of it that is new.               *)
LEMMA PrefixIsNew ==
    ASSUME accepted \subseteq Nat, NEW first \in Nat, NEW count \in Nat
    PROVE  /\ AcceptablePrefix(first, count) \in 0 .. count
           /\ \A f \in first .. first + AcceptablePrefix(first, count) - 1 : f \notin accepted
<1> DEFINE limit == Smaller(count, MaxPush)
           stops == {f \in accepted : f >= first} \cup {first + limit}
<1>1. limit \in 0 .. count
  BY SchedulerAssumption DEF Smaller
<1> HIDE DEF limit
<1>2. \A x \in stops : x \in Nat /\ first <= x
  BY <1>1
<1>3. SmallestOf(stops) \in stops /\ \A x \in stops : SmallestOf(stops) <= x
  <2>1. stops \subseteq Nat /\ stops # {}
    BY <1>2
  <2> HIDE DEF stops
  <2> QED
    BY <2>1, SmallestIsFirst
<1>4. AcceptablePrefix(first, count) = SmallestOf(stops) - first
  BY DEF AcceptablePrefix, limit
<1>5. SmallestOf(stops) \in Nat /\ first <= SmallestOf(stops)
      /\ SmallestOf(stops) <= first + limit
      /\ \A f \in accepted : f >= first => SmallestOf(stops) <= f
  BY <1>2, <1>3
<1> HIDE DEF stops
<1> QED
  BY <1>1, <1>4, <1>5

--------------------------------------------------------------------------------
(* The shape of the session's data. *)

Request == [first : Nat, end : Nat, priority : Nat, deadline : Nat,
            state : RequestStates, skips : 0 .. MaxSkips]

LengthIsOK == total_frames \in {Unknown} \cup 0 .. TrackFrames
InputIsOK ==
    /\ accepted \subseteq Frames
    /\ WellQueued(pcm_queue)
    /\ FramesOf(pcm_queue) \subseteq accepted
SteeringIsOK == requests \in Seq(Request) /\ focus \in Foci \cup {NoFocus}
OverviewIsOK ==
    /\ accumulators \subseteq Columns
    /\ complete \subseteq accumulators
    /\ sample_count \in [Columns -> Nat]

Layout == LengthIsOK /\ InputIsOK /\ SteeringIsOK /\ OverviewIsOK

(* The frames of the track and its columns are finitely many.               *)
LEMMA FramesAreFinite ==
    /\ Frames \subseteq Nat /\ IsFiniteSet(Frames) /\ IsFiniteSet(Columns)
    /\ \A S \in SUBSET Frames : IsFiniteSet(S) /\ Cardinality(S) \in Nat
<1>1. Frames \subseteq Nat /\ IsFiniteSet(Frames)
  BY SessionAssumption, FS_Interval DEF Frames
<1>2. IsFiniteSet(Columns)
  <2> DEFINE col == [f \in Frames |-> Column(f)]
  <2>1. Columns = {col[f] : f \in Frames}
    BY DEF Columns
  <2> HIDE DEF col
  <2> QED
    BY <1>1, <2>1, ImageIsFinite
<1>3. \A S \in SUBSET Frames : IsFiniteSet(S) /\ Cardinality(S) \in Nat
  BY <1>1, FS_Subset, FS_CardinalityType
<1> QED
  BY <1>1, <1>2, <1>3

(* The scheduler is given what it expects.                                  *)
LEMMA SteeringIsUsable ==
    SteeringIsOK => RequestsOK(requests) /\ FocusOK(focus)
<1> SUFFICES ASSUME SteeringIsOK PROVE RequestsOK(requests) /\ FocusOK(focus)
  OBVIOUS
<1>1. Len(requests) \in Nat /\ DOMAIN requests = 1 .. Len(requests)
      /\ \A i \in DOMAIN requests : requests[i] \in Request
  BY LenProperties, ElementOfSeq DEF SteeringIsOK
<1>2. RequestsOK(requests)
  <2>1. ASSUME NEW i \in DOMAIN requests
        PROVE  /\ requests[i].first \in Nat /\ requests[i].end \in Nat
               /\ requests[i].priority \in Nat /\ requests[i].deadline \in Nat
               /\ requests[i].skips \in Nat
    BY <1>1, SchedulerAssumption DEF Request
  <2> QED
    BY <1>1, <2>1 DEF RequestsOK
<1> QED
  BY <1>2, SessionAssumption DEF SteeringIsOK, FocusOK

(* A demand, when there is one, is a range of frames that are missing.      *)
LEMMA DemandIsRange ==
    ASSUME Layout, HasDemand
    PROVE  Demand(accepted, Target).first \in Nat /\ Demand(accepted, Target).end \in Nat
<1>1. GreatestAcceptedEnd \in Nat
  <2> DEFINE S == {f \in 0 .. TrackFrames : f \notin accepted}
  <2>1. TrackFrames \in S
    BY SessionAssumption DEF Layout, InputIsOK, Frames
  <2>2. S \subseteq Nat /\ S # {}
    BY <2>1
  <2>3. SmallestOf(S) \in S
    BY <2>2, SmallestIsFirst
  <2> QED
    BY <2>2, <2>3 DEF GreatestAcceptedEnd
<1>2. Target.first \in Nat /\ Target.end \in Int
  BY <1>1, SteeringIsUsable, TargetIsRange, SessionAssumption
  DEF Layout, LengthIsOK, Unknown, Target
<1>3. accepted \subseteq Nat /\ MissingFrames(accepted, Target) # {}
  BY FramesAreFinite DEF Layout, InputIsOK, HasDemand
<1> HIDE DEF Target
<1> QED
  BY <1>2, <1>3, DemandIsMissing

(* Accepting a prefix of a block adds new frames, all of them queued.       *)
LEMMA AcceptKeepsInput ==
    ASSUME InputIsOK, NEW first \in Nat, NEW count \in Nat, first + count <= TrackFrames,
           NEW n \in AllocatedCounts(AcceptablePrefix(first, count)), Accept(first, n)
    PROVE  InputIsOK' /\ accepted \subseteq accepted' /\ Analysed' = Analysed
<1> DEFINE prefix == AcceptablePrefix(first, count)
           block == first .. first + n - 1
           node == [first |-> first, frames |-> n, processed |-> 0]
<1>0. accepted \subseteq Frames /\ WellQueued(pcm_queue) /\ FramesOf(pcm_queue) \subseteq accepted
  BY DEF InputIsOK
<1>1. /\ prefix \in 0 .. count /\ n \in 0 .. prefix
      /\ \A f \in first .. first + prefix - 1 : f \notin accepted
  <2>1. accepted \subseteq Nat
    BY <1>0, FramesAreFinite
  <2>2. n \in 0 .. prefix
    BY Zenon DEF AllocatedCounts
  <2> QED
    BY <2>1, <2>2, PrefixIsNew
<1> HIDE DEF prefix
<1>2. n \in Nat /\ n <= count /\ block \cap accepted = {} /\ block \subseteq Frames
  BY <1>1, SessionAssumption DEF Frames
<1>3. QueuedFrames = FramesOf(pcm_queue) /\ QueuedFrames' = FramesOf(pcm_queue')
  BY DEF QueuedFrames, FramesOf, Held
<1>4. accepted' = accepted \cup block
  BY DEF Accept
<1>5. WellQueued(pcm_queue') /\ FramesOf(pcm_queue') = FramesOf(pcm_queue) \cup block
  <2>1. CASE n = 0
    <3>1. block = {}
      BY <2>1
    <3>2. pcm_queue' = pcm_queue
      BY <2>1 DEF Accept
    <3> QED
      BY <1>0, <3>1, <3>2
  <2>2. CASE n # 0
    <3>1. node \in Node /\ node.processed < node.frames
      BY <1>2, <2>2, SessionAssumption DEF Node, Frames
    <3>2. Held(node) = block
      BY <1>2 DEF Held, NodeFirst, NodeEnd
    <3>3. pcm_queue' = Append(pcm_queue, node)
      BY <2>2 DEF Accept
    <3> HIDE DEF node, block
    <3> QED
      BY <1>0, <1>2, <3>1, <3>2, <3>3, AppendAddsFrames
  <2> QED
    BY <2>1, <2>2
<1> HIDE DEF block
<1> QED
  BY <1>0, <1>2, <1>3, <1>4, <1>5 DEF InputIsOK, Analysed

(* The chunk under analysis is taken from the queue, and nothing else.      *)
LEMMA ChunkIsQueued ==
    ASSUME Layout, pcm_queue # <<>>, NEW n \in 1 .. ProcessChunk, n <= FullChunk
    PROVE  /\ NodeFirst(pcm_queue[Current]) \in Nat
           /\ WellQueued(QueueAfter(Current, n))
           /\ ChunkFrames(n) \subseteq FramesOf(pcm_queue)
           /\ FramesOf(QueueAfter(Current, n)) = FramesOf(pcm_queue) \ ChunkFrames(n)
<1>1. WellQueued(pcm_queue) /\ pcm_queue \in Seq(Node)
  BY DEF Layout, InputIsOK, WellQueued
<1>2. Current \in DOMAIN pcm_queue
  <2>1. Current \in 1 .. Len(pcm_queue)
    BY <1>1, SteeringIsUsable, SelectFindsNode DEF Layout, Current
  <2> QED
    BY <1>1, <2>1, LenProperties
<1> HIDE DEF Current
<1>3. n \in Nat /\ n <= pcm_queue[Current].frames - pcm_queue[Current].processed
  <2>1. pcm_queue[Current] \in Node
    BY <1>1, <1>2, NodeIsRange
  <2> QED
    BY <2>1, SessionAssumption DEF FullChunk, Smaller, Node
<1>4. QueueAfter(Current, n) = Consumed(pcm_queue, Current, n)
  BY DEF QueueAfter, Consumed
<1> QED
  BY <1>1, <1>2, <1>3, <1>4, NodeIsRange, ConsumedTakesChunk DEF ChunkFrames

(* No step loses accepted input or forgets that it was analysed, and only   *)
(* a chunk of the queue can become analysed.                                *)
LEMMA InputStep ==
    ASSUME Layout, Next
    PROVE  /\ InputIsOK' /\ accepted \subseteq accepted'
           /\ \/ Analysed' = Analysed
              \/ \E n \in 1 .. ProcessChunk :
                     /\ AnalyseChunk(n)
                     /\ ChunkFrames(n) \subseteq Frames \ Analysed
                     /\ Analysed' = Analysed \cup ChunkFrames(n)
<1> DEFINE Kept == UNCHANGED <<accepted, pcm_queue>>
           Chunk == \E n \in 1 .. ProcessChunk :
                        /\ AnalyseChunk(n)
                        /\ ChunkFrames(n) \subseteq Frames \ Analysed
                        /\ Analysed' = Analysed \cup ChunkFrames(n)
           Goal == /\ InputIsOK' /\ accepted \subseteq accepted'
                   /\ Analysed' = Analysed \/ Chunk
<1> SUFFICES Goal
  OBVIOUS
<1>a. InputIsOK /\ QueuedFrames = FramesOf(pcm_queue) /\ QueuedFrames' = FramesOf(pcm_queue')
  BY DEF Layout, QueuedFrames, FramesOf, Held
<1>b. Kept => Goal
  BY <1>a DEF InputIsOK, Analysed
<1>c. ASSUME accepted' = accepted, pcm_queue' = SortQueue(pcm_queue, requests, focus)
      PROVE  Goal
  <2>1. WellQueued(pcm_queue') /\ FramesOf(pcm_queue') = FramesOf(pcm_queue)
    BY <1>a, <1>c, SteeringIsUsable, SortKeepsFrames DEF Layout, InputIsOK
  <2> QED
    BY <1>a, <1>c, <2>1 DEF InputIsOK, Analysed
<1>d. ASSUME NEW first \in Nat, NEW count \in Nat, first + count <= TrackFrames,
             \E n \in AllocatedCounts(AcceptablePrefix(first, count)) : Accept(first, n)
      PROVE  Goal
  BY <1>a, <1>d, AcceptKeepsInput
<1> HIDE DEF Goal
<1>1. ASSUME NEW first \in Frames, NEW count \in 1 .. TrackFrames - first, PushPcm(first, count)
      PROVE  Goal
  <2>1. first \in Nat /\ count \in Nat /\ first + count <= TrackFrames
    BY SessionAssumption DEF Frames
  <2>2. Kept \/ \E n \in AllocatedCounts(AcceptablePrefix(first, count)) : Accept(first, n)
    BY <1>1 DEF PushPcm, inputVars
  <2> QED
    BY <2>1, <2>2, <1>b, <1>d
<1>2. ASSUME NEW end \in 0 .. TrackFrames, SignalEndOfInput(end) PROVE Goal
  BY <1>2, <1>b DEF SignalEndOfInput, inputVars
<1>3. ASSUME NEW source_total \in {Unknown, TrackFrames}, SetSource(source_total)
      PROVE  Goal
  BY <1>3, <1>b DEF SetSource, inputVars
<1>4. ASSUME NEW region \in Regions, RequestRegion(region) PROVE Goal
  BY <1>4, <1>b DEF RequestRegion, inputVars
<1>5. ASSUME NEW i \in DOMAIN requests, CancelRegionRequest(i) PROVE Goal
  BY <1>5, <1>b DEF CancelRegionRequest, inputVars
<1>6. ASSUME NEW f \in Foci, SetFocus(f) PROVE Goal
  BY <1>6, <1>b DEF SetFocus, inputVars
<1>7. CASE NextPcmRequest
  BY <1>7, <1>b DEF NextPcmRequest, inputVars
<1>8. CASE RequestCancel
  BY <1>8, <1>b DEF RequestCancel, inputVars
<1>9. CASE StartProcess
  BY <1>9, <1>b DEF StartProcess, inputVars
<1>10. CASE PullRefused
  BY <1>10, <1>b DEF PullRefused, inputVars
<1>11. CASE PullNotNeeded
  BY <1>11, <1>b DEF PullNotNeeded, inputVars
<1>12. CASE PullFindsNoDemand
  BY <1>12, <1>b DEF PullFindsNoDemand, inputVars
<1>13. CASE SourceBlocks
  BY <1>13, <1>b DEF SourceBlocks, inputVars
<1>14. CASE SourceEnds
  BY <1>14, <1>b DEF SourceEnds, inputVars
<1>15. CASE SourceFails
  BY <1>15, <1>b DEF SourceFails, inputVars
<1>16. ASSUME NEW count \in 1 .. MaxPush, SourceDelivers(count) PROVE Goal
  <2> DEFINE first == Demand(accepted, Target).first
  <2>1. first \in Nat /\ Demand(accepted, Target).end \in Nat
    BY <1>16, DemandIsRange DEF SourceDelivers, DemandIsNoted
  <2>2. count \in Nat /\ first + count <= TrackFrames
    BY <1>16, <2>1, SessionAssumption, SchedulerAssumption DEF SourceDelivers, Smaller
  <2>3. Kept \/ \E n \in AllocatedCounts(AcceptablePrefix(first, count)) : Accept(first, n)
    BY <1>16 DEF SourceDelivers, inputVars
  <2> HIDE DEF first
  <2> QED
    BY <2>1, <2>2, <2>3, <1>b, <1>d
<1>17. CASE EnterCancelled
  BY <1>17, <1>b DEF EnterCancelled, inputVars
<1>18. CASE EnterTerminal
  BY <1>18, <1>b DEF EnterTerminal, inputVars
<1>19. CASE EnterWork
  BY <1>19, <1>c DEF EnterWork
<1>20. CASE ReserveFails
  BY <1>20, <1>c DEF ReserveFails
<1>21. ASSUME NEW n \in 1 .. ProcessChunk, AnalyseChunk(n) PROVE Goal
  <2>1. pcm_queue # <<>> /\ n <= FullChunk /\ pcm_queue' = QueueAfter(Current, n)
        /\ accepted' = accepted
    BY <1>21 DEF AnalyseChunk
  <2>2. /\ WellQueued(pcm_queue') /\ ChunkFrames(n) \subseteq FramesOf(pcm_queue)
        /\ FramesOf(pcm_queue') = FramesOf(pcm_queue) \ ChunkFrames(n)
    BY <2>1, ChunkIsQueued
  <2>3. InputIsOK' /\ ChunkFrames(n) \subseteq Frames \ Analysed
        /\ Analysed' = Analysed \cup ChunkFrames(n)
    BY <1>a, <2>1, <2>2 DEF InputIsOK, Analysed
  <2> QED
    BY <1>21, <2>1, <2>3 DEF Goal
<1>22. ASSUME NEW n \in 1 .. ProcessChunk, NEW c \in Columns, AnalysisFails(n, c)
       PROVE  Goal
  BY <1>22, <1>b DEF AnalysisFails, inputVars
<1>23. CASE EndWork
  BY <1>23, <1>b DEF EndWork, inputVars
<1>24. CASE EndWorkFails
  BY <1>24, <1>b DEF EndWorkFails, inputVars
<1>25. CASE Finish
  BY <1>25, <1>b DEF Finish, inputVars
<1> QED
  BY <1>1, <1>2, <1>3, <1>4, <1>5, <1>6, <1>7, <1>8, <1>9, <1>10, <1>11, <1>12,
     <1>13, <1>14, <1>15, <1>16, <1>17, <1>18, <1>19, <1>20, <1>21, <1>22,
     <1>23, <1>24, <1>25
  DEF Next, HostNext, ProcessNext, PullNext, WorkNext

(* The length is set once, to a frame of the track that bounds the input.   *)
LEMMA LengthStep ==
    ASSUME Layout, Life, Next
    PROVE  /\ LengthIsOK'
           /\ \/ final_end_frame' = final_end_frame
              \/ /\ final_end_frame = Unknown
                 /\ accepted' = accepted
                 /\ final_end_frame' \in Nat
                 /\ MaximumAcceptedEnd <= final_end_frame'
<1> DEFINE Kept == UNCHANGED <<total_frames, final_end_frame>>
           Set == /\ LengthIsOK' /\ accepted' = accepted
                  /\ final_end_frame = Unknown /\ final_end_frame' \in Nat
                  /\ MaximumAcceptedEnd <= final_end_frame'
           Goal == /\ LengthIsOK'
                   /\ \/ final_end_frame' = final_end_frame
                      \/ /\ final_end_frame = Unknown /\ accepted' = accepted
                         /\ final_end_frame' \in Nat
                         /\ MaximumAcceptedEnd <= final_end_frame'
<1> SUFFICES Goal
  OBVIOUS
<1>a. Kept => Goal
  BY DEF Layout, LengthIsOK
<1>b. Set => Goal
  OBVIOUS
<1>c. ASSUME NEW end \in 0 .. TrackFrames, EndIsSignalled(end), UNCHANGED inputVars
      PROVE  Goal
  <2>1. Set
    BY <1>c DEF EndIsSignalled, EndIsAcceptable, LengthIsOK, inputVars, Life, EndIsAgreed
  <2> QED
    BY <2>1, <1>b
<1>d. ASSUME NEW end, EndIsRolledBack(end) PROVE Goal
  BY <1>d, <1>a DEF EndIsRolledBack, lengthVars
<1> HIDE DEF Goal
<1>1. ASSUME NEW first \in Frames, NEW count \in 1 .. TrackFrames - first, PushPcm(first, count)
      PROVE  Goal
  BY <1>1, <1>a DEF PushPcm, lengthVars
<1>2. ASSUME NEW end \in 0 .. TrackFrames, SignalEndOfInput(end) PROVE Goal
  BY <1>2, <1>c, <1>d DEF SignalEndOfInput
<1>3. ASSUME NEW source_total \in {Unknown, TrackFrames}, SetSource(source_total)
      PROVE  Goal
  <2>1. LengthIsOK' /\ final_end_frame' = final_end_frame
    BY <1>3, SessionAssumption DEF SetSource, LengthIsOK, Layout
  <2> QED
    BY <2>1 DEF Goal
<1>4. ASSUME NEW region \in Regions, RequestRegion(region) PROVE Goal
  BY <1>4, <1>a DEF RequestRegion, lengthVars
<1>5. ASSUME NEW i \in DOMAIN requests, CancelRegionRequest(i) PROVE Goal
  BY <1>5, <1>a DEF CancelRegionRequest, lengthVars
<1>6. ASSUME NEW f \in Foci, SetFocus(f) PROVE Goal
  BY <1>6, <1>a DEF SetFocus, lengthVars
<1>7. CASE NextPcmRequest
  BY <1>7, <1>a DEF NextPcmRequest, lengthVars
<1>8. CASE RequestCancel
  BY <1>8, <1>a DEF RequestCancel, lengthVars
<1>9. CASE StartProcess
  BY <1>9, <1>a DEF StartProcess, lengthVars
<1>10. CASE PullRefused
  BY <1>10, <1>a DEF PullRefused, lengthVars
<1>11. CASE PullNotNeeded
  BY <1>11, <1>a DEF PullNotNeeded, lengthVars
<1>12. CASE PullFindsNoDemand
  <2>1. CASE total_frames = Unknown
    BY <1>12, <2>1, <1>a DEF PullFindsNoDemand, lengthVars
  <2>2. CASE total_frames # Unknown
    <3>1. total_frames \in 0 .. TrackFrames
      BY <2>2 DEF Layout, LengthIsOK
    <3> QED
      BY <1>12, <2>2, <3>1, <1>c, <1>d DEF PullFindsNoDemand
  <2> QED
    BY <2>1, <2>2
<1>13. CASE SourceBlocks
  BY <1>13, <1>a DEF SourceBlocks, lengthVars
<1>14. CASE SourceEnds
  <2>1. TrackFrames \in 0 .. TrackFrames
    BY SessionAssumption
  <2> QED
    BY <1>14, <2>1, <1>c, <1>d DEF SourceEnds
<1>15. CASE SourceFails
  BY <1>15, <1>a DEF SourceFails, lengthVars
<1>16. ASSUME NEW count \in 1 .. MaxPush, SourceDelivers(count) PROVE Goal
  BY <1>16, <1>a DEF SourceDelivers, lengthVars
<1>17. CASE EnterCancelled
  BY <1>17, <1>a DEF EnterCancelled, lengthVars
<1>18. CASE EnterTerminal
  BY <1>18, <1>a DEF EnterTerminal, lengthVars
<1>19. CASE EnterWork
  BY <1>19, <1>a DEF EnterWork, lengthVars
<1>20. CASE ReserveFails
  BY <1>20, <1>a DEF ReserveFails, lengthVars
<1>21. ASSUME NEW n \in 1 .. ProcessChunk, AnalyseChunk(n) PROVE Goal
  BY <1>21, <1>a DEF AnalyseChunk, lengthVars
<1>22. ASSUME NEW n \in 1 .. ProcessChunk, NEW c \in Columns, AnalysisFails(n, c)
       PROVE  Goal
  BY <1>22, <1>a DEF AnalysisFails, lengthVars
<1>23. CASE EndWork
  BY <1>23, <1>a DEF EndWork, lengthVars
<1>24. CASE EndWorkFails
  BY <1>24, <1>a DEF EndWorkFails, lengthVars
<1>25. CASE Finish
  BY <1>25, <1>a DEF Finish, lengthVars
<1> QED
  BY <1>1, <1>2, <1>3, <1>4, <1>5, <1>6, <1>7, <1>8, <1>9, <1>10, <1>11, <1>12,
     <1>13, <1>14, <1>15, <1>16, <1>17, <1>18, <1>19, <1>20, <1>21, <1>22,
     <1>23, <1>24, <1>25
  DEF Next, HostNext, ProcessNext, PullNext, WorkNext

(* A noted decision changes nothing of a request but its age.               *)
LEMMA NoteKeepsRequests ==
    ASSUME NEW reqs \in Seq(Request), NEW id
    PROVE  /\ NoteChoice(reqs, id) \in Seq(Request)
           /\ DOMAIN NoteChoice(reqs, id) = DOMAIN reqs
           /\ \A i \in DOMAIN reqs :
                  /\ NoteChoice(reqs, id)[i].state = reqs[i].state
                  /\ NoteChoice(reqs, id)[i].first = reqs[i].first
                  /\ NoteChoice(reqs, id)[i].end = reqs[i].end
<1> DEFINE noted == NoteChoice(reqs, id)
<1>1. Len(reqs) \in Nat /\ DOMAIN reqs = 1 .. Len(reqs)
      /\ \A i \in DOMAIN reqs : reqs[i] \in Request
  BY LenProperties, ElementOfSeq
<1>2. DOMAIN noted = DOMAIN reqs
  BY DEF NoteChoice
<1>3. ASSUME NEW i \in DOMAIN reqs
      PROVE  /\ noted[i] \in Request /\ noted[i].state = reqs[i].state
             /\ noted[i].first = reqs[i].first /\ noted[i].end = reqs[i].end
  <2>1. reqs[i] \in Request
    BY <1>1
  <2>2. PICK s \in 0 .. MaxSkips : noted[i] = [reqs[i] EXCEPT !.skips = s]
    <3>1. CASE ~IsActive(reqs[i])
      <4>1. noted[i] = reqs[i]
        BY <3>1 DEF NoteChoice
      <4>2. reqs[i] = [reqs[i] EXCEPT !.skips = reqs[i].skips] /\ reqs[i].skips \in 0 .. MaxSkips
        BY <2>1 DEF Request
      <4> QED
        BY <4>1, <4>2
    <3>2. CASE IsActive(reqs[i])
      <4> DEFINE s == IF i = id THEN 0 ELSE Smaller(MaxSkips, reqs[i].skips + 1)
      <4>1. noted[i] = [reqs[i] EXCEPT !.skips = s]
        BY <3>2 DEF NoteChoice
      <4>2. reqs[i].skips \in 0 .. MaxSkips
        BY <2>1 DEF Request
      <4>3. s \in 0 .. MaxSkips
        BY <4>2, SchedulerAssumption DEF Smaller
      <4> HIDE DEF s
      <4> QED
        BY <4>1, <4>3
    <3> QED
      BY <3>1, <3>2
  <2> HIDE DEF noted
  <2> QED
    BY <2>1, <2>2 DEF Request
<1>4. noted \in Seq(Request)
  <2>1. noted = [i \in 1 .. Len(reqs) |-> noted[i]]
    BY <1>1 DEF NoteChoice
  <2> HIDE DEF noted
  <2>2. noted \in [1 .. Len(reqs) -> Request]
    BY <1>1, <1>3, <2>1
  <2> QED
    BY <1>1, <2>2, SeqDef
<1> QED
  BY <1>2, <1>3, <1>4

(* Bringing the requests up to date changes only the states of active ones, *)
(* and reports as satisfied only those whose columns are all complete.      *)
LEMMA UpdateKeepsRequests ==
    ASSUME SteeringIsOK
    PROVE  /\ UpdatedRequests \in Seq(Request)
           /\ DOMAIN UpdatedRequests = DOMAIN requests
           /\ \A i \in DOMAIN requests :
                  /\ UpdatedRequests[i].first = requests[i].first
                  /\ UpdatedRequests[i].end = requests[i].end
                  /\ UpdatedRequests[i].state = "SATISFIED" =>
                         \/ requests[i].state = "SATISFIED"
                         \/ RequestColumns(requests[i]) \subseteq complete
<1> DEFINE u == UpdatedRequests
<1>1. Len(requests) \in Nat /\ DOMAIN requests = 1 .. Len(requests)
      /\ \A i \in DOMAIN requests : requests[i] \in Request
  BY LenProperties, ElementOfSeq DEF SteeringIsOK
<1>2. DOMAIN u = DOMAIN requests
  BY DEF UpdatedRequests
<1>3. ASSUME NEW i \in DOMAIN requests
      PROVE  /\ u[i] \in Request
             /\ u[i].first = requests[i].first /\ u[i].end = requests[i].end
             /\ u[i].state = "SATISFIED" => \/ requests[i].state = "SATISFIED"
                                            \/ RequestColumns(requests[i]) \subseteq complete
  <2>1. requests[i] \in Request
    BY <1>1
  <2>2. CASE ~IsActive(requests[i])
    <3>1. u[i] = requests[i]
      BY <2>2 DEF UpdatedRequests
    <3> QED
      BY <2>1, <3>1
  <2>3. CASE IsActive(requests[i])
    <3> DEFINE s == RequestState(requests[i])
    <3>1. u[i] = [requests[i] EXCEPT !.state = s]
      BY <2>3 DEF UpdatedRequests
    <3>2. s \in RequestStates /\ (s = "SATISFIED" => RequestColumns(requests[i]) \subseteq complete)
      BY DEF RequestState, RequestStates
    <3> HIDE DEF s, u
    <3> QED
      BY <2>1, <3>1, <3>2 DEF Request
  <2> QED
    BY <2>2, <2>3
<1>4. u \in Seq(Request)
  <2>1. u = [i \in 1 .. Len(requests) |-> u[i]]
    BY <1>1 DEF UpdatedRequests
  <2> HIDE DEF u
  <2>2. u \in [1 .. Len(requests) -> Request]
    BY <1>1, <1>3, <2>1
  <2> QED
    BY <1>1, <2>2, SeqDef
<1> QED
  BY <1>2, <1>3, <1>4

(* A request becomes satisfied only when all its columns are complete, and  *)
(* keeps its region.                                                        *)
LEMMA SteeringStep ==
    ASSUME Layout, Next
    PROVE  /\ SteeringIsOK'
           /\ \A i \in DOMAIN requests' :
                  requests'[i].state = "SATISFIED" =>
                      \/ RequestColumns(requests'[i]) \subseteq complete
                      \/ /\ i \in DOMAIN requests /\ requests[i].state = "SATISFIED"
                         /\ RequestColumns(requests'[i]) = RequestColumns(requests[i])
<1> DEFINE Goal == /\ SteeringIsOK'
                   /\ \A i \in DOMAIN requests' :
                          requests'[i].state = "SATISFIED" =>
                              \/ RequestColumns(requests'[i]) \subseteq complete
                              \/ /\ i \in DOMAIN requests /\ requests[i].state = "SATISFIED"
                                 /\ RequestColumns(requests'[i]) = RequestColumns(requests[i])
<1> SUFFICES Goal
  OBVIOUS
<1>a. SteeringIsOK /\ requests \in Seq(Request) /\ focus \in Foci \cup {NoFocus}
  BY DEF Layout, SteeringIsOK
<1>b. UNCHANGED <<requests, focus>> => Goal
  BY <1>a DEF SteeringIsOK
<1>c. ASSUME requests' \in Seq(Request), focus' = focus, DOMAIN requests' = DOMAIN requests,
             \A i \in DOMAIN requests :
                 /\ requests'[i].first = requests[i].first /\ requests'[i].end = requests[i].end
                 /\ requests'[i].state = "SATISFIED" =>
                        \/ requests[i].state = "SATISFIED"
                        \/ RequestColumns(requests[i]) \subseteq complete
      PROVE  Goal
  <2>1. SteeringIsOK'
    BY <1>a, <1>c DEF SteeringIsOK
  <2>2. \A i \in DOMAIN requests : RequestColumns(requests'[i]) = RequestColumns(requests[i])
    BY <1>c DEF RequestColumns
  <2> HIDE DEF SteeringIsOK
  <2> QED
    BY <1>c, <2>1, <2>2
<1>d. ASSUME NEW id, requests' = NoteChoice(requests, id), focus' = focus PROVE Goal
  BY <1>a, <1>c, <1>d, NoteKeepsRequests
<1>e. ASSUME requests' = UpdatedRequests, focus' = focus PROVE Goal
  BY <1>a, <1>c, <1>e, UpdateKeepsRequests
<1>f. ASSUME NEW id, requests' = NoteChoice(UpdatedRequests, id), focus' = focus
      PROVE  Goal
  <2> DEFINE u == UpdatedRequests
  <2>1. /\ u \in Seq(Request) /\ DOMAIN u = DOMAIN requests
        /\ \A i \in DOMAIN requests :
               /\ u[i].first = requests[i].first /\ u[i].end = requests[i].end
               /\ u[i].state = "SATISFIED" => \/ requests[i].state = "SATISFIED"
                                              \/ RequestColumns(requests[i]) \subseteq complete
    BY <1>a, UpdateKeepsRequests
  <2>2. /\ requests' \in Seq(Request) /\ DOMAIN requests' = DOMAIN u
        /\ \A i \in DOMAIN u : /\ requests'[i].state = u[i].state
                               /\ requests'[i].first = u[i].first
                               /\ requests'[i].end = u[i].end
    <3> HIDE DEF u
    <3>1. requests' = NoteChoice(u, id)
      BY <1>f DEF u
    <3> QED
      BY <2>1, <3>1, NoteKeepsRequests
  <2> HIDE DEF u
  <2> QED
    BY <1>c, <1>f, <2>1, <2>2
<1> HIDE DEF Goal
<1>1. ASSUME NEW first \in Frames, NEW count \in 1 .. TrackFrames - first, PushPcm(first, count)
      PROVE  Goal
  BY <1>1, <1>b DEF PushPcm, steeringVars
<1>2. ASSUME NEW end \in 0 .. TrackFrames, SignalEndOfInput(end) PROVE Goal
  BY <1>2, <1>b DEF SignalEndOfInput, steeringVars
<1>3. ASSUME NEW source_total \in {Unknown, TrackFrames}, SetSource(source_total)
      PROVE  Goal
  BY <1>3, <1>b DEF SetSource, steeringVars
<1>4. ASSUME NEW region \in Regions, RequestRegion(region) PROVE Goal
  <2> DEFINE r == [first |-> region.first, end |-> region.end, priority |-> region.priority,
                   deadline |-> region.deadline, state |-> "QUEUED", skips |-> 0]
  <2>1. r \in Request /\ r.state = "QUEUED"
    BY SessionAssumption, SchedulerAssumption DEF Request, RequestStates
  <2>2. requests' = Append(requests, r) /\ focus' = focus
    BY <1>4 DEF RequestRegion
  <2> HIDE DEF r
  <2>3. /\ requests' \in Seq(Request) /\ Len(requests') = Len(requests) + 1
        /\ \A i \in 1 .. Len(requests) : requests'[i] = requests[i]
        /\ requests'[Len(requests) + 1] = r
    BY <1>a, <2>1, <2>2, AppendProperties
  <2>4. /\ DOMAIN requests = 1 .. Len(requests) /\ Len(requests) \in Nat
        /\ DOMAIN requests' = 1 .. (Len(requests) + 1)
    BY <1>a, <2>3, LenProperties
  <2>5. ASSUME NEW i \in DOMAIN requests', requests'[i].state = "SATISFIED"
        PROVE  i \in DOMAIN requests /\ requests'[i] = requests[i]
    BY <2>1, <2>3, <2>4, <2>5
  <2>6. SteeringIsOK'
    BY <1>a, <2>2, <2>3 DEF SteeringIsOK
  <2> QED
    BY <2>5, <2>6 DEF Goal
<1>5. ASSUME NEW i \in DOMAIN requests, CancelRegionRequest(i) PROVE Goal
  <2> DEFINE r == [requests[i] EXCEPT !.state = "CANCELLED"]
  <2>1. i \in 1 .. Len(requests) /\ requests[i] \in Request /\ DOMAIN requests = 1 .. Len(requests)
    BY <1>a, LenProperties, ElementOfSeq
  <2>2. r \in Request /\ r.state = "CANCELLED" /\ r.first = requests[i].first /\ r.end = requests[i].end
    BY <2>1 DEF Request, RequestStates
  <2>3. requests' = [requests EXCEPT ![i] = r] /\ focus' = focus
    BY <1>5 DEF CancelRegionRequest
  <2> HIDE DEF r
  <2>4. /\ requests' \in Seq(Request) /\ Len(requests') = Len(requests)
        /\ \A j \in 1 .. Len(requests) : requests'[j] = IF j = i THEN r ELSE requests[j]
    BY <1>a, <2>1, <2>2, <2>3, ExceptSeq
  <2>5. DOMAIN requests' = DOMAIN requests
    BY <2>1, <2>4, LenProperties
  <2> QED
    BY <2>1, <2>2, <2>3, <2>4, <2>5, <1>c
<1>6. ASSUME NEW f \in Foci, SetFocus(f) PROVE Goal
  <2>1. requests' = requests /\ focus' \in Foci \cup {NoFocus}
    BY <1>6 DEF SetFocus
  <2> QED
    BY <1>a, <2>1 DEF Goal, SteeringIsOK
<1>7. CASE NextPcmRequest
  BY <1>7, <1>d DEF NextPcmRequest
<1>8. CASE RequestCancel
  BY <1>8, <1>b DEF RequestCancel, steeringVars
<1>9. CASE StartProcess
  BY <1>9, <1>b DEF StartProcess, steeringVars
<1>10. CASE PullRefused
  BY <1>10, <1>b DEF PullRefused, steeringVars
<1>11. CASE PullNotNeeded
  BY <1>11, <1>b DEF PullNotNeeded, steeringVars
<1>12. CASE PullFindsNoDemand
  BY <1>12, <1>b DEF PullFindsNoDemand, steeringVars
<1>13. CASE SourceBlocks
  BY <1>13, <1>d DEF SourceBlocks, DemandIsNoted
<1>14. CASE SourceEnds
  BY <1>14, <1>d DEF SourceEnds, DemandIsNoted
<1>15. CASE SourceFails
  BY <1>15, <1>d DEF SourceFails, DemandIsNoted
<1>16. ASSUME NEW count \in 1 .. MaxPush, SourceDelivers(count) PROVE Goal
  BY <1>16, <1>d DEF SourceDelivers, DemandIsNoted
<1>17. CASE EnterCancelled
  BY <1>17, <1>b DEF EnterCancelled, steeringVars
<1>18. CASE EnterTerminal
  BY <1>18, <1>b DEF EnterTerminal, steeringVars
<1>19. CASE EnterWork
  BY <1>19, <1>b DEF EnterWork, steeringVars
<1>20. CASE ReserveFails
  BY <1>20, <1>b DEF ReserveFails, steeringVars
<1>21. ASSUME NEW n \in 1 .. ProcessChunk, AnalyseChunk(n) PROVE Goal
  BY <1>21, <1>b DEF AnalyseChunk, steeringVars
<1>22. ASSUME NEW n \in 1 .. ProcessChunk, NEW c \in Columns, AnalysisFails(n, c)
       PROVE  Goal
  BY <1>22, <1>b DEF AnalysisFails, steeringVars
<1>23. CASE EndWork
  BY <1>23, <1>e, <1>f DEF EndWork
<1>24. CASE EndWorkFails
  BY <1>24, <1>e DEF EndWorkFails
<1>25. CASE Finish
  BY <1>25, <1>b DEF Finish, steeringVars
<1> QED
  BY <1>1, <1>2, <1>3, <1>4, <1>5, <1>6, <1>7, <1>8, <1>9, <1>10, <1>11, <1>12,
     <1>13, <1>14, <1>15, <1>16, <1>17, <1>18, <1>19, <1>20, <1>21, <1>22,
     <1>23, <1>24, <1>25
  DEF Next, HostNext, ProcessNext, PullNext, WorkNext

(* Accumulators belong to columns of the track, and only they are complete. *)
LEMMA OverviewStep ==
    ASSUME Layout, Next
    PROVE  OverviewIsOK'
<1>a. OverviewIsOK
  BY DEF Layout
<1>b. ASSUME accumulators' = accumulators, sample_count' = sample_count,
             complete' = complete \/ complete' = {}
      PROVE  OverviewIsOK'
  BY <1>a, <1>b DEF OverviewIsOK
<1>c. \A present, counts : present \in SUBSET Columns /\ complete \subseteq present =>
          Refreshed(present, counts) \subseteq present
  BY DEF Refreshed
<1>d. ASSUME NEW n \in 1 .. ProcessChunk, pcm_queue # <<>>, n <= FullChunk,
             NEW chunk \in SUBSET ChunkFrames(n)
      PROVE  {Column(f) : f \in chunk} \subseteq Columns /\ Counted(chunk) \in [Columns -> Nat]
  <2>1. chunk \subseteq Frames
    BY <1>d, ChunkIsQueued DEF Layout, InputIsOK
  <2>2. \A c : Cardinality({f \in chunk : Column(f) = c}) \in Nat
    BY <2>1, FramesAreFinite
  <2> QED
    BY <1>a, <2>1, <2>2 DEF Columns, Counted, OverviewIsOK
<1>1. ASSUME NEW first \in Frames, NEW count \in 1 .. TrackFrames - first, PushPcm(first, count)
      PROVE  OverviewIsOK'
  BY <1>1, <1>b DEF PushPcm, overviewVars,
         TransitionSucceeds, TransitionFails, PublicationFails, PendingColumns
<1>2. ASSUME NEW end \in 0 .. TrackFrames, SignalEndOfInput(end) PROVE OverviewIsOK'
  BY <1>2, <1>b DEF SignalEndOfInput, overviewVars, EndIsSignalled, EndIsRolledBack,
         TransitionFails, PublicationFails, PendingColumns
<1>3. ASSUME NEW source_total \in {Unknown, TrackFrames}, SetSource(source_total)
      PROVE  OverviewIsOK'
  BY <1>3, <1>b DEF SetSource, overviewVars
<1>4. ASSUME NEW region \in Regions, RequestRegion(region) PROVE OverviewIsOK'
  BY <1>4, <1>b DEF RequestRegion, overviewVars
<1>5. ASSUME NEW i \in DOMAIN requests, CancelRegionRequest(i) PROVE OverviewIsOK'
  BY <1>5, <1>b DEF CancelRegionRequest, overviewVars
<1>6. ASSUME NEW f \in Foci, SetFocus(f) PROVE OverviewIsOK'
  BY <1>6, <1>b DEF SetFocus, overviewVars
<1>7. CASE NextPcmRequest
  BY <1>7, <1>b DEF NextPcmRequest, overviewVars
<1>8. CASE RequestCancel
  BY <1>8, <1>b DEF RequestCancel, overviewVars
<1>9. CASE StartProcess
  BY <1>9, <1>b DEF StartProcess, overviewVars
<1>10. CASE PullRefused
  BY <1>10, <1>b DEF PullRefused, overviewVars
<1>11. CASE PullNotNeeded
  BY <1>11, <1>b DEF PullNotNeeded, overviewVars
<1>12. CASE PullFindsNoDemand
  BY <1>12, <1>b DEF PullFindsNoDemand, overviewVars, EndIsSignalled, EndIsRolledBack,
         TransitionFails, PublicationFails, PendingColumns
<1>13. CASE SourceBlocks
  BY <1>13, <1>b DEF SourceBlocks, overviewVars
<1>14. CASE SourceEnds
  BY <1>14, <1>b DEF SourceEnds, overviewVars, EndIsSignalled, EndIsRolledBack,
         TransitionFails, PublicationFails, PendingColumns
<1>15. CASE SourceFails
  BY <1>15, <1>b DEF SourceFails, overviewVars,
         TransitionSucceeds, TransitionFails, PublicationFails, PendingColumns
<1>16. ASSUME NEW count \in 1 .. MaxPush, SourceDelivers(count) PROVE OverviewIsOK'
  BY <1>16, <1>b DEF SourceDelivers, overviewVars,
         TransitionSucceeds, TransitionFails, PublicationFails, PendingColumns
<1>17. CASE EnterCancelled
  BY <1>17, <1>b DEF EnterCancelled, overviewVars,
         TransitionSucceeds, TransitionFails, PublicationFails, PendingColumns
<1>18. CASE EnterTerminal
  BY <1>18, <1>b DEF EnterTerminal, overviewVars
<1>19. CASE EnterWork
  <2>1. accumulators' = accumulators /\ sample_count' = sample_count
        /\ complete' = Refreshed(accumulators, sample_count)
    BY <1>19 DEF EnterWork
  <2> QED
    BY <1>a, <1>c, <2>1 DEF OverviewIsOK
<1>20. CASE ReserveFails
  BY <1>20, <1>b DEF ReserveFails, overviewVars
<1>21. ASSUME NEW n \in 1 .. ProcessChunk, AnalyseChunk(n) PROVE OverviewIsOK'
  <2> DEFINE new == {Column(f) : f \in ChunkFrames(n)}
  <2>1. /\ accumulators' = accumulators \cup new
        /\ sample_count' = Counted(ChunkFrames(n))
        /\ complete' = Refreshed(accumulators', sample_count')
        /\ pcm_queue # <<>> /\ n <= FullChunk
    BY <1>21 DEF AnalyseChunk
  <2>2. new \subseteq Columns /\ Counted(ChunkFrames(n)) \in [Columns -> Nat]
    BY <1>d, <2>1
  <2> HIDE DEF new
  <2> QED
    BY <1>a, <1>c, <2>1, <2>2 DEF OverviewIsOK
<1>22. ASSUME NEW n \in 1 .. ProcessChunk, NEW c \in Columns, AnalysisFails(n, c)
       PROVE  OverviewIsOK'
  <2> DEFINE before == {f \in ChunkFrames(n) : Column(f) < c}
             new == {Column(f) : f \in before}
  <2>1. /\ accumulators' = accumulators \cup new
        /\ sample_count' = Counted(before)
        /\ complete' = complete
        /\ pcm_queue # <<>> /\ n <= FullChunk
    BY <1>22 DEF AnalysisFails
  <2>2. new \subseteq Columns /\ Counted(before) \in [Columns -> Nat]
    BY <1>d, <2>1
  <2> HIDE DEF new, before
  <2> QED
    BY <1>a, <2>1, <2>2 DEF OverviewIsOK
<1>23. CASE EndWork
  BY <1>23, <1>b DEF EndWork, overviewVars
<1>24. CASE EndWorkFails
  BY <1>24, <1>b DEF EndWorkFails, overviewVars,
         TransitionSucceeds, TransitionFails, PublicationFails, PendingColumns
<1>25. CASE Finish
  BY <1>25, <1>b DEF Finish, overviewVars,
         TransitionSucceeds, TransitionFails, PublicationFails, PendingColumns
<1> QED
  BY <1>1, <1>2, <1>3, <1>4, <1>5, <1>6, <1>7, <1>8, <1>9, <1>10, <1>11, <1>12,
     <1>13, <1>14, <1>15, <1>16, <1>17, <1>18, <1>19, <1>20, <1>21, <1>22,
     <1>23, <1>24, <1>25
  DEF Next, HostNext, ProcessNext, PullNext, WorkNext

(* The session starts with nothing.                                         *)
LEMMA InitLayout == Init => Layout
<1> SUFFICES ASSUME Init PROVE Layout
  OBVIOUS
<1>1. LengthIsOK
  BY SessionAssumption DEF Init, LengthIsOK
<1>2. InputIsOK
  <2>1. pcm_queue = <<>> /\ accepted = {} /\ <<>> \in Seq(Node) /\ DOMAIN <<>> = {}
    BY EmptySeq DEF Init
  <2> QED
    BY <2>1 DEF InputIsOK, WellQueued, FramesOf
<1>3. SteeringIsOK
  BY EmptySeq DEF Init, SteeringIsOK
<1>4. OverviewIsOK
  BY DEF Init, OverviewIsOK
<1> QED
  BY <1>1, <1>2, <1>3, <1>4 DEF Layout

(* The life and the layout of a session hold throughout.                    *)
LEMMA LayoutAlways == Spec => [](Life /\ Layout)
<1>1. Life /\ Layout /\ Next => Layout'
  BY InputStep, LengthStep, SteeringStep, OverviewStep DEF Layout
<1>2. Layout /\ UNCHANGED vars => Layout'
  BY DEF Layout, LengthIsOK, InputIsOK, SteeringIsOK, OverviewIsOK, FramesOf, WellQueued,
         vars, lengthVars, inputVars, steeringVars, overviewVars
<1>3. Life /\ Layout /\ [Next]_vars => Layout'
  BY <1>1, <1>2
<1> QED
  BY InitLayout, LifeAlways, <1>3, PTL DEF Spec

--------------------------------------------------------------------------------
(* What is complete has been published, or the call that found it complete  *)
(* still remembers how many columns were published when it began. *)

Armed ==
    IF pc \in {"work", "end"}
    THEN \E B \in SUBSET (complete \cap published.columns) : Cardinality(B) = completed_before
    ELSE complete \subseteq published.columns

(* What a workspace session has found complete is published or will be.     *)
LEMMA ArmedStep ==
    ASSUME Workspace, Layout, Armed, Next
    PROVE  Armed'
<1> DEFINE Told == complete \subseteq published.columns
<1>a. IsFiniteSet(complete) /\ complete \subseteq Columns
  BY FramesAreFinite, FS_Subset DEF Layout, OverviewIsOK
<1>b. Told /\ pc' \notin {"work", "end"} /\ (complete' = complete \/ complete' = {})
          /\ published' = published => Armed'
  BY DEF Armed
<1>c. pc' \notin {"work", "end"} /\ published'.columns = complete
          /\ (complete' = complete \/ complete' = {}) => Armed'
  BY DEF Armed
<1>d. pc \notin {"work", "end"} => Told
  BY DEF Armed
<1>e. ASSUME UNCHANGED <<pc, complete, published, completed_before>> PROVE Armed'
  BY <1>e DEF Armed
<1> HIDE DEF Told
<1> USE <1>a, <1>b, <1>c, <1>d, <1>e
<1>1. ASSUME NEW first \in Frames, NEW count \in 1 .. TrackFrames - first, PushPcm(first, count)
      PROVE  Armed'
  BY <1>1 DEF PushPcm, callVars, lifeVars, overviewVars, Goto, Leave, MayPull, DemandIsNoted, Result,
         TransitionSucceeds, TransitionFails, PublicationFails, PendingColumns
<1>2. ASSUME NEW end \in 0 .. TrackFrames, SignalEndOfInput(end) PROVE Armed'
  BY <1>2 DEF SignalEndOfInput, callVars, lifeVars, overviewVars, Goto, Leave, MayPull, DemandIsNoted, Result,
         EndIsSignalled, EndIsRolledBack, TransitionFails, PublicationFails, PendingColumns
<1>3. ASSUME NEW source_total \in {Unknown, TrackFrames}, SetSource(source_total)
      PROVE  Armed'
  BY <1>3 DEF SetSource, callVars, lifeVars, overviewVars, Goto, Leave
<1>4. ASSUME NEW region \in Regions, RequestRegion(region) PROVE Armed'
  BY <1>4 DEF RequestRegion, callVars, lifeVars, overviewVars, Goto, Leave
<1>5. ASSUME NEW i \in DOMAIN requests, CancelRegionRequest(i) PROVE Armed'
  BY <1>5 DEF CancelRegionRequest, callVars, lifeVars, overviewVars, Goto, Leave
<1>6. ASSUME NEW f \in Foci, SetFocus(f) PROVE Armed'
  BY <1>6 DEF SetFocus, callVars, lifeVars, overviewVars, Goto, Leave
<1>7. CASE NextPcmRequest
  BY <1>7 DEF NextPcmRequest, callVars, lifeVars, overviewVars, Goto, Leave
<1>8. CASE RequestCancel
  BY <1>8 DEF RequestCancel, callVars, lifeVars, overviewVars, Goto, Leave
<1>9. CASE StartProcess
  BY <1>9 DEF StartProcess, callVars, lifeVars, overviewVars, Goto, Leave
<1>10. CASE PullRefused
  BY <1>10 DEF PullRefused, callVars, lifeVars, overviewVars, Goto, Leave
<1>11. CASE PullNotNeeded
  BY <1>11 DEF PullNotNeeded, callVars, lifeVars, overviewVars, Goto, Leave
<1>12. CASE PullFindsNoDemand
  BY <1>12 DEF PullFindsNoDemand, callVars, lifeVars, overviewVars, Goto, Leave, MayPull, DemandIsNoted, Result,
         EndIsSignalled, EndIsRolledBack, TransitionFails, PublicationFails, PendingColumns
<1>13. CASE SourceBlocks
  BY <1>13 DEF SourceBlocks, lifeVars, overviewVars, Goto, MayPull, DemandIsNoted
<1>14. CASE SourceEnds
  BY <1>14 DEF SourceEnds, callVars, lifeVars, overviewVars, Goto, Leave, MayPull, DemandIsNoted, Result,
         EndIsSignalled, EndIsRolledBack, TransitionFails, PublicationFails, PendingColumns
<1>15. CASE SourceFails
  BY <1>15 DEF SourceFails, callVars, lifeVars, overviewVars, Goto, Leave, MayPull, DemandIsNoted, Result,
         TransitionSucceeds, TransitionFails, PublicationFails, PendingColumns
<1>16. ASSUME NEW count \in 1 .. MaxPush, SourceDelivers(count) PROVE Armed'
  BY <1>16 DEF SourceDelivers, callVars, lifeVars, overviewVars, Goto, Leave, MayPull, DemandIsNoted, Result,
         TransitionSucceeds, TransitionFails, PublicationFails, PendingColumns
<1>17. CASE EnterCancelled
  BY <1>17 DEF EnterCancelled, callVars, lifeVars, overviewVars, Goto, Leave, MayPull, DemandIsNoted, Result,
         TransitionSucceeds, TransitionFails, PublicationFails, PendingColumns
<1>18. CASE EnterTerminal
  BY <1>18 DEF EnterTerminal, callVars, lifeVars, overviewVars, Goto, Leave
<1>19. CASE EnterWork
  <2>1. /\ complete \subseteq published.columns /\ complete \subseteq complete'
        /\ published' = published /\ completed_before' = Cardinality(complete)
        /\ pc' = "work"
    BY <1>19 DEF EnterWork, Refreshed, Told, lifeVars
  <2> QED
    BY <2>1 DEF Armed
<1>20. CASE ReserveFails
  BY <1>20 DEF ReserveFails, callVars, lifeVars, overviewVars, Goto, Leave
<1>21. ASSUME NEW n \in 1 .. ProcessChunk, AnalyseChunk(n) PROVE Armed'
  <2>1. /\ complete \subseteq complete' /\ published' = published
        /\ completed_before' = completed_before /\ pc \in {"work", "end"} /\ pc' \in {"work", "end"}
    BY <1>21 DEF AnalyseChunk, Refreshed, lifeVars
  <2>2. PICK B \in SUBSET (complete \cap published.columns) : Cardinality(B) = completed_before
    BY <2>1 DEF Armed
  <2>3. B \in SUBSET (complete' \cap published'.columns) /\ Cardinality(B) = completed_before'
    BY <2>1, <2>2
  <2> QED
    BY <2>1, <2>3 DEF Armed
<1>22. ASSUME NEW n \in 1 .. ProcessChunk, NEW c \in Columns, AnalysisFails(n, c)
       PROVE  Armed'
  BY <1>22 DEF AnalysisFails
<1>23. CASE EndWork
  <2>1. /\ pc \in {"work", "end"} /\ pc' = "finish" /\ complete' = complete
        /\ published' = IF ColumnsChanged THEN Result(state, total_frames) ELSE published
    BY <1>23 DEF EndWork, WorkIsOver, Goto, overviewVars
  <2>2. PICK B \in SUBSET (complete \cap published.columns) : Cardinality(B) = completed_before
    BY <2>1 DEF Armed
  <2>3. CASE ColumnsChanged
    BY <2>1, <2>3 DEF Result
  <2>4. CASE ~ColumnsChanged
    <3>1. B \in SUBSET complete /\ Cardinality(complete) = Cardinality(B)
      BY <2>2, <2>4 DEF ColumnsChanged
    <3>2. complete = B
      BY <3>1, FS_Subset
    <3> QED
      BY <2>1, <2>2, <2>4, <3>2 DEF Told
  <2> QED
    BY <2>3, <2>4
<1>24. CASE EndWorkFails
  <2>1. pc' = "idle" /\ complete' = {}
    BY <1>24 DEF EndWorkFails, Leave, PublicationFails, PendingColumns
  <2> QED
    BY <2>1 DEF Armed
<1>25. CASE Finish
  BY <1>25 DEF Finish, callVars, lifeVars, overviewVars, Goto, Leave, MayPull, DemandIsNoted, Result,
         TransitionSucceeds, TransitionFails, PublicationFails, PendingColumns
<1> QED
  BY <1>1, <1>2, <1>3, <1>4, <1>5, <1>6, <1>7, <1>8, <1>9, <1>10, <1>11, <1>12,
     <1>13, <1>14, <1>15, <1>16, <1>17, <1>18, <1>19, <1>20, <1>21, <1>22,
     <1>23, <1>24, <1>25
  DEF Next, HostNext, ProcessNext, PullNext, WorkNext

(* In a workspace session a column that the current result lacks is never   *)
(* marked complete between two calls: a failed publication is retried.      *)
THEOREM RetryIsAlwaysArmed == ASSUME Workspace PROVE Spec => []RetryIsArmed
<1>1. Init => Armed
  BY DEF Init, Armed
<1>2. Layout /\ Armed /\ [Next]_vars => Armed'
  <2>1. Armed /\ UNCHANGED vars => Armed'
    BY DEF Armed, vars, callVars, lifeVars, overviewVars
  <2> QED
    BY <2>1, ArmedStep
<1>3. Armed => RetryIsArmed
  BY DEF Armed, RetryIsArmed
<1> QED
  BY <1>1, <1>2, <1>3, LayoutAlways, PTL DEF Spec

--------------------------------------------------------------------------------
(* Counting.  Every accumulator a chunk needs exists before its first frame  *)
(* is counted: a workspace session reserves them on entry, and a chunk of    *)
(* one frame needs one.  An ordinary session with longer chunks may stop in  *)
(* the middle of one (AnalysisFails), and then the counts are wrong.         *)
CountsAreAtomic == Workspace \/ ProcessChunk = 1

(* All the input of column c, which has some, has been analysed.            *)
Covered(c) == c \in Columns /\ InputFrames(c) # {} /\ InputFrames(c) \subseteq Analysed

CountsAreExact ==
    \A c \in Columns :
        /\ sample_count[c] = Cardinality(Analysed \cap ColumnFrames(c))
        /\ sample_count[c] # 0 => c \in accumulators
MarkedIsCovered == \A c \in complete \cup published.columns : Covered(c)
CoveredIsMarked ==
    pc \in {"work", "end", "finish"} /\ final_end_frame # Unknown =>
        \A c \in Columns : Covered(c) => c \in complete

Counting == CountsAreExact /\ MarkedIsCovered /\ SatisfiedIsAnalysed /\ CoveredIsMarked

(* A column has at most FramesPerColumn frames.                             *)
LEMMA ColumnIsBounded ==
    ASSUME NEW c \in Columns
    PROVE  /\ ColumnFrames(c) \subseteq Frames /\ IsFiniteSet(ColumnFrames(c))
           /\ Cardinality(ColumnFrames(c)) <= FramesPerColumn
<1>1. c \in Nat /\ FramesPerColumn \in Nat \ {0} /\ Frames \subseteq Nat
  BY SessionAssumption, FramesAreFinite DEF Columns, Column
<1> DEFINE low == FramesPerColumn * c
           range == low .. low + FramesPerColumn - 1
<1>2. low \in Nat
  BY <1>1
<1>3. ASSUME NEW f \in ColumnFrames(c) PROVE f \in range
  <2>1. f \in Nat /\ f \div FramesPerColumn = c
    BY <1>1 DEF ColumnFrames, Column
  <2> QED
    BY <1>1, <2>1
<1> HIDE DEF low
<1>4. IsFiniteSet(range) /\ Cardinality(range) = FramesPerColumn
  BY <1>1, <1>2, FS_Interval
<1>5. ColumnFrames(c) \in SUBSET range
  BY <1>3
<1> HIDE DEF range
<1> QED
  BY <1>4, <1>5, FS_Subset DEF ColumnFrames

(* MaximumAcceptedEnd, of any set of frames.                                *)
EndOf(A) == IF A = {} THEN 0 ELSE 1 + CHOOSE f \in A : \A g \in A : g <= f

(* A set of frames lies below its end.                                      *)
LEMMA FramesAreBelowEnd ==
    ASSUME NEW A \in SUBSET Frames, NEW f \in A
    PROVE  f \in Nat /\ EndOf(A) \in Nat /\ f < EndOf(A)
<1>1. A \subseteq Int /\ A \subseteq Nat /\ IsFiniteSet(A) /\ A # {}
  BY FramesAreFinite
<1>2. \E a \in A : \A b \in A : b <= a
  BY <1>1, LargestExists
<1> DEFINE last == CHOOSE a \in A : \A b \in A : b <= a
<1>3. last \in A /\ \A b \in A : b <= last
  BY <1>2
<1>4. EndOf(A) = 1 + last
  BY <1>1 DEF EndOf
<1> HIDE DEF last
<1> QED
  BY <1>1, <1>3, <1>4

(* A column whose input is analysed stays so: input is never taken back,    *)
(* and the end of input, once it is known, lies behind it.                  *)
LEMMA CoveredStays ==
    ASSUME Layout, Life, Next, NEW c, Covered(c)
    PROVE  Covered(c)'
<1>1. Analysed \subseteq Analysed'
  BY InputStep
<1>2. c \in Columns /\ InputFrames(c) # {} /\ InputFrames(c) \subseteq Analysed
  BY DEF Covered
<1>3. InputFrames(c)' = InputFrames(c)
  <2>1. CASE final_end_frame' = final_end_frame
    BY <2>1 DEF InputFrames
  <2>2. CASE /\ final_end_frame = Unknown /\ final_end_frame' \in Nat
             /\ MaximumAcceptedEnd <= final_end_frame'
    <3>1. InputFrames(c) = ColumnFrames(c)
      BY <2>2 DEF InputFrames
    <3>2. ASSUME NEW f \in ColumnFrames(c) PROVE f < final_end_frame'
      <4>1. f \in accepted
        BY <1>2, <3>1 DEF Analysed
      <4>2. f \in Nat /\ EndOf(accepted) \in Nat /\ f < EndOf(accepted)
        BY <4>1, FramesAreBelowEnd DEF Layout, InputIsOK
      <4>3. MaximumAcceptedEnd = EndOf(accepted)
        BY DEF MaximumAcceptedEnd, EndOf
      <4> QED
        BY <2>2, <4>2, <4>3
    <3> QED
      BY <3>1, <3>2 DEF InputFrames
  <2> QED
    BY <2>1, <2>2, LengthStep
<1> QED
  BY <1>1, <1>2, <1>3 DEF Covered

(* A column whose count is the expected one has all its input in A; with    *)
(* the end of input known, only then.                                       *)
LEMMA FullIsCovered ==
    ASSUME NEW c \in Columns, NEW A \in SUBSET Frames, final_end_frame \in Int,
           \A f \in A : final_end_frame = Unknown \/ f < final_end_frame
    PROVE  /\ ExpectedFrames(c) # 0 /\ Cardinality(A \cap ColumnFrames(c)) = ExpectedFrames(c) =>
                  InputFrames(c) # {} /\ InputFrames(c) \subseteq A
           /\ final_end_frame # Unknown /\ InputFrames(c) # {} /\ InputFrames(c) \subseteq A =>
                  ExpectedFrames(c) # 0 /\ Cardinality(A \cap ColumnFrames(c)) = ExpectedFrames(c)
<1> DEFINE I == InputFrames(c)
           AC == A \cap ColumnFrames(c)
<1>1. I \subseteq ColumnFrames(c) /\ AC \subseteq I
  BY DEF InputFrames
<1>2. ColumnFrames(c) \subseteq Frames /\ IsFiniteSet(ColumnFrames(c))
      /\ Cardinality(ColumnFrames(c)) <= FramesPerColumn
  BY ColumnIsBounded
<1>3. IsFiniteSet(I) /\ IsFiniteSet(AC)
      /\ Cardinality(I) \in Nat /\ Cardinality(AC) \in Nat /\ Cardinality(I) <= FramesPerColumn
  <2>1. IsFiniteSet(I) /\ Cardinality(I) <= Cardinality(ColumnFrames(c))
    BY <1>1, <1>2, FS_Subset
  <2>2. IsFiniteSet(AC)
    BY <1>1, <2>1, FS_Subset
  <2>3. Cardinality(I) \in Nat /\ Cardinality(AC) \in Nat
        /\ Cardinality(ColumnFrames(c)) \in Nat
    BY <1>2, <2>1, <2>2, FS_CardinalityType
  <2> HIDE DEF I, AC
  <2> QED
    BY <1>2, <2>1, <2>2, <2>3, SessionAssumption
<1>4. Cardinality(AC) <= Cardinality(I) /\ (Cardinality(I) = Cardinality(AC) => I = AC)
  BY <1>1, <1>3, FS_Subset
<1>5. Cardinality(I) = 0 <=> I = {}
  BY <1>3, FS_EmptySet
<1>6. CASE final_end_frame = Unknown
  <2>1. ExpectedFrames(c) = FramesPerColumn
    BY <1>6 DEF ExpectedFrames
  <2>2. Cardinality(AC) = ExpectedFrames(c) => Cardinality(I) = Cardinality(AC)
    <3> HIDE DEF I, AC
    <3> QED
      BY <1>3, <1>4, <2>1, SessionAssumption
  <2>3. ExpectedFrames(c) # 0 /\ Cardinality(AC) = ExpectedFrames(c) => I # {} /\ I \subseteq A
    <3>1. AC \subseteq A
      OBVIOUS
    <3> HIDE DEF I, AC
    <3> QED
      BY <1>4, <1>5, <2>2, <3>1
  <2> QED
    BY <1>6, <2>3
<1>7. CASE final_end_frame # Unknown
  <2>1. I = {f \in ColumnFrames(c) : f < final_end_frame}
    BY <1>7 DEF InputFrames
  <2>2. ExpectedFrames(c) = Cardinality(I)
    BY <1>7, <2>1 DEF ExpectedFrames
  <2>3. AC \subseteq A /\ (I \subseteq A => AC = I)
    BY <1>1
  <2> HIDE DEF I, AC
  <2>4. ExpectedFrames(c) # 0 /\ Cardinality(AC) = ExpectedFrames(c) => I # {} /\ I \subseteq A
    BY <1>4, <1>5, <2>2, <2>3
  <2>5. I # {} /\ I \subseteq A => ExpectedFrames(c) # 0 /\ Cardinality(AC) = ExpectedFrames(c)
    BY <1>5, <2>2, <2>3
  <2> QED
    BY <2>4, <2>5 DEF I, AC
<1> QED
  BY <1>6, <1>7

(* What a chunk adds to what has been analysed.                             *)
LEMMA ChunkIsAnalysed ==
    ASSUME Layout, NEW n \in 1 .. ProcessChunk, AnalyseChunk(n)
    PROVE  /\ ChunkFrames(n) \subseteq Frames \ Analysed
           /\ Analysed' = Analysed \cup ChunkFrames(n)
<1>1. pcm_queue # <<>> /\ n <= FullChunk /\ pcm_queue' = QueueAfter(Current, n)
      /\ accepted' = accepted
  BY DEF AnalyseChunk
<1>2. /\ ChunkFrames(n) \subseteq FramesOf(pcm_queue)
      /\ FramesOf(pcm_queue') = FramesOf(pcm_queue) \ ChunkFrames(n)
  BY <1>1, ChunkIsQueued
<1>3. QueuedFrames = FramesOf(pcm_queue) /\ QueuedFrames' = FramesOf(pcm_queue')
  BY DEF QueuedFrames, FramesOf, Held
<1> QED
  BY <1>1, <1>2, <1>3 DEF Layout, InputIsOK, Analysed

(* How a step moves the completion marks and the published columns: marks   *)
(* are set by a refresh only, and only marked columns are published.        *)
LEMMA MarksMove ==
    ASSUME CountsAreAtomic, Layout, Next
    PROVE  /\ published'.columns \subseteq published.columns \cup complete
           /\ \/ UNCHANGED <<accumulators, sample_count>>
              \/ \E n \in 1 .. ProcessChunk : AnalyseChunk(n)
           /\ \/ /\ complete' = Refreshed(accumulators', sample_count')
                 /\ final_end_frame' = final_end_frame
              \/ /\ complete' \subseteq complete
                 /\ pc' \in {"work", "end", "finish"} =>
                        /\ pc \in {"work", "end", "finish"}
                        /\ UNCHANGED <<complete, final_end_frame, accepted, pcm_queue>>
<1> DEFINE Busy == {"work", "end", "finish"}
           Still == pc \in Busy /\ UNCHANGED <<complete, final_end_frame, accepted, pcm_queue>>
           Goal == /\ published'.columns \subseteq published.columns \cup complete
                   /\ \/ UNCHANGED <<accumulators, sample_count>>
                      \/ \E n \in 1 .. ProcessChunk : AnalyseChunk(n)
                   /\ \/ /\ complete' = Refreshed(accumulators', sample_count')
                         /\ final_end_frame' = final_end_frame
                      \/ complete' \subseteq complete /\ (pc' \in Busy => Still)
<1> SUFFICES Goal
  OBVIOUS
<1>a. ASSUME UNCHANGED <<accumulators, sample_count>>, complete' = complete \/ complete' = {},
             published' = published \/ published'.columns = complete,
             pc' \notin Busy \/ Still
      PROVE  Goal
  BY <1>a
<1> HIDE DEF Goal, Still
<1> USE <1>a DEF callVars, lifeVars, overviewVars, Goto, Leave
<1>1. ASSUME NEW first \in Frames, NEW count \in 1 .. TrackFrames - first, PushPcm(first, count)
      PROVE  Goal
  BY <1>1 DEF PushPcm, MayPull, DemandIsNoted, Result,
         TransitionSucceeds, TransitionFails, PublicationFails, PendingColumns
<1>2. ASSUME NEW end \in 0 .. TrackFrames, SignalEndOfInput(end) PROVE Goal
  BY <1>2 DEF SignalEndOfInput, MayPull, DemandIsNoted, Result, EndIsSignalled,
         EndIsRolledBack, TransitionFails, PublicationFails, PendingColumns
<1>3. ASSUME NEW source_total \in {Unknown, TrackFrames}, SetSource(source_total)
      PROVE  Goal
  BY <1>3 DEF SetSource
<1>4. ASSUME NEW region \in Regions, RequestRegion(region) PROVE Goal
  BY <1>4 DEF RequestRegion
<1>5. ASSUME NEW i \in DOMAIN requests, CancelRegionRequest(i) PROVE Goal
  BY <1>5 DEF CancelRegionRequest
<1>6. ASSUME NEW f \in Foci, SetFocus(f) PROVE Goal
  BY <1>6 DEF SetFocus
<1>7. CASE NextPcmRequest
  BY <1>7 DEF NextPcmRequest
<1>8. CASE RequestCancel
  BY <1>8 DEF RequestCancel, Still, lengthVars, inputVars
<1>9. CASE StartProcess
  BY <1>9 DEF StartProcess
<1>10. CASE PullRefused
  BY <1>10 DEF PullRefused
<1>11. CASE PullNotNeeded
  BY <1>11 DEF PullNotNeeded
<1>12. CASE PullFindsNoDemand
  BY <1>12 DEF PullFindsNoDemand, MayPull, DemandIsNoted, Result, EndIsSignalled,
         EndIsRolledBack, TransitionFails, PublicationFails, PendingColumns
<1>13. CASE SourceBlocks
  BY <1>13 DEF SourceBlocks, MayPull, DemandIsNoted
<1>14. CASE SourceEnds
  BY <1>14 DEF SourceEnds, MayPull, DemandIsNoted, Result, EndIsSignalled,
         EndIsRolledBack, TransitionFails, PublicationFails, PendingColumns
<1>15. CASE SourceFails
  BY <1>15 DEF SourceFails, MayPull, DemandIsNoted, Result,
         TransitionSucceeds, TransitionFails, PublicationFails, PendingColumns
<1>16. ASSUME NEW count \in 1 .. MaxPush, SourceDelivers(count) PROVE Goal
  BY <1>16 DEF SourceDelivers, MayPull, DemandIsNoted, Result,
         TransitionSucceeds, TransitionFails, PublicationFails, PendingColumns
<1>17. CASE EnterCancelled
  BY <1>17 DEF EnterCancelled, MayPull, DemandIsNoted, Result,
         TransitionSucceeds, TransitionFails, PublicationFails, PendingColumns
<1>18. CASE EnterTerminal
  BY <1>18 DEF EnterTerminal
<1>19. CASE EnterWork
  <2>1. /\ UNCHANGED <<accumulators, sample_count, final_end_frame, published>>
        /\ complete' = Refreshed(accumulators', sample_count')
    BY <1>19 DEF EnterWork, lengthVars
  <2> QED
    BY <2>1 DEF Goal
<1>20. CASE ReserveFails
  BY <1>20 DEF ReserveFails
<1>21. ASSUME NEW n \in 1 .. ProcessChunk, AnalyseChunk(n) PROVE Goal
  <2>1. /\ UNCHANGED <<final_end_frame, published>>
        /\ complete' = Refreshed(accumulators', sample_count')
    BY <1>21 DEF AnalyseChunk, lengthVars
  <2> QED
    BY <1>21, <2>1 DEF Goal
<1>22. ASSUME NEW n \in 1 .. ProcessChunk, NEW c \in Columns, AnalysisFails(n, c)
       PROVE  Goal
  <2> DEFINE before == {f \in ChunkFrames(n) : Column(f) < c}
  <2>1. /\ accumulators' = accumulators \cup {Column(f) : f \in before}
        /\ sample_count' = Counted(before)
        /\ complete' = complete /\ published' = published /\ pc' = "idle"
        /\ ~Workspace /\ pcm_queue # <<>> /\ n <= FullChunk
        /\ c \in {Column(f) : f \in ChunkFrames(n)}
    BY <1>22 DEF AnalysisFails
  <2>2. n = 1 /\ ChunkFrames(n) \subseteq Frames
    <3>1. n = 1
      BY <2>1 DEF CountsAreAtomic
    <3>2. ChunkFrames(n) \subseteq FramesOf(pcm_queue)
      BY <2>1, ChunkIsQueued
    <3> QED
      BY <3>1, <3>2 DEF Layout, InputIsOK
  <2>3. \A f, g \in ChunkFrames(n) : f = g
    <3>1. NodeFirst(pcm_queue[Current]) \in Nat
      BY <2>1, ChunkIsQueued
    <3> QED
      BY <2>2, <3>1 DEF ChunkFrames
  <2>4. before = {}
    <3>1. \A f \in Frames : Column(f) \in Nat
      BY FramesAreFinite, SessionAssumption DEF Column
    <3> QED
      BY <2>1, <2>2, <2>3, <3>1
  <2> HIDE DEF before
  <2>5. sample_count' = sample_count /\ accumulators' = accumulators
    <3>1. \A d : Cardinality({f \in before : Column(f) = d}) = 0
      BY <2>4, FS_EmptySet
    <3> QED
      BY <2>1, <2>4, <3>1 DEF Counted, Layout, OverviewIsOK
  <2> QED
    BY <2>1, <2>5
<1>23. CASE EndWork
  <2>1. /\ UNCHANGED <<accumulators, sample_count, complete, final_end_frame, accepted, pcm_queue>>
        /\ published' = published \/ published'.columns = complete
        /\ pc \in Busy
    BY <1>23 DEF EndWork, WorkIsOver, Result, lengthVars, inputVars
  <2>2. Still
    BY <2>1 DEF Still
  <2> QED
    BY <2>1, <2>2
<1>24. CASE EndWorkFails
  BY <1>24 DEF EndWorkFails, MayPull, DemandIsNoted, Result,
         TransitionSucceeds, TransitionFails, PublicationFails, PendingColumns
<1>25. CASE Finish
  BY <1>25 DEF Finish, MayPull, DemandIsNoted, Result,
         TransitionSucceeds, TransitionFails, PublicationFails, PendingColumns
<1> QED
  BY <1>1, <1>2, <1>3, <1>4, <1>5, <1>6, <1>7, <1>8, <1>9, <1>10, <1>11, <1>12,
     <1>13, <1>14, <1>15, <1>16, <1>17, <1>18, <1>19, <1>20, <1>21, <1>22,
     <1>23, <1>24, <1>25
  DEF Next, HostNext, ProcessNext, PullNext, WorkNext

(* The counts, the marks, the published columns and the satisfied requests  *)
(* all stand for input that has been analysed.                              *)
LEMMA CountingStep ==
    ASSUME CountsAreAtomic, Layout, Life, Counting, Next, Layout', Life'
    PROVE  Counting'
<1>1. /\ CountsAreExact /\ MarkedIsCovered /\ SatisfiedIsAnalysed /\ CoveredIsMarked
      /\ sample_count \in [Columns -> Nat] /\ sample_count' \in [Columns -> Nat]
      /\ accumulators' \subseteq Columns
  BY DEF Counting, Layout, OverviewIsOK
<1>2. Analysed \in SUBSET Frames /\ Analysed' \in SUBSET Frames
  BY DEF Layout, InputIsOK, Analysed
<1>3. \A c : Covered(c) => Covered(c)'
  BY CoveredStays
<1>4. CountsAreExact'
  <2>1. CASE /\ ~ \E n \in 1 .. ProcessChunk : AnalyseChunk(n)
    <3>1. Analysed' = Analysed /\ UNCHANGED <<accumulators, sample_count>>
      BY <2>1, InputStep, MarksMove
    <3> QED
      BY <1>1, <3>1 DEF CountsAreExact
  <2>2. ASSUME NEW n \in 1 .. ProcessChunk, AnalyseChunk(n),
               NEW c \in Columns
        PROVE  /\ sample_count'[c] = Cardinality(Analysed' \cap ColumnFrames(c))
               /\ sample_count'[c] # 0 => c \in accumulators'
    <3> DEFINE chunk == ChunkFrames(n)
               new == {f \in chunk : Column(f) = c}
               old == Analysed \cap ColumnFrames(c)
    <3>1. chunk \subseteq Frames \ Analysed /\ Analysed' = Analysed \cup chunk
      BY <2>2, ChunkIsAnalysed
    <3>2. /\ sample_count'[c] = sample_count[c] + Cardinality(new)
          /\ accumulators' = accumulators \cup {Column(f) : f \in chunk}
      BY <2>2 DEF AnalyseChunk, Counted
    <3>3. Analysed' \cap ColumnFrames(c) = old \cup new /\ old \cap new = {}
      BY <3>1 DEF ColumnFrames
    <3>4. IsFiniteSet(old) /\ IsFiniteSet(new)
          /\ Cardinality(old) \in Nat /\ Cardinality(new) \in Nat
      BY <1>2, <3>1, FramesAreFinite
    <3>5. new # {} => c \in accumulators'
      BY <3>2
    <3>6. sample_count[c] = Cardinality(old) /\ (sample_count[c] # 0 => c \in accumulators)
      BY <1>1 DEF CountsAreExact
    <3> HIDE DEF old, new
    <3>7. Cardinality(old \cup new) = Cardinality(old) + Cardinality(new)
      <4>1. Cardinality(old \cap new) = 0
        BY <3>3, FS_EmptySet
      <4>2. Cardinality(old \cup new) =
                Cardinality(old) + Cardinality(new) - Cardinality(old \cap new)
        BY <3>4, FS_Union
      <4> QED
        BY <3>4, <4>1, <4>2
    <3>8. Cardinality(new) # 0 => new # {}
      BY FS_EmptySet
    <3> QED
      BY <3>2, <3>3, <3>4, <3>5, <3>6, <3>7, <3>8
  <2> QED
    BY <2>1, <2>2 DEF CountsAreExact
<1>5. ASSUME complete' = Refreshed(accumulators', sample_count'),
             final_end_frame' = final_end_frame
      PROVE  /\ \A c \in complete' : Covered(c)'
             /\ final_end_frame # Unknown => \A c \in Columns : Covered(c)' => c \in complete'
  <2>1. \A f \in Analysed' : final_end_frame = Unknown \/ f < final_end_frame
    <3>1. MaximumAcceptedEnd' = EndOf(accepted')
      BY DEF MaximumAcceptedEnd, EndOf
    <3>2. final_end_frame # Unknown =>
              EndOf(accepted') <= final_end_frame /\ final_end_frame \in Int
      BY <1>5, <3>1, SessionAssumption DEF Layout, LengthIsOK, Life, EndIsAgreed, Unknown
    <3>3. \A f \in accepted' : f \in Nat /\ EndOf(accepted') \in Nat /\ f < EndOf(accepted')
      BY FramesAreBelowEnd DEF Layout, InputIsOK
    <3>4. \A f \in accepted' : final_end_frame = Unknown \/ f < final_end_frame
      BY <3>2, <3>3
    <3> QED
      BY <3>4 DEF Analysed
  <2>2. final_end_frame \in Int
    BY SessionAssumption DEF Life, EndIsAgreed, Layout, LengthIsOK, Unknown
  <2>3. \A c : InputFrames(c)' = InputFrames(c)
    BY <1>5 DEF InputFrames
  <2>4. ASSUME NEW c \in Columns
        PROVE  sample_count'[c] = Cardinality(Analysed' \cap ColumnFrames(c))
               /\ (sample_count'[c] # 0 => c \in accumulators')
    BY <1>4 DEF CountsAreExact
  <2>5. ASSUME NEW c \in complete' PROVE Covered(c)'
    <3>1. CASE c \in complete
      BY <1>1, <1>3, <3>1 DEF MarkedIsCovered
    <3>2. CASE c \notin complete
      <4>1. c \in accumulators' /\ ExpectedFrames(c) # 0 /\ sample_count'[c] = ExpectedFrames(c)
        BY <1>5, <3>2 DEF Refreshed
      <4>2. c \in Columns
        BY <1>1, <4>1
      <4>3. InputFrames(c) # {} /\ InputFrames(c) \subseteq Analysed'
        BY <1>2, <2>1, <2>2, <2>4, <4>1, <4>2, FullIsCovered
      <4> QED
        BY <2>3, <4>2, <4>3 DEF Covered
    <3> QED
      BY <3>1, <3>2
  <2>6. ASSUME final_end_frame # Unknown, NEW c \in Columns, Covered(c)'
        PROVE  c \in complete'
    <3>1. InputFrames(c) # {} /\ InputFrames(c) \subseteq Analysed'
      BY <2>3, <2>6 DEF Covered
    <3>2. ExpectedFrames(c) # 0 /\ Cardinality(Analysed' \cap ColumnFrames(c)) = ExpectedFrames(c)
      BY <1>2, <2>1, <2>2, <2>6, <3>1, FullIsCovered
    <3>3. c \in accumulators' /\ sample_count'[c] = ExpectedFrames(c)
      BY <2>4, <3>2
    <3> QED
      BY <1>5, <3>2, <3>3 DEF Refreshed
  <2> QED
    BY <2>5, <2>6
<1>6. MarkedIsCovered'
  <2>1. \A c \in complete \cup published.columns : Covered(c)'
    BY <1>1, <1>3 DEF MarkedIsCovered
  <2>2. \A c \in complete' : Covered(c)'
    BY <1>5, <2>1, MarksMove
  <2>3. \A c \in published'.columns : Covered(c)'
    BY <2>1, MarksMove
  <2> QED
    BY <2>2, <2>3 DEF MarkedIsCovered
<1>7. SatisfiedIsAnalysed'
  <2>1. \A i \in DOMAIN requests : requests[i].state = "SATISFIED" =>
            \A c \in RequestColumns(requests[i]) : Covered(c)
    BY <1>1 DEF SatisfiedIsAnalysed, Covered
  <2>2. \A c \in complete : Covered(c)
    BY <1>1 DEF MarkedIsCovered
  <2>3. ASSUME NEW i \in DOMAIN requests', requests'[i].state = "SATISFIED",
               NEW c \in RequestColumns(requests'[i])
        PROVE  Covered(c)'
    <3>1. CASE RequestColumns(requests'[i]) \subseteq complete
      BY <1>3, <2>2, <2>3, <3>1
    <3>2. CASE /\ i \in DOMAIN requests /\ requests[i].state = "SATISFIED"
               /\ RequestColumns(requests'[i]) = RequestColumns(requests[i])
      BY <1>3, <2>1, <2>3, <3>2
    <3> QED
      BY <2>3, <3>1, <3>2, SteeringStep
  <2> QED
    BY <2>3 DEF SatisfiedIsAnalysed, Covered
<1>8. CoveredIsMarked'
  <2> SUFFICES ASSUME pc' \in {"work", "end", "finish"}, final_end_frame' # Unknown
               PROVE  \A c \in Columns : Covered(c)' => c \in complete'
    BY DEF CoveredIsMarked
  <2>1. CASE /\ complete' = Refreshed(accumulators', sample_count')
             /\ final_end_frame' = final_end_frame
    BY <1>5, <2>1
  <2>2. CASE /\ pc \in {"work", "end", "finish"}
             /\ UNCHANGED <<complete, final_end_frame, accepted, pcm_queue>>
    <3>1. \A c : Covered(c)' <=> Covered(c)
      BY <2>2 DEF Covered, InputFrames, Analysed, QueuedFrames
    <3> QED
      BY <1>1, <2>2, <3>1 DEF CoveredIsMarked
  <2> QED
    BY <2>1, <2>2, MarksMove
<1> QED
  BY <1>4, <1>6, <1>7, <1>8 DEF Counting

(* The session starts with nothing counted.                                 *)
LEMMA InitCounting == Init => Counting
<1> SUFFICES ASSUME Init PROVE Counting
  OBVIOUS
<1>1. CountsAreExact
  <2>1. \A c : Analysed \cap ColumnFrames(c) = {}
    BY DEF Init, Analysed
  <2> QED
    BY <2>1, FS_EmptySet DEF Init, CountsAreExact
<1>2. MarkedIsCovered /\ CoveredIsMarked
  BY DEF Init, MarkedIsCovered, CoveredIsMarked
<1>3. SatisfiedIsAnalysed
  BY DEF Init, SatisfiedIsAnalysed
<1> QED
  BY <1>1, <1>2, <1>3 DEF Counting

(* The counting invariant holds throughout.                                 *)
LEMMA CountingAlways == ASSUME CountsAreAtomic PROVE Spec => [](Life /\ Layout /\ Counting)
<1>1. Counting /\ UNCHANGED vars => Counting'
  <2> SUFFICES ASSUME Counting, UNCHANGED vars PROVE Counting'
    OBVIOUS
  <2>1. UNCHANGED <<final_end_frame, accepted, pcm_queue, accumulators, sample_count, complete,
                    published, requests, pc>>
    BY DEF vars, lifeVars, lengthVars, inputVars, overviewVars, steeringVars, callVars
  <2>2. Analysed' = Analysed /\ \A c : InputFrames(c)' = InputFrames(c)
    BY <2>1 DEF Analysed, QueuedFrames, InputFrames
  <2>3. \A c : Covered(c)' <=> Covered(c)
    BY <2>2 DEF Covered
  <2>4. CountsAreExact'
    BY <2>1, <2>2 DEF Counting, CountsAreExact
  <2>5. MarkedIsCovered' /\ CoveredIsMarked'
    BY <2>1, <2>3 DEF Counting, MarkedIsCovered, CoveredIsMarked
  <2>6. SatisfiedIsAnalysed'
    BY <2>1, <2>2 DEF Counting, SatisfiedIsAnalysed
  <2> QED
    BY <2>4, <2>5, <2>6 DEF Counting
<1>2. Life /\ Layout /\ Counting /\ [Next]_vars /\ (Life /\ Layout)' => Counting'
  BY <1>1, CountingStep
<1> QED
  BY InitCounting, LayoutAlways, <1>2, PTL DEF Spec

(* Every accepted frame is still queued, in one node, or counted once in    *)
(* its column, across partial acceptance, out-of-order blocks and budgets   *)
(* that stop inside a node.                                                 *)
THEOREM FramesAreCountedOnce == ASSUME CountsAreAtomic PROVE Spec => []FramesCountedOnce
<1>1. Layout /\ Counting => FramesCountedOnce
  <2> SUFFICES ASSUME Layout, Counting PROVE FramesCountedOnce
    OBVIOUS
  <2>1. WellQueued(pcm_queue) /\ QueuedFrames \subseteq accepted
    BY DEF Layout, InputIsOK, QueuedFrames, FramesOf, Held
  <2>2. ASSUME NEW i \in DOMAIN pcm_queue, NEW j \in DOMAIN pcm_queue, i # j
        PROVE  ~Overlap(NodeFirst(pcm_queue[i]), NodeEnd(pcm_queue[i]),
                        NodeFirst(pcm_queue[j]), NodeEnd(pcm_queue[j]))
    <3> DEFINE a == NodeFirst(pcm_queue[i])
               b == NodeEnd(pcm_queue[i])
               c == NodeFirst(pcm_queue[j])
               d == NodeEnd(pcm_queue[j])
    <3>1. /\ a \in Nat /\ b \in Nat /\ a < b
          /\ \A f : f \in Held(pcm_queue[i]) <=> f \in Int /\ a <= f /\ f < b
      BY <2>1, NodeIsRange
    <3>2. /\ c \in Nat /\ d \in Nat /\ c < d
          /\ \A f : f \in Held(pcm_queue[j]) <=> f \in Int /\ c <= f /\ f < d
      BY <2>1, NodeIsRange
    <3>3. Held(pcm_queue[i]) \cap Held(pcm_queue[j]) = {}
      BY <2>1, <2>2 DEF WellQueued
    <3> HIDE DEF a, b, c, d
    <3>4. ~(a < d /\ c < b)
      <4>1. a \notin Held(pcm_queue[j]) /\ c \notin Held(pcm_queue[i])
        BY <3>1, <3>2, <3>3
      <4> QED
        BY <3>1, <3>2, <4>1
    <3> QED
      BY <3>4 DEF Overlap, a, b, c, d
  <2>3. \A c \in Columns : sample_count[c] = Cardinality(Analysed \cap ColumnFrames(c))
    BY DEF Counting, CountsAreExact
  <2> QED
    BY <2>1, <2>2, <2>3 DEF FramesCountedOnce
<1> QED
  BY CountingAlways, <1>1, PTL

(* No published column claims input that was not accepted and analysed.     *)
THEOREM PublishedIsAlwaysCovered == ASSUME CountsAreAtomic PROVE Spec => []PublishedIsCovered
<1>1. Counting => PublishedIsCovered
  BY DEF Counting, MarkedIsCovered, Covered, PublishedIsCovered
<1> QED
  BY CountingAlways, <1>1, PTL

(* A request is reported satisfied only when all the input of all its       *)
(* columns has been analysed.                                               *)
THEOREM SatisfiedIsAlwaysAnalysed == ASSUME CountsAreAtomic PROVE Spec => []SatisfiedIsAnalysed
<1>1. Counting => SatisfiedIsAnalysed
  BY DEF Counting
<1> QED
  BY CountingAlways, <1>1, PTL

(* Only the end of a call on a drained session completes it.                *)
LEMMA CompletedByFinish ==
    ASSUME Next, state' = "COMPLETED", state # "COMPLETED"
    PROVE  Finish /\ state = "DRAINING" /\ pcm_queue = <<>> /\ published'.columns = complete
<1> USE DEF lifeVars, TransitionSucceeds, TransitionFails, PublicationFails,
            EndIsSignalled, EndIsRolledBack, Result
<1> DEFINE Goal == Finish /\ state = "DRAINING" /\ pcm_queue = <<>>
                   /\ published'.columns = complete
<1> SUFFICES Goal
  OBVIOUS
<1> HIDE DEF Goal
<1>1. ASSUME NEW first \in Frames, NEW count \in 1 .. TrackFrames - first, PushPcm(first, count)
      PROVE  Goal
  BY <1>1 DEF PushPcm
<1>2. ASSUME NEW end \in 0 .. TrackFrames, SignalEndOfInput(end) PROVE Goal
  BY <1>2 DEF SignalEndOfInput
<1>3. ASSUME NEW source_total \in {Unknown, TrackFrames}, SetSource(source_total)
      PROVE  Goal
  BY <1>3 DEF SetSource
<1>4. ASSUME NEW region \in Regions, RequestRegion(region) PROVE Goal
  BY <1>4 DEF RequestRegion
<1>5. ASSUME NEW i \in DOMAIN requests, CancelRegionRequest(i) PROVE Goal
  BY <1>5 DEF CancelRegionRequest
<1>6. ASSUME NEW f \in Foci, SetFocus(f) PROVE Goal
  BY <1>6 DEF SetFocus
<1>7. CASE NextPcmRequest
  BY <1>7 DEF NextPcmRequest
<1>8. CASE RequestCancel
  BY <1>8 DEF RequestCancel
<1>9. CASE StartProcess
  BY <1>9 DEF StartProcess
<1>10. CASE PullRefused
  BY <1>10 DEF PullRefused
<1>11. CASE PullNotNeeded
  BY <1>11 DEF PullNotNeeded
<1>12. CASE PullFindsNoDemand
  BY <1>12 DEF PullFindsNoDemand
<1>13. CASE SourceBlocks
  BY <1>13 DEF SourceBlocks, DemandIsNoted
<1>14. CASE SourceEnds
  BY <1>14 DEF SourceEnds, DemandIsNoted
<1>15. CASE SourceFails
  BY <1>15 DEF SourceFails, DemandIsNoted
<1>16. ASSUME NEW count \in 1 .. MaxPush, SourceDelivers(count) PROVE Goal
  BY <1>16 DEF SourceDelivers, DemandIsNoted
<1>17. CASE EnterCancelled
  BY <1>17 DEF EnterCancelled
<1>18. CASE EnterTerminal
  BY <1>18 DEF EnterTerminal
<1>19. CASE EnterWork
  BY <1>19 DEF EnterWork
<1>20. CASE ReserveFails
  BY <1>20 DEF ReserveFails
<1>21. ASSUME NEW n \in 1 .. ProcessChunk, AnalyseChunk(n) PROVE Goal
  BY <1>21 DEF AnalyseChunk
<1>22. ASSUME NEW n \in 1 .. ProcessChunk, NEW c \in Columns, AnalysisFails(n, c)
       PROVE  Goal
  BY <1>22 DEF AnalysisFails
<1>23. CASE EndWork
  BY <1>23 DEF EndWork
<1>24. CASE EndWorkFails
  BY <1>24 DEF EndWorkFails
<1>25. CASE Finish
  BY <1>25 DEF Finish, IsDrained, Goal
<1> QED
  BY <1>1, <1>2, <1>3, <1>4, <1>5, <1>6, <1>7, <1>8, <1>9, <1>10, <1>11, <1>12,
     <1>13, <1>14, <1>15, <1>16, <1>17, <1>18, <1>19, <1>20, <1>21, <1>22,
     <1>23, <1>24, <1>25
  DEF Next, HostNext, ProcessNext, PullNext, WorkNext

(* A completed session has published exactly the columns that its accepted  *)
(* input fills, the last partial one included, whatever failed on the way.  *)
THEOREM CompletedIsAlwaysWhole == ASSUME CountsAreAtomic PROVE Spec => []CompletedIsWhole
<1>1. Init => CompletedIsWhole
  BY DEF Init, CompletedIsWhole
<1>2. ASSUME Life, Layout, Counting, CompletedIsWhole, [Next]_vars, Life'
      PROVE  CompletedIsWhole'
  <2>1. CASE UNCHANGED vars
    BY <1>2, <2>1 DEF CompletedIsWhole, InputFrames, vars, lifeVars, lengthVars, inputVars
  <2>2. CASE Next /\ state' = "COMPLETED" /\ state = "COMPLETED"
    <3>1. UNCHANGED <<state, published, accepted>>
      BY <1>2, <2>2, TerminalStep DEF Terminal
    <3>2. final_end_frame' = final_end_frame
      BY <1>2, <2>2, LengthStep DEF Life, EndIsAgreed
    <3> QED
      BY <1>2, <3>1, <3>2 DEF CompletedIsWhole, InputFrames
  <2>3. CASE Next /\ state' = "COMPLETED" /\ state # "COMPLETED"
    <3>1. /\ Finish /\ state = "DRAINING" /\ pcm_queue = <<>>
          /\ published'.columns = complete
      BY <2>3, CompletedByFinish
    <3>2. /\ pc = "finish" /\ UNCHANGED <<final_end_frame, accepted>>
          /\ final_end_frame # Unknown
      BY <1>2, <3>1 DEF Finish, lengthVars, inputVars, Life, EndIsAgreed
    <3>3. Analysed = accepted
      BY <3>1 DEF Analysed, QueuedFrames
    <3>4. \A c \in Columns : Covered(c) <=> c \in complete
      BY <1>2, <3>2 DEF Counting, MarkedIsCovered, CoveredIsMarked
    <3>5. complete \subseteq Columns
      BY <1>2 DEF Layout, OverviewIsOK
    <3>6. \A c : InputFrames(c)' = InputFrames(c)
      BY <3>2 DEF InputFrames
    <3>7. published'.columns =
              {c \in Columns : InputFrames(c) # {} /\ InputFrames(c) \subseteq accepted}
      BY <3>1, <3>3, <3>4, <3>5 DEF Covered
    <3> QED
      BY <3>2, <3>6, <3>7 DEF CompletedIsWhole
  <2>4. CASE state' # "COMPLETED"
    BY <2>4 DEF CompletedIsWhole
  <2> QED
    BY <1>2, <2>1, <2>2, <2>3, <2>4
<1> QED
  BY <1>1, <1>2, CountingAlways, PTL DEF Spec

--------------------------------------------------------------------------------
(* Types. *)

FlagTypes ==
    /\ cancel_requested \in BOOLEAN /\ has_pull_source \in BOOLEAN /\ did_work \in BOOLEAN
    /\ bounded \in Bounded
PlainTypes ==
    /\ state \in Live \cup Terminal
    /\ failures \in 0 .. MaxFailures
    /\ pc \in {"idle", "pull", "enter", "work", "end", "finish"}
CallTypes == completed_before \in Nat /\ selected \in Nat
PublishedType ==
    published \in [state : Live \cup Terminal, columns : SUBSET Columns,
                   total : {Unknown} \cup 0 .. TrackFrames]
CapacityType == capacity \in Nat /\ Cardinality(accumulators) <= capacity

RequestsFit == Len(requests) <= MaxRequests

Types == FlagTypes /\ PlainTypes /\ CallTypes /\ PublishedType /\ CapacityType /\ RequestsFit

(* A track has at most as many columns as frames, so any set of columns     *)
(* fits the grown capacity.                                                 *)
LEMMA CapacityGrows ==
    ASSUME CapacityType, NEW S \in SUBSET Columns
    PROVE  /\ Cardinality(S) \in Nat
           /\ GrownCapacity(Cardinality(S)) \in Nat
           /\ Cardinality(S) <= GrownCapacity(Cardinality(S))
<1> DEFINE n == Cardinality(S)
           powers == {InitialCapacity * 2^k : k \in 0 .. n}
           fits == {c \in powers : c >= n}
<1>1. n \in Nat /\ n <= TrackFrames
  <2> DEFINE col == [f \in Frames |-> Column(f)]
  <2>1. col \in Surjection(Frames, Columns)
    BY DEF Surjection, Columns
  <2>2. Cardinality(Columns) <= Cardinality(Frames) /\ Cardinality(Frames) = TrackFrames
    <3>1. Cardinality(Columns) <= Cardinality(Frames)
      BY <2>1, FramesAreFinite, FS_Surjection
    <3>2. Cardinality(Frames) = TrackFrames
      BY SessionAssumption, FS_Interval DEF Frames
    <3> QED
      BY <3>1, <3>2
  <2>3. IsFiniteSet(S) /\ n <= Cardinality(Columns)
    BY FramesAreFinite, FS_Subset
  <2>4. n \in Nat /\ Cardinality(Columns) \in Nat
    BY <2>3, FramesAreFinite, FS_CardinalityType
  <2> QED
    BY <2>2, <2>3, <2>4, SessionAssumption
<1> HIDE DEF n
<1>2. \A k \in 0 .. n : 2^k \in Nat /\ k < 2^k
  BY <1>1, PowersOfTwo, SessionAssumption
<1>3. fits \subseteq Nat /\ fits # {}
  <2>1. \A k \in 0 .. n : InitialCapacity * 2^k \in Nat /\ k <= InitialCapacity * 2^k
    <3>1. ASSUME NEW p \in Nat, NEW k \in Nat, k < p
          PROVE  InitialCapacity * p \in Nat /\ k <= InitialCapacity * p
      BY <3>1, SessionAssumption
    <3> QED
      BY <1>2, <3>1
  <2>2. n \in 0 .. n
    BY <1>1
  <2>3. InitialCapacity * 2^n \in fits
    BY <1>1, <2>1, <2>2
  <2>4. powers \subseteq Nat
    BY <2>1
  <2> QED
    BY <2>3, <2>4
<1>4. SmallestOf(fits) \in fits
  BY <1>3, SmallestIsFirst
<1>5. \A c \in fits : c \in Nat /\ n <= c
  BY <1>1, <1>3
<1>6. GrownCapacity(n) = IF n <= capacity THEN capacity ELSE SmallestOf(fits)
  BY DEF GrownCapacity
<1> HIDE DEF fits
<1>7. GrownCapacity(n) \in Nat /\ n <= GrownCapacity(n)
  BY <1>1, <1>4, <1>5, <1>6 DEF CapacityType
<1> QED
  BY <1>1, <1>7 DEF n

(* The flags stay flags.                                                    *)
LEMMA FlagTypesStep ==
    ASSUME FlagTypes, Next
    PROVE  FlagTypes'
<1> USE DEF FlagTypes, callVars, lengthVars, Leave, Goto
<1>1. ASSUME NEW first \in Frames, NEW count \in 1 .. TrackFrames - first, PushPcm(first, count)
      PROVE  FlagTypes'
  BY <1>1 DEF PushPcm
<1>2. ASSUME NEW end \in 0 .. TrackFrames, SignalEndOfInput(end) PROVE FlagTypes'
  BY <1>2 DEF SignalEndOfInput, EndIsSignalled, EndIsRolledBack
<1>3. ASSUME NEW source_total \in {Unknown, TrackFrames}, SetSource(source_total)
      PROVE  FlagTypes'
  BY <1>3 DEF SetSource
<1>4. ASSUME NEW region \in Regions, RequestRegion(region) PROVE FlagTypes'
  BY <1>4 DEF RequestRegion
<1>5. ASSUME NEW i \in DOMAIN requests, CancelRegionRequest(i) PROVE FlagTypes'
  BY <1>5 DEF CancelRegionRequest
<1>6. ASSUME NEW f \in Foci, SetFocus(f) PROVE FlagTypes'
  BY <1>6 DEF SetFocus
<1>7. CASE NextPcmRequest
  BY <1>7 DEF NextPcmRequest
<1>8. CASE RequestCancel
  BY <1>8 DEF RequestCancel
<1>9. CASE StartProcess
  BY <1>9 DEF StartProcess
<1>10. CASE PullRefused
  BY <1>10 DEF PullRefused
<1>11. CASE PullNotNeeded
  BY <1>11 DEF PullNotNeeded
<1>12. CASE PullFindsNoDemand
  BY <1>12 DEF PullFindsNoDemand, EndIsSignalled, EndIsRolledBack
<1>13. CASE SourceBlocks
  BY <1>13 DEF SourceBlocks
<1>14. CASE SourceEnds
  BY <1>14 DEF SourceEnds, EndIsSignalled, EndIsRolledBack
<1>15. CASE SourceFails
  BY <1>15 DEF SourceFails
<1>16. ASSUME NEW count \in 1 .. MaxPush, SourceDelivers(count) PROVE FlagTypes'
  BY <1>16 DEF SourceDelivers
<1>17. CASE EnterCancelled
  BY <1>17 DEF EnterCancelled
<1>18. CASE EnterTerminal
  BY <1>18 DEF EnterTerminal
<1>19. CASE EnterWork
  BY <1>19 DEF EnterWork
<1>20. CASE ReserveFails
  BY <1>20 DEF ReserveFails
<1>21. ASSUME NEW n \in 1 .. ProcessChunk, AnalyseChunk(n) PROVE FlagTypes'
  BY <1>21 DEF AnalyseChunk
<1>22. ASSUME NEW n \in 1 .. ProcessChunk, NEW c \in Columns, AnalysisFails(n, c)
       PROVE  FlagTypes'
  BY <1>22 DEF AnalysisFails
<1>23. CASE EndWork
  BY <1>23 DEF EndWork
<1>24. CASE EndWorkFails
  BY <1>24 DEF EndWorkFails
<1>25. CASE Finish
  BY <1>25 DEF Finish
<1> QED
  BY <1>1, <1>2, <1>3, <1>4, <1>5, <1>6, <1>7, <1>8, <1>9, <1>10, <1>11, <1>12,
     <1>13, <1>14, <1>15, <1>16, <1>17, <1>18, <1>19, <1>20, <1>21, <1>22,
     <1>23, <1>24, <1>25
  DEF Next, HostNext, ProcessNext, PullNext, WorkNext

(* The state, the failures and the position in the call keep their types.   *)
LEMMA PlainTypesStep ==
    ASSUME PlainTypes, Next
    PROVE  PlainTypes'
<1> USE SessionAssumption
    DEF PlainTypes, lifeVars, callVars, Leave, Goto, PublicationFails,
        TransitionSucceeds, TransitionFails, EndIsSignalled, EndIsRolledBack, Live, Terminal
<1>1. ASSUME NEW first \in Frames, NEW count \in 1 .. TrackFrames - first, PushPcm(first, count)
      PROVE  PlainTypes'
  BY <1>1 DEF PushPcm
<1>2. ASSUME NEW end \in 0 .. TrackFrames, SignalEndOfInput(end) PROVE PlainTypes'
  BY <1>2 DEF SignalEndOfInput
<1>3. ASSUME NEW source_total \in {Unknown, TrackFrames}, SetSource(source_total)
      PROVE  PlainTypes'
  BY <1>3 DEF SetSource
<1>4. ASSUME NEW region \in Regions, RequestRegion(region) PROVE PlainTypes'
  BY <1>4 DEF RequestRegion
<1>5. ASSUME NEW i \in DOMAIN requests, CancelRegionRequest(i) PROVE PlainTypes'
  BY <1>5 DEF CancelRegionRequest
<1>6. ASSUME NEW f \in Foci, SetFocus(f) PROVE PlainTypes'
  BY <1>6 DEF SetFocus
<1>7. CASE NextPcmRequest
  BY <1>7 DEF NextPcmRequest
<1>8. CASE RequestCancel
  BY <1>8 DEF RequestCancel
<1>9. CASE StartProcess
  BY <1>9 DEF StartProcess
<1>10. CASE PullRefused
  BY <1>10 DEF PullRefused
<1>11. CASE PullNotNeeded
  BY <1>11 DEF PullNotNeeded
<1>12. CASE PullFindsNoDemand
  BY <1>12 DEF PullFindsNoDemand
<1>13. CASE SourceBlocks
  BY <1>13 DEF SourceBlocks
<1>14. CASE SourceEnds
  BY <1>14 DEF SourceEnds
<1>15. CASE SourceFails
  BY <1>15 DEF SourceFails
<1>16. ASSUME NEW count \in 1 .. MaxPush, SourceDelivers(count) PROVE PlainTypes'
  BY <1>16 DEF SourceDelivers
<1>17. CASE EnterCancelled
  BY <1>17 DEF EnterCancelled
<1>18. CASE EnterTerminal
  BY <1>18 DEF EnterTerminal
<1>19. CASE EnterWork
  BY <1>19 DEF EnterWork
<1>20. CASE ReserveFails
  BY <1>20 DEF ReserveFails
<1>21. ASSUME NEW n \in 1 .. ProcessChunk, AnalyseChunk(n) PROVE PlainTypes'
  BY <1>21 DEF AnalyseChunk
<1>22. ASSUME NEW n \in 1 .. ProcessChunk, NEW c \in Columns, AnalysisFails(n, c)
       PROVE  PlainTypes'
  BY <1>22 DEF AnalysisFails
<1>23. CASE EndWork
  BY <1>23 DEF EndWork
<1>24. CASE EndWorkFails
  BY <1>24 DEF EndWorkFails
<1>25. CASE Finish
  BY <1>25 DEF Finish
<1> QED
  BY <1>1, <1>2, <1>3, <1>4, <1>5, <1>6, <1>7, <1>8, <1>9, <1>10, <1>11, <1>12,
     <1>13, <1>14, <1>15, <1>16, <1>17, <1>18, <1>19, <1>20, <1>21, <1>22,
     <1>23, <1>24, <1>25
  DEF Next, HostNext, ProcessNext, PullNext, WorkNext

(* The locals of a process call are numbers.                                *)
LEMMA CallTypesStep ==
    ASSUME CallTypes, Layout, Next
    PROVE  CallTypes'
<1> USE DEF CallTypes, callVars, Leave, Goto, NoRequest
<1>1. ASSUME NEW first \in Frames, NEW count \in 1 .. TrackFrames - first, PushPcm(first, count)
      PROVE  CallTypes'
  BY <1>1 DEF PushPcm
<1>2. ASSUME NEW end \in 0 .. TrackFrames, SignalEndOfInput(end) PROVE CallTypes'
  BY <1>2 DEF SignalEndOfInput
<1>3. ASSUME NEW source_total \in {Unknown, TrackFrames}, SetSource(source_total)
      PROVE  CallTypes'
  BY <1>3 DEF SetSource
<1>4. ASSUME NEW region \in Regions, RequestRegion(region) PROVE CallTypes'
  BY <1>4 DEF RequestRegion
<1>5. ASSUME NEW i \in DOMAIN requests, CancelRegionRequest(i) PROVE CallTypes'
  BY <1>5 DEF CancelRegionRequest
<1>6. ASSUME NEW f \in Foci, SetFocus(f) PROVE CallTypes'
  BY <1>6 DEF SetFocus
<1>7. CASE NextPcmRequest
  BY <1>7 DEF NextPcmRequest
<1>8. CASE RequestCancel
  BY <1>8 DEF RequestCancel
<1>9. CASE StartProcess
  BY <1>9 DEF StartProcess
<1>10. CASE PullRefused
  BY <1>10 DEF PullRefused
<1>11. CASE PullNotNeeded
  BY <1>11 DEF PullNotNeeded
<1>12. CASE PullFindsNoDemand
  BY <1>12 DEF PullFindsNoDemand
<1>13. CASE SourceBlocks
  BY <1>13 DEF SourceBlocks
<1>14. CASE SourceEnds
  BY <1>14 DEF SourceEnds
<1>15. CASE SourceFails
  BY <1>15 DEF SourceFails
<1>16. ASSUME NEW count \in 1 .. MaxPush, SourceDelivers(count) PROVE CallTypes'
  BY <1>16 DEF SourceDelivers
<1>17. CASE EnterCancelled
  BY <1>17 DEF EnterCancelled
<1>18. CASE EnterTerminal
  BY <1>18 DEF EnterTerminal
<1>19. CASE EnterWork
  <2>1. Cardinality(complete) \in Nat
    BY FramesAreFinite, FS_Subset, FS_CardinalityType DEF Layout, OverviewIsOK
  <2>2. NodeScore(pcm_queue'[1], requests, focus).id \in Nat
    <3>1. NodeScore(pcm_queue'[1], requests, focus) \in Scores
      BY SteeringIsUsable, NodeScoreIsScore DEF Layout
    <3> QED
      BY <3>1 DEF Scores
  <2> QED
    BY <1>19, <2>1, <2>2 DEF EnterWork
<1>20. CASE ReserveFails
  BY <1>20 DEF ReserveFails
<1>21. ASSUME NEW n \in 1 .. ProcessChunk, AnalyseChunk(n) PROVE CallTypes'
  BY <1>21 DEF AnalyseChunk
<1>22. ASSUME NEW n \in 1 .. ProcessChunk, NEW c \in Columns, AnalysisFails(n, c)
       PROVE  CallTypes'
  BY <1>22 DEF AnalysisFails
<1>23. CASE EndWork
  BY <1>23 DEF EndWork
<1>24. CASE EndWorkFails
  BY <1>24 DEF EndWorkFails
<1>25. CASE Finish
  BY <1>25 DEF Finish
<1> QED
  BY <1>1, <1>2, <1>3, <1>4, <1>5, <1>6, <1>7, <1>8, <1>9, <1>10, <1>11, <1>12,
     <1>13, <1>14, <1>15, <1>16, <1>17, <1>18, <1>19, <1>20, <1>21, <1>22,
     <1>23, <1>24, <1>25
  DEF Next, HostNext, ProcessNext, PullNext, WorkNext

(* A result carries a state, columns of the track and a length.             *)
LEMMA PublishedTypeStep ==
    ASSUME PublishedType, PlainTypes, Layout, Next
    PROVE  PublishedType'
<1> DEFINE Total == {Unknown} \cup 0 .. TrackFrames
<1>a. ASSUME NEW s \in Live \cup Terminal, NEW t \in Total, published' = Result(s, t)
      PROVE  PublishedType'
  BY <1>a DEF PublishedType, Result, Layout, OverviewIsOK
<1>b. published' = published => PublishedType'
  BY DEF PublishedType
<1>c. total_frames \in Total /\ state \in Live \cup Terminal /\ TrackFrames \in Total
      /\ {"ACTIVE", "DRAINING", "COMPLETED", "CANCELLED", "FAILED"} \subseteq Live \cup Terminal
  BY SessionAssumption DEF Layout, LengthIsOK, PlainTypes, Live, Terminal
<1>d. ASSUME NEW s \in Live \cup Terminal, TransitionSucceeds(s) PROVE PublishedType'
  BY <1>a, <1>c, <1>d DEF TransitionSucceeds
<1>e. ASSUME NEW s, TransitionFails(s) PROVE PublishedType'
  BY <1>b, <1>e DEF TransitionFails, PublicationFails
<1>f. ASSUME NEW t \in Total, EndIsSignalled(t) \/ EndIsRolledBack(t)
      PROVE  PublishedType'
  <2>1. CASE EndIsSignalled(t)
    BY <1>a, <1>c, <2>1 DEF EndIsSignalled
  <2>2. CASE EndIsRolledBack(t)
    BY <1>a, <1>c, <1>e, <2>2 DEF EndIsRolledBack
  <2> QED
    BY <1>f, <2>1, <2>2
<1> HIDE DEF Total
<1>1. ASSUME NEW first \in Frames, NEW count \in 1 .. TrackFrames - first, PushPcm(first, count)
      PROVE  PublishedType'
  BY <1>1, <1>b, <1>c, <1>d, <1>e DEF PushPcm, lifeVars
<1>2. ASSUME NEW end \in 0 .. TrackFrames, SignalEndOfInput(end) PROVE PublishedType'
  <2>1. end \in Total
    BY DEF Total
  <2> QED
    BY <1>2, <1>f, <2>1 DEF SignalEndOfInput
<1>3. ASSUME NEW source_total \in {Unknown, TrackFrames}, SetSource(source_total)
      PROVE  PublishedType'
  BY <1>3, <1>b DEF SetSource, lifeVars
<1>4. ASSUME NEW region \in Regions, RequestRegion(region) PROVE PublishedType'
  BY <1>4, <1>b DEF RequestRegion, lifeVars
<1>5. ASSUME NEW i \in DOMAIN requests, CancelRegionRequest(i) PROVE PublishedType'
  BY <1>5, <1>b DEF CancelRegionRequest, lifeVars
<1>6. ASSUME NEW f \in Foci, SetFocus(f) PROVE PublishedType'
  BY <1>6, <1>b DEF SetFocus, lifeVars
<1>7. CASE NextPcmRequest
  BY <1>7, <1>b DEF NextPcmRequest, lifeVars
<1>8. CASE RequestCancel
  BY <1>8, <1>b DEF RequestCancel, lifeVars
<1>9. CASE StartProcess
  BY <1>9, <1>b DEF StartProcess, lifeVars
<1>10. CASE PullRefused
  BY <1>10, <1>b DEF PullRefused, lifeVars
<1>11. CASE PullNotNeeded
  BY <1>11, <1>b DEF PullNotNeeded, lifeVars
<1>12. CASE PullFindsNoDemand
  BY <1>12, <1>b, <1>c, <1>f DEF PullFindsNoDemand, lifeVars
<1>13. CASE SourceBlocks
  BY <1>13, <1>b DEF SourceBlocks, lifeVars
<1>14. CASE SourceEnds
  BY <1>14, <1>b, <1>c, <1>f DEF SourceEnds, lifeVars
<1>15. CASE SourceFails
  BY <1>15, <1>b, <1>c, <1>d, <1>e DEF SourceFails, lifeVars
<1>16. ASSUME NEW count \in 1 .. MaxPush, SourceDelivers(count) PROVE PublishedType'
  BY <1>16, <1>b, <1>c, <1>d, <1>e DEF SourceDelivers, lifeVars
<1>17. CASE EnterCancelled
  BY <1>17, <1>b, <1>c, <1>d, <1>e DEF EnterCancelled, lifeVars
<1>18. CASE EnterTerminal
  BY <1>18, <1>b DEF EnterTerminal, lifeVars
<1>19. CASE EnterWork
  BY <1>19, <1>b DEF EnterWork, lifeVars
<1>20. CASE ReserveFails
  BY <1>20, <1>b DEF ReserveFails, lifeVars
<1>21. ASSUME NEW n \in 1 .. ProcessChunk, AnalyseChunk(n) PROVE PublishedType'
  BY <1>21, <1>b DEF AnalyseChunk, lifeVars
<1>22. ASSUME NEW n \in 1 .. ProcessChunk, NEW c \in Columns, AnalysisFails(n, c)
       PROVE  PublishedType'
  BY <1>22, <1>b DEF AnalysisFails, lifeVars
<1>23. CASE EndWork
  BY <1>23, <1>a, <1>b, <1>c DEF EndWork
<1>24. CASE EndWorkFails
  BY <1>24, <1>b DEF EndWorkFails, PublicationFails
<1>25. CASE Finish
  BY <1>25, <1>b, <1>c, <1>d, <1>e DEF Finish, lifeVars
<1> QED
  BY <1>1, <1>2, <1>3, <1>4, <1>5, <1>6, <1>7, <1>8, <1>9, <1>10, <1>11, <1>12,
     <1>13, <1>14, <1>15, <1>16, <1>17, <1>18, <1>19, <1>20, <1>21, <1>22,
     <1>23, <1>24, <1>25
  DEF Next, HostNext, ProcessNext, PullNext, WorkNext

(* There is always room for the accumulators in use.                        *)
LEMMA CapacityTypeStep ==
    ASSUME CapacityType, Layout, Next, OverviewIsOK'
    PROVE  CapacityType'
<1>a. UNCHANGED <<capacity, accumulators>> => CapacityType'
  BY DEF CapacityType
<1>b. accumulators \subseteq Columns /\ accumulators' \subseteq Columns
  BY DEF Layout, OverviewIsOK
<1>c. ASSUME capacity' = GrownCapacity(Cardinality(accumulators')) PROVE CapacityType'
  BY <1>b, <1>c, CapacityGrows DEF CapacityType
<1>1. ASSUME NEW first \in Frames, NEW count \in 1 .. TrackFrames - first, PushPcm(first, count)
      PROVE  CapacityType'
  BY <1>1, <1>a DEF PushPcm, overviewVars,
         TransitionSucceeds, TransitionFails, PublicationFails
<1>2. ASSUME NEW end \in 0 .. TrackFrames, SignalEndOfInput(end) PROVE CapacityType'
  BY <1>2, <1>a DEF SignalEndOfInput, overviewVars, EndIsSignalled, EndIsRolledBack,
         TransitionFails, PublicationFails
<1>3. ASSUME NEW source_total \in {Unknown, TrackFrames}, SetSource(source_total)
      PROVE  CapacityType'
  BY <1>3, <1>a DEF SetSource, overviewVars
<1>4. ASSUME NEW region \in Regions, RequestRegion(region) PROVE CapacityType'
  BY <1>4, <1>a DEF RequestRegion, overviewVars
<1>5. ASSUME NEW i \in DOMAIN requests, CancelRegionRequest(i) PROVE CapacityType'
  BY <1>5, <1>a DEF CancelRegionRequest, overviewVars
<1>6. ASSUME NEW f \in Foci, SetFocus(f) PROVE CapacityType'
  BY <1>6, <1>a DEF SetFocus, overviewVars
<1>7. CASE NextPcmRequest
  BY <1>7, <1>a DEF NextPcmRequest, overviewVars
<1>8. CASE RequestCancel
  BY <1>8, <1>a DEF RequestCancel, overviewVars
<1>9. CASE StartProcess
  BY <1>9, <1>a DEF StartProcess, overviewVars
<1>10. CASE PullRefused
  BY <1>10, <1>a DEF PullRefused, overviewVars
<1>11. CASE PullNotNeeded
  BY <1>11, <1>a DEF PullNotNeeded, overviewVars
<1>12. CASE PullFindsNoDemand
  BY <1>12, <1>a DEF PullFindsNoDemand, overviewVars, EndIsSignalled, EndIsRolledBack,
         TransitionFails, PublicationFails
<1>13. CASE SourceBlocks
  BY <1>13, <1>a DEF SourceBlocks, overviewVars
<1>14. CASE SourceEnds
  BY <1>14, <1>a DEF SourceEnds, overviewVars, EndIsSignalled, EndIsRolledBack,
         TransitionFails, PublicationFails
<1>15. CASE SourceFails
  BY <1>15, <1>a DEF SourceFails, overviewVars,
         TransitionSucceeds, TransitionFails, PublicationFails
<1>16. ASSUME NEW count \in 1 .. MaxPush, SourceDelivers(count) PROVE CapacityType'
  BY <1>16, <1>a DEF SourceDelivers, overviewVars,
         TransitionSucceeds, TransitionFails, PublicationFails
<1>17. CASE EnterCancelled
  BY <1>17, <1>a DEF EnterCancelled, overviewVars,
         TransitionSucceeds, TransitionFails, PublicationFails
<1>18. CASE EnterTerminal
  BY <1>18, <1>a DEF EnterTerminal, overviewVars
<1>19. CASE EnterWork
  <2> DEFINE S == accumulators \cup QueuedColumns
  <2>1. S \in SUBSET Columns
    BY <1>b DEF QueuedColumns, QueuedFrames, Layout, InputIsOK, FramesOf, Held, Columns
  <2>2. Cardinality(accumulators) <= Cardinality(S) /\ Cardinality(accumulators) \in Nat
    BY <1>b, <2>1, FramesAreFinite, FS_Subset, FS_CardinalityType
  <2>3. Cardinality(S) \in Nat /\ GrownCapacity(Cardinality(S)) \in Nat
        /\ Cardinality(S) <= GrownCapacity(Cardinality(S))
    BY <2>1, CapacityGrows
  <2>4. accumulators' = accumulators
        /\ (capacity' = capacity \/ capacity' = GrownCapacity(Cardinality(S)))
    BY <1>19 DEF EnterWork
  <2> HIDE DEF S
  <2> QED
    BY <1>a, <2>2, <2>3, <2>4 DEF CapacityType
<1>20. CASE ReserveFails
  BY <1>20, <1>a DEF ReserveFails, overviewVars
<1>21. ASSUME NEW n \in 1 .. ProcessChunk, AnalyseChunk(n) PROVE CapacityType'
  BY <1>21, <1>c DEF AnalyseChunk
<1>22. ASSUME NEW n \in 1 .. ProcessChunk, NEW c \in Columns, AnalysisFails(n, c)
       PROVE  CapacityType'
  BY <1>22, <1>c DEF AnalysisFails
<1>23. CASE EndWork
  BY <1>23, <1>a DEF EndWork, overviewVars
<1>24. CASE EndWorkFails
  BY <1>24, <1>a DEF EndWorkFails, PublicationFails
<1>25. CASE Finish
  BY <1>25, <1>a DEF Finish, overviewVars,
         TransitionSucceeds, TransitionFails, PublicationFails
<1> QED
  BY <1>1, <1>2, <1>3, <1>4, <1>5, <1>6, <1>7, <1>8, <1>9, <1>10, <1>11, <1>12,
     <1>13, <1>14, <1>15, <1>16, <1>17, <1>18, <1>19, <1>20, <1>21, <1>22,
     <1>23, <1>24, <1>25
  DEF Next, HostNext, ProcessNext, PullNext, WorkNext

(* The request slots are never overrun.                                     *)
LEMMA RequestsFitStep ==
    ASSUME RequestsFit, Layout, Next, SteeringIsOK'
    PROVE  RequestsFit'
<1>a. requests \in Seq(Request) /\ requests' \in Seq(Request) /\ SteeringIsOK
  BY DEF Layout, SteeringIsOK
<1>b. ASSUME DOMAIN requests' = DOMAIN requests PROVE RequestsFit'
  <2>1. Len(requests') = Len(requests)
    BY <1>a, <1>b, LenProperties
  <2> QED
    BY <2>1 DEF RequestsFit
<1>c. ASSUME NEW id, requests' = NoteChoice(requests, id) PROVE RequestsFit'
  BY <1>b, <1>c DEF NoteChoice
<1> USE <1>b
<1>1. ASSUME NEW first \in Frames, NEW count \in 1 .. TrackFrames - first, PushPcm(first, count)
      PROVE  RequestsFit'
  BY <1>1 DEF PushPcm, steeringVars
<1>2. ASSUME NEW end \in 0 .. TrackFrames, SignalEndOfInput(end) PROVE RequestsFit'
  BY <1>2 DEF SignalEndOfInput, steeringVars
<1>3. ASSUME NEW source_total \in {Unknown, TrackFrames}, SetSource(source_total)
      PROVE  RequestsFit'
  BY <1>3 DEF SetSource, steeringVars
<1>4. ASSUME NEW region \in Regions, RequestRegion(region) PROVE RequestsFit'
  <2>1. Len(requests) < MaxRequests /\ Len(requests') = Len(requests) + 1 /\ Len(requests) \in Nat
    BY <1>4, <1>a DEF RequestRegion
  <2> QED
    BY <2>1, SessionAssumption DEF RequestsFit
<1>5. ASSUME NEW i \in DOMAIN requests, CancelRegionRequest(i) PROVE RequestsFit'
  BY <1>5 DEF CancelRegionRequest
<1>6. ASSUME NEW f \in Foci, SetFocus(f) PROVE RequestsFit'
  BY <1>6 DEF SetFocus, steeringVars
<1>7. CASE NextPcmRequest
  BY <1>7, <1>c DEF NextPcmRequest
<1>8. CASE RequestCancel
  BY <1>8 DEF RequestCancel, steeringVars
<1>9. CASE StartProcess
  BY <1>9 DEF StartProcess, steeringVars
<1>10. CASE PullRefused
  BY <1>10 DEF PullRefused, steeringVars
<1>11. CASE PullNotNeeded
  BY <1>11 DEF PullNotNeeded, steeringVars
<1>12. CASE PullFindsNoDemand
  BY <1>12 DEF PullFindsNoDemand, steeringVars
<1>13. CASE SourceBlocks
  BY <1>13, <1>c DEF SourceBlocks, DemandIsNoted
<1>14. CASE SourceEnds
  BY <1>14, <1>c DEF SourceEnds, DemandIsNoted
<1>15. CASE SourceFails
  BY <1>15, <1>c DEF SourceFails, DemandIsNoted
<1>16. ASSUME NEW count \in 1 .. MaxPush, SourceDelivers(count) PROVE RequestsFit'
  BY <1>16, <1>c DEF SourceDelivers, DemandIsNoted
<1>17. CASE EnterCancelled
  BY <1>17 DEF EnterCancelled, steeringVars
<1>18. CASE EnterTerminal
  BY <1>18 DEF EnterTerminal, steeringVars
<1>19. CASE EnterWork
  BY <1>19 DEF EnterWork, steeringVars
<1>20. CASE ReserveFails
  BY <1>20 DEF ReserveFails, steeringVars
<1>21. ASSUME NEW n \in 1 .. ProcessChunk, AnalyseChunk(n) PROVE RequestsFit'
  BY <1>21 DEF AnalyseChunk, steeringVars
<1>22. ASSUME NEW n \in 1 .. ProcessChunk, NEW c \in Columns, AnalysisFails(n, c)
       PROVE  RequestsFit'
  BY <1>22 DEF AnalysisFails, steeringVars
<1>23. CASE EndWork
  BY <1>23 DEF EndWork, NoteChoice, UpdatedRequests
<1>24. CASE EndWorkFails
  BY <1>24 DEF EndWorkFails, UpdatedRequests
<1>25. CASE Finish
  BY <1>25 DEF Finish, steeringVars
<1> QED
  BY <1>1, <1>2, <1>3, <1>4, <1>5, <1>6, <1>7, <1>8, <1>9, <1>10, <1>11, <1>12,
     <1>13, <1>14, <1>15, <1>16, <1>17, <1>18, <1>19, <1>20, <1>21, <1>22,
     <1>23, <1>24, <1>25
  DEF Next, HostNext, ProcessNext, PullNext, WorkNext

(* Every variable of the session keeps its type, a queued node always has   *)
(* frames left, the accumulators in use fit their storage and the request   *)
(* slots are never overrun.                                                 *)
THEOREM SessionIsTyped == Spec => []TypeOK
<1>1. Init => Types
  <2>1. Cardinality({}) = 0 /\ Len(<<>>) = 0
    BY FS_EmptySet
  <2>2. Init => FlagTypes
    BY DEF Init, FlagTypes
  <2>3. Init => PlainTypes /\ CallTypes /\ PublishedType
    BY SessionAssumption DEF Init, PlainTypes, CallTypes, PublishedType, Live, Terminal, NoRequest
  <2>4. Init => CapacityType /\ RequestsFit
    BY <2>1, SessionAssumption DEF Init, CapacityType, RequestsFit
  <2> QED
    BY <2>2, <2>3, <2>4 DEF Types
<1>2. Types /\ Layout /\ [Next]_vars /\ Layout' => Types'
  <2>1. Types /\ Layout /\ Next /\ Layout' => Types'
    BY FlagTypesStep, PlainTypesStep, CallTypesStep, PublishedTypeStep, CapacityTypeStep,
       RequestsFitStep DEF Types, Layout
  <2>2. Types /\ UNCHANGED vars => Types'
    BY DEF Types, FlagTypes, PlainTypes, CallTypes, PublishedType, CapacityType, RequestsFit,
           vars, lifeVars, lengthVars, overviewVars, steeringVars, callVars
  <2> QED
    BY <2>1, <2>2
<1>3. Life /\ Layout /\ Types => TypeOK
  <2> SUFFICES ASSUME Life, Layout, Types PROVE TypeOK
    OBVIOUS
  <2>1. final_end_frame \in {Unknown} \cup 0 .. TrackFrames
    BY DEF Life, EndIsAgreed, Layout, LengthIsOK
  <2>2. \A i \in DOMAIN requests : requests[i] \in Request
    BY ElementOfSeq, LenProperties DEF Layout, SteeringIsOK
  <2>3. \A i \in DOMAIN requests : requests[i].state \in RequestStates
                                   /\ requests[i].skips \in 0 .. MaxSkips
    BY <2>2 DEF Request
  <2>4. /\ cancel_requested \in BOOLEAN /\ has_pull_source \in BOOLEAN /\ did_work \in BOOLEAN
        /\ bounded \in Bounded
    BY DEF Types, FlagTypes
  <2>5. /\ state \in Live \cup Terminal /\ failures \in 0 .. MaxFailures
        /\ pc \in {"idle", "pull", "enter", "work", "end", "finish"}
        /\ completed_before \in Nat /\ selected \in Nat
        /\ capacity \in Nat /\ Cardinality(accumulators) <= capacity
        /\ Len(requests) <= MaxRequests
        /\ published \in [state : Live \cup Terminal, columns : SUBSET Columns,
                          total : {Unknown} \cup 0 .. TrackFrames]
    BY DEF Types, PlainTypes, CallTypes, CapacityType, PublishedType, RequestsFit
  <2>6. /\ total_frames \in {Unknown} \cup 0 .. TrackFrames
        /\ accepted \subseteq Frames /\ pcm_queue \in Seq(Node)
        /\ \A i \in DOMAIN pcm_queue : pcm_queue[i].processed < pcm_queue[i].frames
        /\ accumulators \subseteq Columns /\ sample_count \in [Columns -> Nat]
        /\ complete \subseteq accumulators /\ focus \in Foci \cup {NoFocus}
    BY DEF Layout, LengthIsOK, InputIsOK, OverviewIsOK, SteeringIsOK, WellQueued
  <2> QED
    BY <2>1, <2>3, <2>4, <2>5, <2>6, Zenon DEF TypeOK
<1> QED
  BY <1>1, <1>2, <1>3, LayoutAlways, PTL DEF Spec

================================================================================
