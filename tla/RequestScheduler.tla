---------------------------- MODULE RequestScheduler ----------------------------
(***************************************************************************)
(* The scheduling decisions of a session, as operators: how region         *)
(* requests and the playback focus are ranked, which PCM range the session *)
(* demands next, and in which order queued PCM is analysed.                *)
(*                                                                         *)
(* A request is a record with fields first, end (source frames), priority, *)
(* deadline (0: none), state and skips.  requests is the sequence of the   *)
(* request slots in use: slots are filled in order and never freed, so a   *)
(* slot's number is also the request's identifier and enqueue serial.      *)
(* A focus is a record playhead, behind, ahead, priority, or NoFocus.      *)
(* Every request and focus here asks for the waveform overview.            *)
(***************************************************************************)
EXTENDS Integers, Sequences, FiniteSets

CONSTANTS
    AgeStep,       \* APTA_INTERNAL_SCHEDULER_AGE_STEP
    MaxSkips,      \* APTA_INTERNAL_SCHEDULER_MAX_SKIPS
    MaxPriority,   \* UINT8_MAX
    MaxPush,       \* APTA_INTERNAL_MAX_PUSH_FRAMES
    NoFocus        \* has_focus is zero

ASSUME SchedulerAssumption ==
    /\ AgeStep \in Nat
    /\ MaxSkips \in Nat
    /\ MaxPriority \in Nat
    /\ MaxPush \in Nat \ {0}

Unknown == -1      \* APTA_TOTAL_FRAMES_UNKNOWN
NoRequest == 0     \* no request identifier

Smaller(a, b) == IF a < b THEN a ELSE b
SmallestOf(S) == CHOOSE x \in S : \A y \in S : x <= y
Overlap(first, end, other_first, other_end) == first < other_end /\ other_first < end

IsActive(request) == request.state \notin {"CANCELLED", "FAILED", "SATISFIED"}

EffectivePriority(request) ==
    Smaller(MaxPriority, request.priority + request.skips * AgeStep)

(* The ranking key of request i; work that no request asks for ranks with  *)
(* the priority of the focus, no deadline and the last serial.             *)
RequestScore(requests, i) ==
    [priority |-> EffectivePriority(requests[i]),
     deadline |-> requests[i].deadline,
     id |-> i]
IdleScore(priority) == [priority |-> priority, deadline |-> 0, id |-> NoRequest]

Better(a, b) ==
    \/ a.priority > b.priority
    \/ /\ a.priority = b.priority
       /\ a.deadline # 0
       /\ b.deadline = 0 \/ a.deadline < b.deadline
    \/ /\ a.priority = b.priority
       /\ a.deadline = b.deadline
       /\ a.id # NoRequest
       /\ b.id = NoRequest \/ a.id < b.id

Best(scores) == CHOOSE a \in scores : \A b \in scores : b = a \/ Better(a, b)

(* One decision: the selected request starts over, every other active one  *)
(* has been skipped once more.                                             *)
NoteChoice(requests, selected) ==
    [i \in DOMAIN requests |->
        IF ~IsActive(requests[i]) THEN requests[i]
        ELSE [requests[i] EXCEPT !.skips =
                 IF i = selected THEN 0 ELSE Smaller(MaxSkips, @ + 1)]]

--------------------------------------------------------------------------------
(* PCM demand.                                                             *)

FocusFirst(focus) == IF focus.playhead > focus.behind
                     THEN focus.playhead - focus.behind ELSE 0
FocusEnd(focus) == focus.playhead + focus.ahead

ActiveIds(requests) == {i \in DOMAIN requests : IsActive(requests[i])}

(* The range the next demand is taken from: the best active request, else  *)
(* the focus window, else the whole track or the next block of a track of  *)
(* unknown length, whose accepted prefix ends at contiguous_end.           *)
DemandTarget(requests, focus, total, contiguous_end) ==
    LET best == Best({RequestScore(requests, i) : i \in ActiveIds(requests)}).id
        target ==
            IF ActiveIds(requests) # {}
            THEN [id |-> best, first |-> requests[best].first, end |-> requests[best].end]
            ELSE IF focus # NoFocus /\ FocusEnd(focus) > FocusFirst(focus)
            THEN [id |-> NoRequest, first |-> FocusFirst(focus), end |-> FocusEnd(focus)]
            ELSE IF total = Unknown
            THEN [id |-> NoRequest, first |-> contiguous_end, end |-> contiguous_end + MaxPush]
            ELSE [id |-> NoRequest, first |-> 0, end |-> total]
    IN  IF total = Unknown THEN target
        ELSE [target EXCEPT !.end = Smaller(@, total)]

MissingFrames(accepted, target) == (target.first .. target.end - 1) \ accepted

(* The first run of frames of the target not accepted yet, at most MaxPush *)
(* long.  Only meaningful when MissingFrames is not empty: otherwise the   *)
(* code answers APTA_STATUS_NOT_AVAILABLE.                                 *)
Demand(accepted, target) ==
    LET first == SmallestOf(MissingFrames(accepted, target))
        stops == {f \in accepted : f > first} \cup {target.end, first + MaxPush}
    IN  [id |-> target.id, first |-> first, end |-> SmallestOf(stops)]

--------------------------------------------------------------------------------
(* Order of the PCM queue.  A node is a record first, frames, processed.   *)

NodeFirst(node) == node.first + node.processed
NodeEnd(node) == node.first + node.frames

FocusPriority(node, focus) ==
    IF /\ focus # NoFocus
       /\ FocusEnd(focus) > FocusFirst(focus)
       /\ Overlap(NodeFirst(node), NodeEnd(node), FocusFirst(focus), FocusEnd(focus))
    THEN focus.priority ELSE 0

NodeRequests(node, requests) ==
    {i \in ActiveIds(requests) :
        Overlap(NodeFirst(node), NodeEnd(node), requests[i].first, requests[i].end)}

NodeScore(node, requests, focus) ==
    Best({IdleScore(FocusPriority(node, focus))}
         \cup {RequestScore(requests, i) : i \in NodeRequests(node, requests)})

(* Stable sort of the queue by score, best first.                          *)
SortQueue(queue, requests, focus) ==
    LET Ahead(j, i) == Better(NodeScore(queue[j], requests, focus),
                              NodeScore(queue[i], requests, focus))
        Rank(i) == Cardinality({j \in DOMAIN queue :
                                   Ahead(j, i) \/ (j < i /\ ~Ahead(i, j))})
    IN  [k \in DOMAIN queue |-> queue[CHOOSE i \in DOMAIN queue : Rank(i) = k - 1]]

(* The node the analyser takes next: the first in queue order of those     *)
(* with the highest priority, aging included.                              *)
NodePriority(node, requests, focus) ==
    LET priorities == {FocusPriority(node, focus)}
                      \cup {EffectivePriority(requests[i]) : i \in NodeRequests(node, requests)}
    IN  CHOOSE p \in priorities : \A q \in priorities : q <= p

SelectNode(queue, requests, focus) ==
    SmallestOf({i \in DOMAIN queue :
        \A j \in DOMAIN queue :
            NodePriority(queue[j], requests, focus) <= NodePriority(queue[i], requests, focus)})

================================================================================
