--------------------------------- MODULE Session ---------------------------------
(***************************************************************************)
(* One analysis session with the waveform overview: its life cycle, the    *)
(* PCM it accepts by push or by pull, the region requests and focus that   *)
(* steer it, the cooperative process call, and what is published when a    *)
(* publication or an allocation fails on the way.                          *)
(*                                                                         *)
(* The host serialises the mutating calls, so a call is one step, except   *)
(* apta_session_process, which is cut where the cancellation flag, set by  *)
(* any thread at any time, is read, and at every chunk of PCM.  How a      *)
(* result is published to concurrent readers is module ResultPool; here a  *)
(* publication either replaces the current result or fails for want of a   *)
(* result slot (bounded) or of memory.                                     *)
(***************************************************************************)
EXTENDS RequestScheduler

CONSTANTS
    Pull,              \* input_mode is APTA_INPUT_MODE_PULL
    Workspace,         \* the session lives in a caller-owned static workspace
    Bounded,           \* choices of APTA_SESSION_FLAG_BOUNDED_RESULT_SLOTS
    TrackFrames,       \* length of the source
    FramesPerColumn,   \* overview_frames_per_column
    ProcessChunk,      \* APTA_INTERNAL_PROCESS_CHUNK_FRAMES
    InitialCapacity,   \* accumulators of the first allocation (16)
    MaxRequests,       \* APTA_INTERNAL_MAX_REGION_REQUESTS
    Regions,           \* requests the host may make: first, end, priority, deadline
    Foci,              \* focus records the host may set
    MaxFailures        \* bound: allocations and publications that fail in a run

ASSUME SessionAssumption ==
    /\ Pull \in BOOLEAN /\ Workspace \in BOOLEAN /\ Bounded \subseteq BOOLEAN
    /\ TRUE \in Bounded => Workspace
    /\ TrackFrames \in Nat \ {0}
    /\ FramesPerColumn \in Nat \ {0}
    /\ ProcessChunk \in Nat \ {0}
    /\ InitialCapacity \in Nat \ {0}
    /\ MaxRequests \in Nat
    /\ MaxFailures \in Nat
    /\ Regions \subseteq [first : Nat, end : Nat, priority : Nat, deadline : Nat]
    /\ \A r \in Regions : r.first < r.end
    /\ Foci \subseteq [playhead : Nat, behind : Nat, ahead : Nat, priority : Nat]

(* Arithmetic that the provers lack; TLC evaluates it.                     *)
ASSUME PowersOfTwo == \A k \in 0 .. TrackFrames : 2^k \in Nat /\ k < 2^k

VARIABLES
    state,              \* session->state
    cancel_requested,   \* session->cancel_requested
    total_frames,       \* config.total_frames
    bounded,            \* whether results are in slots, sized by the length
    final_end_frame,    \* Unknown until end_of_input_signalled is set with it
    has_pull_source,    \* a pull source is attached
    accepted,           \* frames covered by accepted_ranges
    pcm_queue,          \* the linked list from pcm_head
    accumulators,       \* columns that have an overview accumulator
    sample_count,       \* of each column's accumulator
    complete,           \* columns whose accumulator is marked complete
    capacity,           \* overview_accumulator_capacity
    requests,           \* the request slots in use
    focus,              \* the playback focus
    published,          \* the current result: state, columns, total
    failures,           \* failures so far, at most MaxFailures
    pc,                 \* where the host is inside apta_session_process
    completed_before,   \* overview_complete_count when the work began
    did_work,           \* a chunk was analysed in this call
    selected            \* request whose node headed the queue

lifeVars == <<state, published, failures>>
lengthVars == <<total_frames, final_end_frame, bounded>>
inputVars == <<accepted, pcm_queue>>
overviewVars == <<accumulators, sample_count, complete, capacity>>
steeringVars == <<requests, focus>>
callVars == <<pc, completed_before, did_work, selected>>
vars == <<lifeVars, lengthVars, inputVars, overviewVars, steeringVars, callVars,
          cancel_requested, has_pull_source>>

Live == {"CREATED", "ACTIVE", "DRAINING"}
Terminal == {"COMPLETED", "CANCELLED", "FAILED"}

Frames == 0 .. TrackFrames - 1
Column(f) == f \div FramesPerColumn
Columns == {Column(f) : f \in Frames}
ColumnFrames(c) == {f \in Frames : Column(f) = c}

MaximumAcceptedEnd == IF accepted = {} THEN 0
                      ELSE 1 + CHOOSE f \in accepted : \A g \in accepted : g <= f
GreatestAcceptedEnd == SmallestOf({f \in 0 .. TrackFrames : f \notin accepted})

(* End of the call: the process lock is released, the locals are gone.     *)
Leave ==
    /\ pc' = "idle"
    /\ completed_before' = 0
    /\ did_work' = FALSE
    /\ selected' = NoRequest
Goto(label) == pc' = label /\ UNCHANGED <<completed_before, did_work, selected>>

Init ==
    /\ state = "CREATED"
    /\ cancel_requested = FALSE
    /\ total_frames \in {Unknown, TrackFrames}
    /\ bounded \in Bounded
    /\ bounded => total_frames # Unknown
    /\ final_end_frame = Unknown
    /\ has_pull_source = FALSE
    /\ accepted = {}
    /\ pcm_queue = <<>>
    /\ accumulators = {}
    /\ sample_count = [c \in Columns |-> 0]
    /\ complete = {}
    /\ capacity = 0
    /\ requests = <<>>
    /\ focus = NoFocus
    /\ published = [state |-> "CREATED", columns |-> {}, total |-> total_frames]
    /\ failures = 0
    /\ pc = "idle"
    /\ completed_before = 0
    /\ did_work = FALSE
    /\ selected = NoRequest

--------------------------------------------------------------------------------
(* Publication and state transitions.                                      *)

Result(new_state, total) == [state |-> new_state, columns |-> complete, total |-> total]

MutantPendingForgotten == complete
PendingColumns == {}

(* A publication fails.  Ordinary sessions then forget every completion    *)
(* mark, so that the next process call finds the columns complete again    *)
(* and retries; bounded ones do so only for an overview publication.       *)
PublicationFails(overview_changed) ==
    /\ failures < MaxFailures
    /\ failures' = failures + 1
    /\ complete' = IF bounded /\ ~overview_changed THEN complete ELSE PendingColumns
    /\ UNCHANGED <<published, accumulators, sample_count, capacity>>

(* apta_internal_session_transition: the state is stored, then published,  *)
(* and restored when the publication fails.                                *)
TransitionSucceeds(new_state) ==
    /\ state' = new_state
    /\ published' = Result(new_state, total_frames)
    /\ UNCHANGED <<failures, overviewVars>>

MutantNotRestored(new_state) ==
    PublicationFails(FALSE) /\ state' = new_state

TransitionFails(new_state) ==
    PublicationFails(FALSE) /\ UNCHANGED state

--------------------------------------------------------------------------------
(* PCM input.                                                              *)

MutantOverlapAccepted(first, count) == count

(* apta_nonoverlapping_prefix of at most MaxPush frames.                   *)
AcceptablePrefix(first, count) ==
    LET stops == {f \in accepted : f >= first} \cup {first + Smaller(count, MaxPush)}
    IN  SmallestOf(stops) - first

(* The node for n frames is halved until it can be allocated; no frame at  *)
(* all is accepted when even one frame cannot be held.                     *)
AllocatedCounts(n) == {m \in 0 .. n : m = 0 \/ \E k \in 0 .. n : m = n \div 2^k}

Accept(first, n) ==
    /\ accepted' = accepted \cup (first .. first + n - 1)
    /\ pcm_queue' = IF n = 0 THEN pcm_queue
                    ELSE Append(pcm_queue, [first |-> first, frames |-> n, processed |-> 0])

(* apta_session_push_pcm of a well-formed block: it stays inside a known   *)
(* length, and a created session becomes active first.                     *)
PushPcm(first, count) ==
    /\ ~Pull
    /\ pc = "idle"
    /\ state \in {"CREATED", "ACTIVE"}
    /\ total_frames # Unknown => first + count <= total_frames
    /\ UNCHANGED <<lengthVars, steeringVars, callVars, cancel_requested, has_pull_source>>
    /\ \/ /\ state = "CREATED"
          /\ TransitionFails("ACTIVE")
          /\ UNCHANGED inputVars
       \/ /\ IF state = "CREATED" THEN TransitionSucceeds("ACTIVE")
             ELSE UNCHANGED <<lifeVars, overviewVars>>
          /\ \E n \in AllocatedCounts(AcceptablePrefix(first, count)) : Accept(first, n)

MutantEndBeforeAccepted(end) == total_frames \in {Unknown, end}

EndIsAcceptable(end) ==
    /\ total_frames \in {Unknown, end}
    /\ MaximumAcceptedEnd <= end

(* apta_internal_session_signal_end_of_input that is not refused: a        *)
(* created session becomes active, then the length is set and the session  *)
(* drains; when that publication fails the length is put back.             *)
EndIsSignalled(end) ==
    /\ state \in {"CREATED", "ACTIVE"}
    /\ EndIsAcceptable(end)
    /\ state' = "DRAINING"
    /\ published' = Result("DRAINING", end)
    /\ total_frames' = end
    /\ final_end_frame' = end
    /\ UNCHANGED <<bounded, failures, overviewVars>>

EndIsRolledBack(end) ==
    /\ state \in {"CREATED", "ACTIVE"}
    /\ EndIsAcceptable(end)
    /\ \/ state = "CREATED" /\ TransitionFails("ACTIVE")
       \/ state = "ACTIVE" /\ TransitionFails("DRAINING")
       \/ /\ state = "CREATED"
          /\ state' = "ACTIVE"
          /\ published' = Result("ACTIVE", total_frames)
          /\ failures < MaxFailures
          /\ failures' = failures + 1
          /\ complete' = IF bounded THEN complete ELSE PendingColumns
          /\ UNCHANGED <<accumulators, sample_count, capacity>>
    /\ UNCHANGED lengthVars

SignalEndOfInput(end) ==
    /\ ~Pull
    /\ pc = "idle"
    /\ EndIsSignalled(end) \/ EndIsRolledBack(end)
    /\ UNCHANGED <<inputVars, steeringVars, callVars, cancel_requested, has_pull_source>>

(* apta_session_set_source with a source that may or may not know its      *)
(* length.                                                                 *)
SetSource(source_total) ==
    /\ Pull
    /\ pc = "idle"
    /\ state = "CREATED"
    /\ source_total # Unknown => total_frames \in {Unknown, source_total}
    /\ total_frames' = IF source_total = Unknown THEN total_frames ELSE source_total
    /\ has_pull_source' = TRUE
    /\ UNCHANGED <<lifeVars, final_end_frame, bounded, inputVars, overviewVars, steeringVars,
                   callVars, cancel_requested>>

--------------------------------------------------------------------------------
(* Steering by the host, and cancellation by any thread.                   *)

RequestRegion(region) ==
    /\ pc = "idle"
    /\ Len(requests) < MaxRequests
    /\ requests' = Append(requests,
           [first |-> region.first, end |-> region.end, priority |-> region.priority,
            deadline |-> region.deadline, state |-> "QUEUED", skips |-> 0])
    /\ UNCHANGED <<lifeVars, lengthVars, inputVars, overviewVars, focus, callVars,
                   cancel_requested, has_pull_source>>

CancelRegionRequest(i) ==
    /\ pc = "idle"
    /\ requests' = [requests EXCEPT ![i].state = "CANCELLED"]
    /\ UNCHANGED <<lifeVars, lengthVars, inputVars, overviewVars, focus, callVars,
                   cancel_requested, has_pull_source>>

SetFocus(f) ==
    /\ pc = "idle"
    /\ total_frames # Unknown => f.playhead <= total_frames
    /\ focus' = f
    /\ UNCHANGED <<lifeVars, lengthVars, inputVars, overviewVars, requests, callVars,
                   cancel_requested, has_pull_source>>

RequestCancel ==
    /\ cancel_requested' = TRUE
    /\ UNCHANGED <<lifeVars, lengthVars, inputVars, overviewVars, steeringVars,
                   callVars, has_pull_source>>

Target == DemandTarget(requests, focus, total_frames, GreatestAcceptedEnd)
HasDemand == MissingFrames(accepted, Target) # {}

(* apta_session_next_pcm_request by the host, when it answers OK: only the *)
(* ages of the requests change.                                            *)
NextPcmRequest ==
    /\ pc = "idle"
    /\ HasDemand
    /\ requests' = NoteChoice(requests, Demand(accepted, Target).id)
    /\ UNCHANGED <<lifeVars, lengthVars, inputVars, overviewVars, focus, callVars,
                   cancel_requested, has_pull_source>>

--------------------------------------------------------------------------------
(* apta_session_process.                                                   *)

(* A pull session that sees no cancellation asks its source first.         *)
StartProcess ==
    /\ pc = "idle"
    /\ Goto(IF Pull /\ ~cancel_requested THEN "pull" ELSE "enter")
    /\ UNCHANGED <<lifeVars, lengthVars, inputVars, overviewVars, steeringVars,
                   cancel_requested, has_pull_source>>

PullRefused ==
    /\ pc = "pull"
    /\ ~has_pull_source \/ state \in {"CANCELLED", "FAILED"}
    /\ Leave
    /\ UNCHANGED <<lifeVars, lengthVars, inputVars, overviewVars, steeringVars,
                   cancel_requested, has_pull_source>>

PullNotNeeded ==
    /\ pc = "pull"
    /\ has_pull_source
    /\ \/ state \in {"DRAINING", "COMPLETED"}
       \/ state \in {"CREATED", "ACTIVE"} /\ pcm_queue # <<>>
    /\ Goto("enter")
    /\ UNCHANGED <<lifeVars, lengthVars, inputVars, overviewVars, steeringVars,
                   cancel_requested, has_pull_source>>

MayPull ==
    /\ pc = "pull"
    /\ has_pull_source
    /\ state \in {"CREATED", "ACTIVE"}
    /\ pcm_queue = <<>>

(* No demand: the input of a track of known length ends here.              *)
PullFindsNoDemand ==
    /\ MayPull
    /\ ~HasDemand
    /\ \/ total_frames = Unknown /\ Goto("enter")
          /\ UNCHANGED <<lifeVars, lengthVars, overviewVars>>
       \/ total_frames # Unknown /\ EndIsSignalled(total_frames) /\ Goto("enter")
       \/ total_frames # Unknown /\ EndIsRolledBack(total_frames) /\ Leave
    /\ UNCHANGED <<inputVars, steeringVars, cancel_requested, has_pull_source>>

(* The decision is noted before the source is called.                      *)
DemandIsNoted ==
    /\ MayPull
    /\ HasDemand
    /\ requests' = NoteChoice(requests, Demand(accepted, Target).id)

SourceBlocks ==
    /\ DemandIsNoted
    /\ Goto("enter")
    /\ UNCHANGED <<lifeVars, lengthVars, inputVars, overviewVars, focus,
                   cancel_requested, has_pull_source>>

(* END_OF_INPUT from a source of unknown length, asked at its end.         *)
SourceEnds ==
    /\ DemandIsNoted
    /\ total_frames = Unknown
    /\ Demand(accepted, Target).first = TrackFrames
    /\ \/ EndIsSignalled(TrackFrames) /\ Goto("enter")
       \/ EndIsRolledBack(TrackFrames) /\ Leave
    /\ UNCHANGED <<inputVars, focus, cancel_requested, has_pull_source>>

(* A callback error, a malformed block, or END_OF_INPUT before the known   *)
(* length.                                                                 *)
SourceFails ==
    /\ DemandIsNoted
    /\ TransitionSucceeds("FAILED") \/ TransitionFails("FAILED")
    /\ Leave
    /\ UNCHANGED <<lengthVars, inputVars, focus, cancel_requested, has_pull_source>>

(* A block of count frames, at most what was demanded.                     *)
SourceDelivers(count) ==
    /\ DemandIsNoted
    /\ Demand(accepted, Target).first + count <= Smaller(Demand(accepted, Target).end, TrackFrames)
    /\ \/ /\ state = "CREATED"
          /\ TransitionFails("ACTIVE")
          /\ UNCHANGED inputVars
          /\ Leave
       \/ /\ IF state = "CREATED" THEN TransitionSucceeds("ACTIVE")
             ELSE UNCHANGED <<lifeVars, overviewVars>>
          /\ \E n \in AllocatedCounts(AcceptablePrefix(Demand(accepted, Target).first, count)) :
                 Accept(Demand(accepted, Target).first, n)
          /\ Goto("enter")
    /\ UNCHANGED <<lengthVars, focus, cancel_requested, has_pull_source>>

MutantCancelIgnored == FALSE
CancelIsSeen == cancel_requested

MutantCancelOverridesTerminal ==
    /\ pc = "enter"
    /\ CancelIsSeen
    /\ TransitionSucceeds("CANCELLED") \/ TransitionFails("CANCELLED")
    /\ Leave
    /\ UNCHANGED <<lengthVars, inputVars, steeringVars, cancel_requested, has_pull_source>>

(* Cancellation is honoured at the entry; terminal states stay.            *)
EnterCancelled ==
    /\ pc = "enter"
    /\ CancelIsSeen
    /\ IF state \in Live
       THEN TransitionSucceeds("CANCELLED") \/ TransitionFails("CANCELLED")
       ELSE UNCHANGED <<lifeVars, overviewVars>>
    /\ Leave
    /\ UNCHANGED <<lengthVars, inputVars, steeringVars, cancel_requested, has_pull_source>>

EnterTerminal ==
    /\ pc = "enter"
    /\ ~CancelIsSeen
    /\ state \in Terminal
    /\ Leave
    /\ UNCHANGED <<lifeVars, lengthVars, inputVars, overviewVars, steeringVars,
                   cancel_requested, has_pull_source>>

QueuedFrames == UNION {NodeFirst(pcm_queue[i]) .. NodeEnd(pcm_queue[i]) - 1 :
                          i \in DOMAIN pcm_queue}
QueuedColumns == {Column(f) : f \in QueuedFrames}

(* Capacity doubles from InitialCapacity until n accumulators fit.         *)
GrownCapacity(n) ==
    IF n <= capacity THEN capacity
    ELSE SmallestOf({c \in {InitialCapacity * 2^k : k \in 0 .. n} : c >= n})

MutantExpectedIgnoresEnd(c) == FramesPerColumn
MutantExpectedOneShort(c) ==
    IF final_end_frame = Unknown THEN FramesPerColumn - 1
    ELSE Cardinality({f \in ColumnFrames(c) : f < final_end_frame})

ExpectedFrames(c) ==
    IF final_end_frame = Unknown THEN FramesPerColumn
    ELSE Cardinality({f \in ColumnFrames(c) : f < final_end_frame})

(* apta_refresh_completed_columns, on the counts given.                    *)
Refreshed(present, counts) ==
    complete \cup {c \in present : ExpectedFrames(c) # 0 /\ counts[c] = ExpectedFrames(c)}

(* The queue is sorted, a workspace session reserves every accumulator the *)
(* queue needs, and the marks are refreshed.                               *)
EnterWork ==
    /\ pc = "enter"
    /\ ~CancelIsSeen
    /\ state \in Live
    /\ pcm_queue' = SortQueue(pcm_queue, requests, focus)
    /\ selected' = IF pcm_queue = <<>> THEN NoRequest
                   ELSE NodeScore(pcm_queue'[1], requests, focus).id
    /\ capacity' = IF Workspace THEN GrownCapacity(Cardinality(accumulators \cup QueuedColumns))
                   ELSE capacity
    /\ completed_before' = Cardinality(complete)
    /\ complete' = Refreshed(accumulators, sample_count)
    /\ did_work' = FALSE
    /\ pc' = "work"
    /\ UNCHANGED <<lifeVars, lengthVars, accepted, accumulators, sample_count, steeringVars,
                   cancel_requested, has_pull_source>>

(* The reservation fails: nothing but the order of the queue has changed.  *)
ReserveFails ==
    /\ pc = "enter"
    /\ ~CancelIsSeen
    /\ state \in Live
    /\ Workspace
    /\ Cardinality(accumulators \cup QueuedColumns) > capacity
    /\ failures < MaxFailures
    /\ failures' = failures + 1
    /\ pcm_queue' = SortQueue(pcm_queue, requests, focus)
    /\ Leave
    /\ UNCHANGED <<state, published, lengthVars, accepted, overviewVars, steeringVars,
                   cancel_requested, has_pull_source>>

(* The node under analysis and the frames of its next n.                   *)
Current == SelectNode(pcm_queue, requests, focus)
ChunkFrames(n) == NodeFirst(pcm_queue[Current]) .. NodeFirst(pcm_queue[Current]) + n - 1
FullChunk == Smaller(pcm_queue[Current].frames - pcm_queue[Current].processed, ProcessChunk)

Counted(chunk) ==
    [c \in Columns |-> sample_count[c] + Cardinality({f \in chunk : Column(f) = c})]

MutantNodeKept(i, n) == [pcm_queue EXCEPT ![i].processed = @ + n]

(* The queue after n frames of node i: a finished node is unlinked.        *)
QueueAfter(i, n) ==
    IF pcm_queue[i].processed + n = pcm_queue[i].frames
    THEN SubSeq(pcm_queue, 1, i - 1) \o SubSeq(pcm_queue, i + 1, Len(pcm_queue))
    ELSE [pcm_queue EXCEPT ![i].processed = @ + n]

(* One turn of the loop.  A chunk shorter than a full one has exhausted    *)
(* the frame limit of the budget, which ends the loop.                     *)
AnalyseChunk(n) ==
    /\ pc = "work"
    /\ pcm_queue # <<>>
    /\ n <= FullChunk
    /\ accumulators' = accumulators \cup {Column(f) : f \in ChunkFrames(n)}
    /\ sample_count' = Counted(ChunkFrames(n))
    /\ capacity' = GrownCapacity(Cardinality(accumulators'))
    /\ complete' = Refreshed(accumulators', sample_count')
    /\ pcm_queue' = QueueAfter(Current, n)
    /\ did_work' = TRUE
    /\ pc' = IF n < FullChunk THEN "end" ELSE "work"
    /\ UNCHANGED <<lifeVars, lengthVars, accepted, steeringVars, completed_before, selected,
                   cancel_requested, has_pull_source>>

(* An ordinary session cannot allocate the accumulator of column c in the  *)
(* middle of a chunk of n frames: the frames before it have been counted,  *)
(* the node's position has not moved, and the call returns at once.        *)
AnalysisFails(n, c) ==
    /\ pc = "work"
    /\ ~Workspace
    /\ pcm_queue # <<>>
    /\ n <= FullChunk
    /\ c \in {Column(f) : f \in ChunkFrames(n)} \ accumulators
    /\ LET before == {f \in ChunkFrames(n) : Column(f) < c}
           present == accumulators \cup {Column(f) : f \in before}
       IN  /\ Cardinality(present) + 1 > GrownCapacity(Cardinality(present))
           /\ accumulators' = present
           /\ sample_count' = Counted(before)
           /\ capacity' = GrownCapacity(Cardinality(present))
    /\ failures < MaxFailures
    /\ failures' = failures + 1
    /\ Leave
    /\ UNCHANGED <<state, published, complete, lengthVars, inputVars, steeringVars,
                   cancel_requested, has_pull_source>>

RequestColumns(request) == Column(request.first) .. Column(request.end - 1)

MutantSatisfiedByOutput(request) ==
    IF RequestColumns(request) \cap complete # {} THEN "SATISFIED" ELSE "WAITING_FOR_PCM"

RequestState(request) ==
    IF RequestColumns(request) \subseteq complete THEN "SATISFIED"
    ELSE IF RequestColumns(request) \cap complete # {} THEN "PARTIALLY_SATISFIED"
    ELSE "WAITING_FOR_PCM"

(* apta_update_request_states.                                             *)
UpdatedRequests ==
    [i \in DOMAIN requests |->
        IF IsActive(requests[i])
        THEN [requests[i] EXCEPT !.state = RequestState(requests[i])]
        ELSE requests[i]]

(* After the loop, which ends when the queue is empty or, with at least    *)
(* one chunk done, when the budget is used up: requests are brought up to  *)
(* date, and a changed number of complete columns is published.            *)
WorkIsOver == pc = "end" \/ (pc = "work" /\ (did_work \/ pcm_queue = <<>>))
ColumnsChanged == Cardinality(complete) # completed_before

EndWork ==
    /\ WorkIsOver
    /\ published' = IF ColumnsChanged THEN Result(state, total_frames) ELSE published
    /\ requests' = IF did_work THEN NoteChoice(UpdatedRequests, selected) ELSE UpdatedRequests
    /\ Goto("finish")
    /\ UNCHANGED <<state, failures, lengthVars, inputVars, overviewVars, focus,
                   cancel_requested, has_pull_source>>

EndWorkFails ==
    /\ WorkIsOver
    /\ ColumnsChanged
    /\ PublicationFails(TRUE)
    /\ requests' = UpdatedRequests
    /\ Leave
    /\ UNCHANGED <<state, lengthVars, inputVars, focus, cancel_requested, has_pull_source>>

MutantDrainedAfterWork == state = "DRAINING" /\ pcm_queue = <<>> /\ did_work
IsDrained == state = "DRAINING" /\ pcm_queue = <<>>

(* A drained session whose queue is empty is completed.                    *)
Finish ==
    /\ pc = "finish"
    /\ IF IsDrained
       THEN TransitionSucceeds("COMPLETED") \/ TransitionFails("COMPLETED")
       ELSE UNCHANGED <<lifeVars, overviewVars>>
    /\ Leave
    /\ UNCHANGED <<lengthVars, inputVars, steeringVars, cancel_requested, has_pull_source>>

--------------------------------------------------------------------------------
HostNext ==
    \/ \E first \in Frames : \E count \in 1 .. TrackFrames - first : PushPcm(first, count)
    \/ \E end \in 0 .. TrackFrames : SignalEndOfInput(end)
    \/ \E source_total \in {Unknown, TrackFrames} : SetSource(source_total)
    \/ \E region \in Regions : RequestRegion(region)
    \/ \E i \in DOMAIN requests : CancelRegionRequest(i)
    \/ \E f \in Foci : SetFocus(f)
    \/ NextPcmRequest

PullNext ==
    \/ PullRefused \/ PullNotNeeded \/ PullFindsNoDemand \/ SourceBlocks
    \/ SourceEnds \/ SourceFails
    \/ \E count \in 1 .. MaxPush : SourceDelivers(count)

WorkNext ==
    \/ EnterCancelled \/ EnterTerminal \/ EnterWork \/ ReserveFails
    \/ \E n \in 1 .. ProcessChunk : AnalyseChunk(n)
    \/ \E n \in 1 .. ProcessChunk : \E c \in Columns : AnalysisFails(n, c)
    \/ EndWork \/ EndWorkFails \/ Finish

ProcessNext == StartProcess \/ PullNext \/ WorkNext

Next == HostNext \/ RequestCancel \/ ProcessNext

Spec == Init /\ [][Next]_vars

(* The host keeps calling apta_session_process and each call returns.      *)
FairSpec == Spec /\ WF_vars(ProcessNext)

--------------------------------------------------------------------------------
Node == [first : Frames, frames : 1 .. TrackFrames, processed : 0 .. TrackFrames]
RequestStates == {"QUEUED", "WAITING_FOR_PCM", "PARTIALLY_SATISFIED", "SATISFIED", "CANCELLED"}

TypeOK ==
    /\ state \in Live \cup Terminal
    /\ cancel_requested \in BOOLEAN
    /\ total_frames \in {Unknown} \cup 0 .. TrackFrames
    /\ final_end_frame \in {Unknown} \cup 0 .. TrackFrames
    /\ has_pull_source \in BOOLEAN
    /\ bounded \in Bounded
    /\ accepted \subseteq Frames
    /\ pcm_queue \in Seq(Node)
    /\ \A i \in DOMAIN pcm_queue : pcm_queue[i].processed < pcm_queue[i].frames
    /\ accumulators \subseteq Columns
    /\ sample_count \in [Columns -> Nat]
    /\ complete \subseteq accumulators
    /\ capacity \in Nat
    /\ Cardinality(accumulators) <= capacity
    /\ Len(requests) <= MaxRequests
    /\ \A i \in DOMAIN requests : requests[i].state \in RequestStates
                                /\ requests[i].skips \in 0 .. MaxSkips
    /\ focus \in Foci \cup {NoFocus}
    /\ published \in [state : Live \cup Terminal, columns : SUBSET Columns,
                      total : {Unknown} \cup 0 .. TrackFrames]
    /\ failures \in 0 .. MaxFailures
    /\ pc \in {"idle", "pull", "enter", "work", "end", "finish"}
    /\ completed_before \in Nat
    /\ did_work \in BOOLEAN
    /\ selected \in Nat

--------------------------------------------------------------------------------
(* Properties. *)

Analysed == accepted \ QueuedFrames
InputFrames(c) == {f \in ColumnFrames(c) : final_end_frame = Unknown \/ f < final_end_frame}

(* Every accepted frame is either still queued, in exactly one node, or    *)
(* has been counted exactly once in its column, across partial acceptance, *)
(* out-of-order blocks, budgets that stop inside a node and failed calls.  *)
FramesCountedOnce ==
    /\ QueuedFrames \subseteq accepted
    /\ \A i, j \in DOMAIN pcm_queue : i # j =>
           ~Overlap(NodeFirst(pcm_queue[i]), NodeEnd(pcm_queue[i]),
                    NodeFirst(pcm_queue[j]), NodeEnd(pcm_queue[j]))
    /\ \A c \in Columns : sample_count[c] = Cardinality(Analysed \cap ColumnFrames(c))

(* "A column MUST NOT claim coverage for PCM that was not available to the *)
(* analyser" (specification/waveform.md, 28): all of the input of every    *)
(* published column has been accepted and analysed.                        *)
PublishedIsCovered ==
    \A c \in published.columns : InputFrames(c) \subseteq Analysed

(* The current result carries the state of the session between any two     *)
(* calls, also after a transition whose publication failed.                *)
ResultMatchesState == published.state = state

(* A completed session has published every column that its accepted input  *)
(* fills, the last partial one included, whatever failed on the way.       *)
CompletedIsWhole ==
    state = "COMPLETED" =>
        published.columns =
            {c \in Columns : InputFrames(c) # {} /\ InputFrames(c) \subseteq accepted}

(* Between two calls, a column that the result lacks is not marked         *)
(* complete, so the next process call that finds it full publishes it: a   *)
(* failed publication never costs a column its turn.                       *)
RetryIsArmed == pc = "idle" => complete \subseteq published.columns

(* The end of input, once known, is one: the configured length, the final  *)
(* frame and the published length agree, no accepted PCM lies beyond it,   *)
(* and a session drains only with it; an end whose publication failed      *)
(* leaves no trace.                                                        *)
EndIsAgreed ==
    /\ final_end_frame # Unknown =>
           /\ total_frames = final_end_frame
           /\ published.total = final_end_frame
           /\ MaximumAcceptedEnd <= final_end_frame
    /\ state \in {"DRAINING", "COMPLETED"} => final_end_frame # Unknown
    /\ state \in {"CREATED", "ACTIVE"} => final_end_frame = Unknown

(* A request is reported satisfied only when all the input of every column *)
(* of its region has been analysed.                                        *)
SatisfiedIsAnalysed ==
    \A i \in DOMAIN requests :
        requests[i].state = "SATISFIED" =>
            \A c \in RequestColumns(requests[i]) :
                c \in Columns /\ InputFrames(c) # {} /\ InputFrames(c) \subseteq Analysed

(* A terminal session keeps its last result, whatever is called on it.     *)
TerminalIsFinal ==
    [][(state \in Terminal) => UNCHANGED <<state, published, accepted>>]_vars

(* A draining session ends while the host keeps calling process and the    *)
(* failures are transient.                                                 *)
DrainingEnds == state = "DRAINING" ~> state \in {"COMPLETED", "CANCELLED"}

(* A cancellation requested at any moment ends the session, whether or not *)
(* a source is attached, delivers or blocks.                               *)
CancelEnds == cancel_requested ~> state \in Terminal

(* Every column whose input has been accepted is published, unless the     *)
(* session is cancelled or fails, although publications fail on the way.   *)
ColumnsAreDelivered ==
    \A c \in Columns :
        Cardinality(ColumnFrames(c)) = FramesPerColumn /\ ColumnFrames(c) \subseteq accepted
            ~> c \in published.columns \/ state \in {"CANCELLED", "FAILED"}

(* "For a known-length source, the core automatically enters draining once *)
(* every required source range has been accepted"                          *)
(* (docs/api/APTA-PCM-PULL-0.1.md, 70).                                    *)
PullDrainsWhenAllAccepted ==
    [][state' = "DRAINING" /\ state # "DRAINING" =>
            accepted' = 0 .. total_frames' - 1]_vars

================================================================================
