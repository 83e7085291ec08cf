------------------------------- MODULE DetailCache -------------------------------
(***************************************************************************)
(* The detail waveform of a push session: a fixed number of resident tiles *)
(* fed while PCM is accepted, evicted in order of use under the protection *)
(* of requests and focus, filled again by replay of PCM the overview       *)
(* already owns, and published by the process call when its serial moved.  *)
(*                                                                         *)
(* A tile is ColumnsPerTile columns of FramesPerColumn frames.  The access *)
(* serials are only compared, so recency, the slots in order of last use,  *)
(* stands for them; the mutation and published serials are only compared   *)
(* for equality, so detail_due stands for their difference.  The overview  *)
(* layer below is module Session; here it accepts a prefix of a block and  *)
(* its part of the process call publishes, stays silent or fails.  Every   *)
(* request and focus of this module asks for the detail waveform only.     *)
(***************************************************************************)
EXTENDS RequestScheduler

CONSTANTS
    TrackFrames,       \* length of the source
    FramesPerColumn,   \* APTA_INTERNAL_DETAIL_FRAMES_PER_COLUMN
    ColumnsPerTile,    \* APTA_INTERNAL_DETAIL_COLUMNS_PER_TILE
    MaxTiles,          \* APTA_INTERNAL_MAX_DETAIL_TILES
    Blocks,            \* blocks the host pushes: records first, count
    Regions,           \* detail requests the host may make
    Foci,              \* focus records the host may set
    MaxRequests,       \* bound: requests made in a run
    MaxFailures        \* bound: publications that fail in a run

ASSUME DetailAssumption ==
    /\ TrackFrames \in Nat \ {0}
    /\ FramesPerColumn \in Nat \ {0}
    /\ ColumnsPerTile \in Nat \ {0}
    /\ MaxTiles \in Nat \ {0}
    /\ MaxPush % FramesPerColumn = 0
    /\ MaxRequests \in Nat /\ MaxFailures \in Nat
    /\ \A b \in Blocks : b.first \in Nat /\ b.count \in Nat /\ b.first + b.count <= TrackFrames
    /\ \A r \in Regions : r.first \in Nat /\ r.end \in Nat /\ r.priority \in Nat
    /\ \A f \in Foci : f.playhead \in Nat /\ f.behind \in Nat /\ f.ahead \in Nat

VARIABLES
    state,             \* session->state, from ACTIVE on
    total_frames,      \* config.total_frames
    final_end_frame,   \* Unknown until end_of_input_signalled
    accepted,          \* frames of accepted_ranges
    tiles,             \* detail_tiles, NoTile where not occupied
    recency,           \* occupied slots, least recently used first
    detail_due,        \* detail_mutation_serial # detail_published_serial
    requests,
    focus,
    published,         \* the tile views of the current result
    failures           \* publications that failed

cacheVars == <<tiles, recency, detail_due>>
inputVars == <<state, total_frames, final_end_frame, accepted>>
steeringVars == <<requests, focus>>
vars == <<cacheVars, inputVars, steeringVars, published, failures>>

NoTile == [index |-> -1]
NoSlot == 0
Slots == 1 .. MaxTiles
TileColumns == 0 .. ColumnsPerTile - 1
TileFrames == FramesPerColumn * ColumnsPerTile
TileOf(frame) == frame \div TileFrames
ColumnOf(frame) == (frame % TileFrames) \div FramesPerColumn
ColumnFirst(index, column) == index * TileFrames + column * FramesPerColumn

--------------------------------------------------------------------------------
(* Residency.                                                              *)

InFocus(first, end) ==
    focus # NoFocus /\ Overlap(first, end, FocusFirst(focus), FocusEnd(focus))

Protected(index) ==
    LET first == index * TileFrames
        end == first + TileFrames
    IN  \/ InFocus(first, end)
        \/ \E i \in ActiveIds(requests) : Overlap(first, end, requests[i].first, requests[i].end)

(* apta_detail_initialize_tile.  heard, the frames counted since, is a     *)
(* history field: the code only keeps the counts.                          *)
FreshTile(index) ==
    [index |-> index, sample_count |-> [c \in TileColumns |-> 0],
     complete |-> {}, run |-> {}, heard |-> {}]

MutantFirstSlotOnly(slots, index) == slots[1].index = index

HasTile(slots, index) == \E s \in Slots : slots[s].index = index

SlotOf(slots, index) == CHOOSE s \in Slots : slots[s].index = index

Oldest(order, S) ==
    order[SmallestOf({k \in DOMAIN order : order[k] \in S})]

MutantOldestVictim(cache, index) ==
    LET empty == {s \in Slots : cache.tiles[s] = NoTile}
    IN  IF empty # {} THEN SmallestOf(empty) ELSE Oldest(cache.recency, Slots)

(* The slot that a sample of a tile that is not resident goes to: an empty *)
(* one, else the oldest unprotected one; when all are protected, an        *)
(* unprotected newcomer is skipped and a protected one takes the oldest.   *)
VictimSlot(cache, index) ==
    LET empty == {s \in Slots : cache.tiles[s] = NoTile}
        unprotected == {s \in Slots \ empty : ~Protected(cache.tiles[s].index)}
    IN  IF empty # {} THEN SmallestOf(empty)
        ELSE IF unprotected # {} THEN Oldest(cache.recency, unprotected)
        ELSE IF ~Protected(index) THEN NoSlot
        ELSE Oldest(cache.recency, Slots)

MutantEvictionSilent(tile) == FALSE

(* Evicting a tile that has something published moves the mutation serial. *)
EvictionIsVisible(tile) == tile # NoTile /\ tile.run # {}

(* The access serial of a slot in use moves past every other.              *)
MostRecent(order, slot) ==
    LET at == CHOOSE k \in DOMAIN order : order[k] = slot
    IN  IF \A k \in DOMAIN order : order[k] # slot THEN Append(order, slot)
        ELSE [k \in DOMAIN order |->
                 IF k = Len(order) THEN slot ELSE order[IF k < at THEN k ELSE k + 1]]

CountSample(tile, frame) ==
    LET counts == [tile.sample_count EXCEPT ![ColumnOf(frame)] = @ + 1]
    IN  [tile EXCEPT !.sample_count = counts, !.heard = @ \cup {frame}]

(* apta_internal_detail_process_sample.  stopped is set when the sample    *)
(* found no slot (APTA_STATUS_NOT_AVAILABLE).                              *)
ProcessSample(cache, frame) ==
    LET index == TileOf(frame)
        hit == HasTile(cache.tiles, index)
        slot == IF hit THEN SlotOf(cache.tiles, index) ELSE VictimSlot(cache, index)
        tile == IF hit THEN cache.tiles[slot] ELSE FreshTile(index)
    IN  IF slot = NoSlot THEN [cache EXCEPT !.stopped = TRUE]
        ELSE [tiles |-> [cache.tiles EXCEPT ![slot] = CountSample(tile, frame)],
              recency |-> MostRecent(cache.recency, slot),
              due |-> cache.due \/ (~hit /\ EvictionIsVisible(cache.tiles[slot])),
              stopped |-> FALSE]

(* The n frames from first on, one after another.  A push breaks off at    *)
(* the first sample without a slot, a replay carries on after it.          *)
FeedFrames(first, n, replay) ==
    LET Fed[k \in 0 .. n] ==
            IF k = 0
            THEN [tiles |-> tiles, recency |-> recency, due |-> detail_due, stopped |-> FALSE]
            ELSE IF Fed[k - 1].stopped /\ ~replay THEN Fed[k - 1]
            ELSE ProcessSample(Fed[k - 1], first + k - 1)
    IN  Fed[n]

--------------------------------------------------------------------------------
(* Completion of columns and the run a tile shows.                         *)

MutantExpectedOneShort(index, column, end) ==
    IF end = Unknown THEN FramesPerColumn - 1
    ELSE Cardinality({f \in 0 .. FramesPerColumn - 1 : ColumnFirst(index, column) + f < end})

ExpectedColumnFrames(index, column, end) ==
    IF end = Unknown THEN FramesPerColumn
    ELSE Cardinality({f \in 0 .. FramesPerColumn - 1 : ColumnFirst(index, column) + f < end})

ExpectedTileColumns(index, end) ==
    IF end = Unknown THEN ColumnsPerTile
    ELSE Cardinality({c \in TileColumns : ColumnFirst(index, c) < end})

Completed(tile, end) ==
    tile.complete \cup
        {c \in TileColumns :
            /\ ExpectedColumnFrames(tile.index, c, end) # 0
            /\ tile.sample_count[c] = ExpectedColumnFrames(tile.index, c, end)}

RunsWithin(columns) == {a .. b : a, b \in columns} \cap SUBSET columns

LongestRun(columns) ==
    LET Preferred(r, q) == \/ Cardinality(r) > Cardinality(q)
                           \/ /\ Cardinality(r) = Cardinality(q)
                              /\ SmallestOf(r) <= SmallestOf(q)
        runs == RunsWithin(columns) \ {{}}
    IN  IF runs = {} THEN {} ELSE CHOOSE r \in runs : \A q \in runs : Preferred(r, q)

(* A run that is shown only grows, through complete neighbours; the first  *)
(* run of a tile is its longest, the earliest of several.                  *)
SelectOrExtendRun(run, columns) ==
    IF run = {} THEN LongestRun(columns)
    ELSE UNION {r \in RunsWithin(columns) : run \subseteq r}

RefreshTile(tile, end) ==
    IF tile = NoTile THEN NoTile
    ELSE LET columns == Completed(tile, end)
         IN  [tile EXCEPT !.complete = columns,
                          !.run = SelectOrExtendRun(tile.run, columns)]

(* apta_internal_detail_refresh_completed: any run that changed moves the  *)
(* mutation serial.                                                        *)
RefreshCompleted(cache, end) ==
    LET refreshed == [s \in Slots |-> RefreshTile(cache.tiles[s], end)]
    IN  /\ tiles' = refreshed
        /\ recency' = cache.recency
        /\ detail_due' = \/ cache.due
                         \/ \E s \in Slots : cache.tiles[s] # NoTile
                                             /\ refreshed[s].run # cache.tiles[s].run

ThisCache == [tiles |-> tiles, recency |-> recency, due |-> detail_due]

--------------------------------------------------------------------------------
(* Publication: one view per tile that has a run.                          *)

View(tile, end) ==
    LET first == SmallestOf(tile.run)
        run_end == ColumnFirst(tile.index, first) + Cardinality(tile.run) * FramesPerColumn
    IN  [index |-> tile.index,
         columns |-> tile.run,
         end |-> IF end = Unknown THEN run_end ELSE Smaller(run_end, end),
         state |-> IF first = 0 /\ Cardinality(tile.run) = ExpectedTileColumns(tile.index, end)
                   THEN IF end = Unknown THEN "STABLE" ELSE "FINAL"
                   ELSE "PARTIAL"]

Views(slots, end) ==
    {View(slots[s], end) : s \in {r \in Slots : slots[r] # NoTile /\ slots[r].run # {}}}

PublicationFails ==
    /\ failures < MaxFailures
    /\ failures' = failures + 1
    /\ UNCHANGED published

--------------------------------------------------------------------------------
(* Demand.                                                                 *)

ColumnIsEmpty(column) ==
    LET index == column \div ColumnsPerTile
    IN  ~HasTile(tiles, index)
        \/ tiles[SlotOf(tiles, index)].sample_count[column % ColumnsPerTile] = 0

Window(id) ==
    LET first == IF id = NoRequest THEN FocusFirst(focus) ELSE requests[id].first
        end == IF id = NoRequest THEN FocusEnd(focus) ELSE requests[id].end
    IN  [id |-> id, first |-> first,
         end |-> IF total_frames = Unknown THEN end ELSE Smaller(end, total_frames)]

(* The selector of the replay file: highest priority, then first slot.     *)
BaseTarget ==
    IF ActiveIds(requests) = {} THEN NoRequest
    ELSE SmallestOf({i \in ActiveIds(requests) :
             \A j \in ActiveIds(requests) : requests[j].priority <= requests[i].priority})

(* The selector staged by the hardening file: the scheduler's ranking,     *)
(* aging and deadlines included.                                           *)
RankedTarget ==
    IF ActiveIds(requests) = {} THEN NoRequest
    ELSE Best({RequestScore(requests, i) : i \in ActiveIds(requests)}).id

HasWindow(id) ==
    /\ id # NoRequest \/ focus # NoFocus
    /\ Window(id).first < Window(id).end

DemandColumns(id) ==
    LET first == Window(id).first \div FramesPerColumn
        end == (Window(id).end + FramesPerColumn - 1) \div FramesPerColumn
        empty == {c \in first .. end - 1 : ColumnIsEmpty(c)}
        start == SmallestOf(empty)
        limit == start + MaxPush \div FramesPerColumn
    IN  IF empty = {} THEN {}
        ELSE start .. SmallestOf({c \in start .. Smaller(end, limit) : c \notin empty \/ c = limit}) - 1

(* The first empty columns of the target, as frames; {} stands for         *)
(* APTA_STATUS_NOT_AVAILABLE.                                              *)
DemandFrames(id) ==
    {f \in UNION {c * FramesPerColumn .. (c + 1) * FramesPerColumn - 1 :
                     c \in IF HasWindow(id) THEN DemandColumns(id) ELSE {}} :
        total_frames = Unknown \/ f < total_frames}

--------------------------------------------------------------------------------
Init ==
    /\ state = "ACTIVE"
    /\ total_frames \in {Unknown, TrackFrames}
    /\ final_end_frame = Unknown
    /\ accepted = {}
    /\ tiles = [s \in Slots |-> NoTile]
    /\ recency = <<>>
    /\ detail_due = FALSE
    /\ requests = <<>>
    /\ focus = NoFocus
    /\ published = {}
    /\ failures = 0

AcceptablePrefix(block) ==
    SmallestOf({f \in accepted : f >= block.first}
               \cup {block.first + Smaller(block.count, MaxPush)}) - block.first

(* A block whose first frame is new: the overview accepts n frames of it,  *)
(* fewer when memory is short, and the detail cache hears them.            *)
PushPcm(block, n) ==
    /\ state = "ACTIVE"
    /\ block.first \notin accepted
    /\ n \in {AcceptablePrefix(block), AcceptablePrefix(block) \div 2} \ {0}
    /\ accepted' = accepted \cup (block.first .. block.first + n - 1)
    /\ RefreshCompleted(FeedFrames(block.first, n, FALSE), final_end_frame)
    /\ UNCHANGED <<state, total_frames, final_end_frame, steeringVars, published, failures>>

ReplayIsAligned(block) ==
    /\ block.first % FramesPerColumn = 0
    /\ \/ (block.first + block.count) % FramesPerColumn = 0
       \/ block.first + block.count = total_frames

(* A block whose first frame the overview owns is a conflict, unless it    *)
(* answers the detail demand: then it is replayed into the cache alone.    *)
ReplayPcm(block) ==
    /\ state = "ACTIVE"
    /\ block.first \in accepted
    /\ ReplayIsAligned(block)
    /\ DemandFrames(BaseTarget) # {}
    /\ block.first = SmallestOf(DemandFrames(BaseTarget))
    /\ block.count <= Cardinality(DemandFrames(BaseTarget))
    /\ RefreshCompleted(FeedFrames(block.first, Smaller(block.count, MaxPush), TRUE),
                        final_end_frame)
    /\ UNCHANGED <<inputVars, steeringVars, published, failures>>

(* apta_session_next_pcm_request that finds a detail demand: a decision,   *)
(* so the requests passed over age.                                        *)
NextPcmRequest ==
    /\ DemandFrames(RankedTarget) # {}
    /\ requests' = NoteChoice(requests, RankedTarget)
    /\ UNCHANGED <<cacheVars, inputVars, focus, published, failures>>

SetFocus(new_focus) ==
    /\ total_frames # Unknown => new_focus.playhead <= total_frames
    /\ focus' = new_focus
    /\ UNCHANGED <<cacheVars, inputVars, requests, published, failures>>

RequestRegion(region) ==
    /\ Len(requests) < MaxRequests
    /\ requests' = Append(requests, [first |-> region.first, end |-> region.end,
                                     priority |-> region.priority, deadline |-> region.deadline,
                                     state |-> "QUEUED", skips |-> 0])
    /\ UNCHANGED <<cacheVars, inputVars, focus, published, failures>>

CancelRegionRequest(i) ==
    /\ requests' = [requests EXCEPT ![i].state = "CANCELLED"]
    /\ UNCHANGED <<cacheVars, inputVars, focus, published, failures>>

(* apta_session_signal_end_of_input: the drain publishes the runs as they  *)
(* are, clipped; when that fails the length is put back.                   *)
SignalEndOfInput(end) ==
    /\ state = "ACTIVE"
    /\ total_frames \in {Unknown, end}
    /\ \A f \in accepted : f < end
    /\ UNCHANGED <<accepted, cacheVars, steeringVars>>
    /\ \/ /\ state' = "DRAINING"
          /\ total_frames' = end
          /\ final_end_frame' = end
          /\ published' = Views(tiles, end)
          /\ UNCHANGED failures
       \/ /\ PublicationFails
          /\ UNCHANGED <<state, total_frames, final_end_frame>>

--------------------------------------------------------------------------------
(* The process call, with the overview layer below it.                     *)

RangeComplete(slots, first, end) ==
    \A c \in first \div FramesPerColumn .. (end - 1) \div FramesPerColumn :
        /\ HasTile(slots, c \div ColumnsPerTile)
        /\ c % ColumnsPerTile \in slots[SlotOf(slots, c \div ColumnsPerTile)].complete

RangeHasOutput(slots, first, end, final) ==
    \E v \in Views(slots, final) :
        Overlap(ColumnFirst(v.index, SmallestOf(v.columns)), v.end, first, end)

RequestState(request, slots) ==
    IF request.state \in {"CANCELLED", "FAILED"} THEN request.state
    ELSE IF RangeComplete(slots, request.first, request.end) THEN "SATISFIED"
    ELSE IF RangeHasOutput(slots, request.first, request.end, final_end_frame)
    THEN "PARTIALLY_SATISFIED"
    ELSE "WAITING_FOR_PCM"

UpdateRequestStates(slots, rows) ==
    [i \in DOMAIN rows |-> [rows[i] EXCEPT !.state = RequestState(rows[i], slots)]]

(* The overview below fails: it has set the states of the requests for its *)
(* own feature, and the detail layer returns before setting them right.    *)
ProcessFails ==
    /\ state \in {"ACTIVE", "DRAINING"}
    /\ PublicationFails
    /\ RefreshCompleted(ThisCache, final_end_frame)
    /\ \E reached \in {"WAITING_FOR_PCM", "PARTIALLY_SATISFIED", "SATISFIED"} :
           requests' = [i \in DOMAIN requests |->
                           IF IsActive(requests[i]) THEN [requests[i] EXCEPT !.state = reached]
                           ELSE requests[i]]
    /\ UNCHANGED <<inputVars, focus>>

(* A detail publication that fails returns before the serial is taken over.*)
DetailPublicationFails(cache_due) ==
    /\ detail_due' = cache_due
    /\ PublicationFails

(* Requests are brought up to date; the detail is published if it is due   *)
(* and the overview has not published already; a drained session completes *)
(* with a publication of its own.  Once it worked, the overview counted a  *)
(* decision for chosen among the requests it took for active.              *)
Process(overview_published, chosen, among) ==
    LET refreshed == [s \in Slots |-> RefreshTile(tiles[s], final_end_frame)]
        due == \/ detail_due
               \/ \E s \in Slots : refreshed[s] # NoTile /\ refreshed[s].run # tiles[s].run
        aged == [i \in DOMAIN requests |-> IF i \in among THEN NoteChoice(requests, chosen)[i]
                                           ELSE requests[i]]
    IN  /\ state \in {"ACTIVE", "DRAINING"}
        /\ tiles' = refreshed
        /\ requests' = UpdateRequestStates(refreshed, aged)
        /\ UNCHANGED <<recency, total_frames, final_end_frame, accepted, focus>>
        /\ \/ /\ due /\ ~overview_published
              /\ DetailPublicationFails(due)
              /\ UNCHANGED state
           \/ /\ published' = IF due \/ overview_published
                              THEN Views(refreshed, final_end_frame) ELSE published
              /\ detail_due' = FALSE
              /\ UNCHANGED state
              /\ \/ UNCHANGED failures
                 \/ state = "DRAINING" /\ failures < MaxFailures /\ failures' = failures + 1
           \/ /\ state = "DRAINING"
              /\ state' = "COMPLETED"
              /\ published' = Views(refreshed, final_end_frame)
              /\ detail_due' = FALSE
              /\ UNCHANGED failures

Next ==
    \/ \E b \in Blocks, n \in 1 .. MaxPush : PushPcm(b, n)
    \/ \E b \in Blocks : ReplayPcm(b)
    \/ NextPcmRequest
    \/ \E f \in Foci : SetFocus(f)
    \/ \E r \in Regions : RequestRegion(r)
    \/ \E i \in DOMAIN requests : CancelRegionRequest(i)
    \/ SignalEndOfInput(TrackFrames)
    \/ ProcessFails
    \/ \E overview_published \in BOOLEAN, chosen \in ActiveIds(requests) \cup {NoRequest},
          among \in SUBSET ActiveIds(requests) :
           Process(overview_published, chosen, among)

Spec == Init /\ [][Next]_vars

--------------------------------------------------------------------------------
Frames == 0 .. TrackFrames - 1
ColumnFrames(index, column) ==
    {f \in Frames : TileOf(f) = index /\ ColumnOf(f) = column}

(* The cache is well formed: slots hold distinct tiles and recency lists   *)
(* each occupied slot once (apta_internal_detail_tile_t).                  *)
TypeOK ==
    /\ state \in {"ACTIVE", "DRAINING", "COMPLETED"}
    /\ total_frames \in {Unknown, TrackFrames}
    /\ final_end_frame \in {Unknown, TrackFrames}
    /\ accepted \subseteq Frames
    /\ detail_due \in BOOLEAN
    /\ \A s \in Slots : tiles[s] # NoTile =>
           /\ tiles[s].index \in {TileOf(f) : f \in Frames}
           /\ tiles[s].run \subseteq tiles[s].complete
           /\ SlotOf(tiles, tiles[s].index) = s
    /\ {recency[k] : k \in DOMAIN recency} = {s \in Slots : tiles[s] # NoTile}
    /\ Len(recency) = Cardinality({s \in Slots : tiles[s] # NoTile})
    /\ failures \in 0 .. MaxFailures

(* A column that a tile shows was built from every frame of the source it  *)
(* stands for, whatever pushes, replays and evictions came before: the     *)
(* completion test of apta_internal_detail_refresh_completed only counts.  *)
ShownIsHeard ==
    \A s \in Slots : tiles[s] # NoTile =>
        \A c \in tiles[s].run : ColumnFrames(tiles[s].index, c) \subseteq tiles[s].heard

(* When no publication is due, the current result shows exactly the runs   *)
(* of the cache: no completion, eviction or failed publication is lost     *)
(* between the mutation and the published serial.                          *)
PublishedIsCurrent ==
    ~detail_due => published = Views(tiles, final_end_frame)

(* What a tile shows is not taken back while the tile stays: its run only   *)
(* grows.  It is withdrawn by an eviction alone, which makes a publication *)
(* due; and a protected tile is evicted only when the protected working    *)
(* set is larger than the cache, every tile that is resident afterwards    *)
(* being protected too (apta_detail_select_or_extend_run and               *)
(* apta_detail_find_or_create_tile).                                       *)
ShownIsKept ==
    [][\A s \in Slots : tiles[s] # NoTile =>
          \/ tiles'[s].index = tiles[s].index /\ tiles[s].run \subseteq tiles'[s].run
          \/ /\ tiles[s].run # {} => detail_due'
             /\ Protected(tiles[s].index) => \A r \in Slots : Protected(tiles'[r].index)]_vars

================================================================================
