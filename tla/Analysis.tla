------------------------------ MODULE Analysis ------------------------------
(***************************************************************************)
(* The cooperative analysis of a session: the onset ring and tempo engine  *)
(* S4 (apta_s4.c, apta_s4_process.c) and the global beat grid engine S6    *)
(* (apta_s6.c, apta_s6_process.c), as they share the steps of one          *)
(* apta_session_process call.                                              *)
(*                                                                         *)
(* A frame that is pushed is counted in a bin of each ring; a bin that is  *)
(* complete is evidence.  Each engine freezes the longest run of complete  *)
(* bins, scans it in steps spread over any number of process calls, and    *)
(* commits what it found in a last step.  A commit may find that evidence  *)
(* has moved meanwhile: the engine then calls itself again.  The steps of  *)
(* a process call are actions of this module, one per invocation of a      *)
(* refresh function and per publication, so that a call that never returns *)
(* is visible.                                                             *)
(*                                                                         *)
(* The arithmetic (flux, correlation, refinement, confidence) is left out: *)
(* what an estimate of S4 finds is a nondeterministic choice between no    *)
(* tempo, a weak one (confidence below 50) and a strong one, and the beat  *)
(* phase; what a window of S6 finds is no tempo or one of Tempos.          *)
(***************************************************************************)
EXTENDS Integers, FiniteSets, FiniteSetsExt

CONSTANTS
    TrackFrames,     \* final_end_frame
    OnsetFrames,     \* APTA_INTERNAL_ONSET_FRAMES_PER_BIN
    OnsetCapacity,   \* APTA_INTERNAL_ONSET_BIN_CAPACITY
    GlobalFrames,    \* APTA_INTERNAL_GLOBAL_FRAMES_PER_BIN
    GlobalCapacity,  \* APTA_INTERNAL_GLOBAL_BIN_CAPACITY
    MinBins,         \* APTA_INTERNAL_MIN_TEMPO_BINS
    StableBins,      \* APTA_INTERNAL_STABLE_TEMPO_BINS
    MinNewBins,      \* APTA_INTERNAL_S4_REFRESH_MIN_NEW_BINS
    GlobalMinNewBins, \* APTA_INTERNAL_S6_REFRESH_MIN_NEW_BINS
    GlobalMinBins,   \* APTA_INTERNAL_GLOBAL_MIN_BINS
    WindowBins,      \* APTA_INTERNAL_GLOBAL_WINDOW_BINS
    LagGroups,       \* correlation steps of one S4 generation
    Lag,             \* the beat period found, in onset bins
    Tempos,          \* tempos of a window of S6, over 1.5 BPM apart
    Budgets,         \* values of maximum_steps; 0 is no limit
    Sustained,       \* those the host uses again and again
    Foci,            \* focus windows, as <<first, end>>
    NoFocus,
    LockRanges,      \* ranges a host may lock, none without grid locking
    Backward,        \* whether PCM may arrive in front of a frozen generation
    Skips,           \* frames the detail cache may have no tile for
    Gaps,            \* whether the end may be signalled with PCM missing
    MaxFailures      \* bound on failed publications

ASSUME AnalysisAssumption ==
    /\ {TrackFrames, OnsetFrames, OnsetCapacity, GlobalFrames, GlobalCapacity,
        MinBins, StableBins, MinNewBins, GlobalMinNewBins, GlobalMinBins,
        WindowBins, LagGroups, Lag} \subseteq Nat \ {0}
    /\ MinBins <= StableBins /\ StableBins <= OnsetCapacity
    /\ Budgets \subseteq Nat /\ Sustained \subseteq Budgets /\ MaxFailures \in Nat
    /\ {Backward, Gaps} \subseteq BOOLEAN

VARIABLES
    accepted,   \* frames of the source accepted so far
    queue,      \* 1 when the overview has a chunk of PCM to process, else 0
    session,    \* "active", "draining" or "completed"
    focus,      \* the focus window, or NoFocus
    onset,      \* onset_bins: slot -> [bin, count]; count 0 is unoccupied
    global,     \* global_bins of S6, likewise
    cache,      \* s4_evidence_first, _end, _valid, _dirty
    s4,         \* the S4 generation in progress and the cached estimate
    grid,       \* tempo_value and local_grid_segment
    s6,         \* the S6 generation in progress and the committed global grid
    changed4,   \* s4_mutation_serial /= s4_published_serial
    changed6,   \* mutation_serial /= published_serial of S6
    shown,      \* grid and S6 state in the latest published result
    call,       \* the process call in progress
    failures    \* publications that failed so far

rings == <<onset, global>>
vars == <<accepted, queue, session, focus, rings, cache, s4, grid, s6, changed4,
          changed6, shown, call, failures>>

Frames == 0..(TrackFrames - 1)
Unlimited == 1000           \* UINT32_MAX steps
DepthBound == 2             \* recursive calls counted at most
Ended == session # "active" \* end_of_input_signalled

-----------------------------------------------------------------------------
(* Bins and evidence.                                                      *)

Smaller(a, b) == IF a <= b THEN a ELSE b
Larger(a, b) == IF a >= b THEN a ELSE b

(* Samples a bin must have to be complete: fewer for the last bin once the *)
(* end is known.                                                           *)
ExpectedBinSamples(b, size, ended) ==
    IF ~ended \/ (b + 1) * size <= TrackFrames
    THEN size
    ELSE Larger(0, TrackFrames - b * size)

CompleteBins(ring, size, ended) ==
    {ring[k].bin : k \in {x \in DOMAIN ring :
        ring[x].count # 0
        /\ ring[x].count = ExpectedBinSamples(ring[x].bin, size, ended)}}

(* The longest run of consecutive bins of S, the first one of equals, as   *)
(* [first, end); end = first when there is none.                           *)
LongestRun(S) ==
    LET runs == {r \in S \X {b + 1 : b \in S} :
                    r[1] < r[2] /\ r[1]..(r[2] - 1) \subseteq S}
    IN IF S = {} THEN <<0, 0>>
       ELSE CHOOSE r \in runs : \A q \in runs :
                \/ r[2] - r[1] > q[2] - q[1]
                \/ r[2] - r[1] = q[2] - q[1] /\ r[1] <= q[1]

(* The scan of the onset ring looks only at the last OnsetCapacity bins.   *)
ScannedRun ==
    LET complete == CompleteBins(onset, OnsetFrames, Ended)
    IN LongestRun({b \in complete : b > Max(complete) - OnsetCapacity})

(* apta_s4_find_evidence: the cached run, unless the end was signalled or  *)
(* the cache cannot be trusted.                                            *)
FindEvidence ==
    IF ~Ended /\ cache.valid /\ ~cache.dirty
    THEN <<cache.first, cache.end>>
    ELSE ScannedRun

(* ...and what the search leaves in the cache.                             *)
CacheAfterFind(ev) ==
    IF ev[2] > ev[1]
    THEN [first |-> ev[1], end |-> ev[2], valid |-> TRUE, dirty |-> FALSE]
    ELSE [cache EXCEPT !.valid = FALSE, !.dirty = FALSE]

FindGlobalEvidence == LongestRun(CompleteBins(global, GlobalFrames, Ended))

(* A slot of the onset ring passes to another bin.                         *)
MutantNoteBinReplaced(c, b) ==
    IF ~c.valid \/ c.dirty \/ b <= c.first \/ b >= c.end THEN c
    ELSE [c EXCEPT !.dirty = TRUE]
NoteBinReplaced(c, b) ==
    IF ~c.valid \/ c.dirty \/ b < c.first \/ b >= c.end THEN c
    ELSE IF b = c.first
         THEN [c EXCEPT !.first = @ + 1, !.valid = c.first + 1 # c.end]
         ELSE [c EXCEPT !.dirty = TRUE]

(* A bin of the onset ring becomes complete.                               *)
NoteBinComplete(c, b) ==
    IF c.dirty THEN c
    ELSE IF ~c.valid
         THEN [first |-> b, end |-> b + 1, valid |-> TRUE, dirty |-> FALSE]
    ELSE IF b = c.end THEN [c EXCEPT !.end = @ + 1]
    ELSE IF b + 1 = c.first THEN [c EXCEPT !.first = b]
    ELSE [c EXCEPT !.dirty = b < c.first \/ b >= c.end]

(* One sample counted in its bin, which takes its slot from another bin.   *)
Counted(ring, size, f) ==
    LET b == f \div size
        k == b % Cardinality(DOMAIN ring)
    IN [ring EXCEPT ![k] =
            [bin |-> b, count |-> IF @.count # 0 /\ @.bin = b THEN @.count + 1 ELSE 1]]

-----------------------------------------------------------------------------
(* Ranges of the local grid.                                               *)

EvidenceFrames(first, end) ==
    << first * OnsetFrames,
       IF Ended THEN Smaller(end * OnsetFrames, TrackFrames)
                ELSE end * OnsetFrames >>

RequestedRange(ev) == IF focus = NoFocus THEN ev ELSE focus

(* The requested range within the evidence, or the evidence itself.        *)
Applicability(ev) ==
    LET first == Larger(RequestedRange(ev)[1], ev[1])
        end == Smaller(RequestedRange(ev)[2], ev[2])
    IN IF end <= first THEN ev ELSE <<first, end>>

(* apta_s4_update_cached_ranges: a focus moves the ranges of the committed *)
(* grid without a new estimate.                                            *)
UpdateCachedRanges(g) ==
    IF g.state = "absent" THEN g
    ELSE [g EXCEPT !.requested = RequestedRange(g.evidence),
                   !.applicability = Applicability(g.evidence)]

-----------------------------------------------------------------------------
EmptySlot == [bin |-> 0, count |-> 0]
NoCall == [at |-> "idle", budget |-> 0, spent |-> 0, left |-> 0, used |-> 0,
           depth |-> 0]

Init ==
    /\ accepted = {} /\ queue = 0 /\ session = "active" /\ focus = NoFocus
    /\ onset = [k \in 0..(OnsetCapacity - 1) |-> EmptySlot]
    /\ global = [k \in 0..(GlobalCapacity - 1) |-> EmptySlot]
    /\ cache = [first |-> 0, end |-> 0, valid |-> FALSE, dirty |-> FALSE]
    /\ s4 = [active |-> FALSE, pending |-> FALSE, run |-> <<0, 0>>, groups |-> 0,
             refreshed |-> 0, of |-> <<0, 0>>, found |-> "none", phase |-> 0]
    /\ grid = [state |-> "absent", evidence |-> <<0, 0>>, requested |-> <<0, 0>>,
               applicability |-> <<0, 0>>, anchor |-> 0, locked |-> FALSE,
               revised |-> FALSE]
    /\ s6 = [stage |-> 0, pending |-> FALSE, run |-> <<0, 0>>, next |-> 0,
             found |-> {}, refreshed |-> 0, state |-> "absent",
             signature |-> {}, coverage |-> <<0, 0>>, revision |-> "none"]
    /\ changed4 = FALSE /\ changed6 = FALSE
    /\ shown = [grid |-> grid, state |-> "absent", signature |-> {},
                coverage |-> <<0, 0>>, revision |-> "none"]
    /\ call = NoCall
    /\ failures = 0

(* A result of a completed session has only final features, whatever the   *)
(* engines made of them...                                                 *)
Finalized(st, x) ==
    IF st = "completed" /\ x.state # "absent" THEN [x EXCEPT !.state = "final"] ELSE x

(* ...and this is what a publication copies into the result.               *)
View(st, g, s) == [grid |-> Finalized(st, g), state |-> Finalized(st, s).state,
                   signature |-> s.signature, coverage |-> s.coverage,
                   revision |-> s.revision]

Idle == call.at = "idle"

-----------------------------------------------------------------------------
(* Calls of the host between process calls.                                *)

(* A frame counted in both rings.                                          *)
Feed(f) ==
    /\ onset' = Counted(onset, OnsetFrames, f)
    /\ global' = Counted(global, GlobalFrames, f)
    /\ LET b == f \div OnsetFrames
           old == onset[b % OnsetCapacity]
           kept == IF old.count # 0 /\ old.bin # b
                   THEN NoteBinReplaced(cache, old.bin) ELSE cache
       IN cache' = IF onset'[b % OnsetCapacity].count
                        = ExpectedBinSamples(b, OnsetFrames, FALSE)
                   THEN NoteBinComplete(kept, b) ELSE kept

(* One frame of PCM, new to the session: it is queued for the overview and *)
(* fed to the rings, unless the detail cache has no tile for it, where the *)
(* feeding of its block ends.  A longer block is several of these.         *)
PushPcm(f) ==
    /\ Idle /\ session = "active" /\ f \notin accepted
    /\ Backward \/ ~s4.active \/ f >= s4.run[1] * OnsetFrames
    /\ accepted' = accepted \cup {f}
    /\ queue' = 1
    /\ Feed(f) \/ (f \in Skips /\ UNCHANGED <<rings, cache>>)
    /\ UNCHANGED <<session, focus, s4, grid, s6, changed4, changed6, shown, call,
                   failures>>

SignalEndOfInput ==
    /\ Idle /\ session = "active"
    /\ Gaps \/ accepted = Frames
    /\ session' = "draining"
    /\ shown' = View(session', grid, s6)
    /\ UNCHANGED <<accepted, queue, focus, rings, cache, s4, grid, s6, changed4,
                   changed6, call, failures>>

SetFocus(w) ==
    /\ Idle /\ focus # w
    /\ focus' = w
    /\ UNCHANGED <<accepted, queue, session, rings, cache, s4, grid, s6, changed4,
                   changed6, shown, call, failures>>

(* apta_session_lock_grid_range: everything is put back when the           *)
(* publication fails.                                                      *)
LockGridRange(r) ==
    /\ Idle /\ ~grid.locked /\ grid.state \in {"stable", "final"}
    /\ r[1] >= grid.applicability[1] /\ r[2] <= grid.applicability[2]
    /\ \/ /\ grid' = [grid EXCEPT !.locked = TRUE, !.applicability = r]
          /\ shown' = View(session, grid', s6) /\ changed4' = FALSE /\ UNCHANGED failures
       \/ /\ failures < MaxFailures /\ failures' = failures + 1
          /\ UNCHANGED <<grid, shown, changed4>>
    /\ UNCHANGED <<accepted, queue, session, focus, rings, cache, s4, s6,
                   changed6, call>>

(* apta_session_apply_grid_revision: the locked grid takes the proposed    *)
(* segment; when the publication fails the serials stay ahead, and the     *)
(* next process call publishes.                                            *)
ApplyGridRevision ==
    /\ Idle /\ s6.revision = "pending"
    /\ grid' = [grid EXCEPT !.revised = ~@]
    /\ s6' = [s6 EXCEPT !.revision = "applied"]
    /\ \/ /\ shown' = View(session, grid', s6')
          /\ changed4' = FALSE /\ changed6' = FALSE /\ UNCHANGED failures
       \/ /\ failures < MaxFailures /\ failures' = failures + 1
          /\ changed4' = TRUE /\ changed6' = TRUE /\ UNCHANGED shown
    /\ UNCHANGED <<accepted, queue, session, focus, rings, cache, s4, call>>

-----------------------------------------------------------------------------
(* A process call: the overview, the S4 refresh, its publication, the S6   *)
(* refresh, its publication, and the end of a drained session.             *)

(* The step limit S4 is given: half of what the overview left, for S6 is   *)
(* downstream.                                                             *)
ShareOfS4(n, spent) ==
    IF n = 0 THEN Unlimited
    ELSE IF n - spent > 1 THEN (n - spent) \div 2 ELSE n - spent

Process(n) ==
    /\ Idle /\ session # "completed"
    /\ queue' = 0
    /\ IF queue = 1 THEN shown' \in {shown, View(session, grid, s6)} ELSE UNCHANGED shown
    /\ call' = [at |-> "s4", budget |-> n, spent |-> queue,
                left |-> ShareOfS4(n, queue), used |-> 0, depth |-> 0]
    /\ UNCHANGED <<accepted, session, focus, rings, cache, s4, grid, s6, changed4,
                   changed6, failures>>

(* An invocation of a refresh function returns after used steps...         *)
Return(at, used) ==
    call' = [call EXCEPT !.at = at, !.spent = @ + used, !.used = 0, !.depth = 0]

(* ...or calls itself with the steps that are left.                        *)
Recurse(at, used) ==
    call' = [call EXCEPT !.at = at, !.spent = @ + used, !.left = @ - used,
                         !.used = 0, !.depth = Smaller(@ + 1, DepthBound)]

(* The end of a refresh that committed: evidence that moved meanwhile is   *)
(* followed at once while steps are left.                                  *)
Follow(self, next, pending, used) ==
    IF pending /\ used < call.left THEN Recurse(self, used) ELSE Return(next, used)

InS4 == call.at = "s4" /\ ~grid.locked

(* A grid whose ranges or value changed must be published.                 *)
Mutated(new) ==
    \/ new.state # grid.state \/ new.evidence # grid.evidence
    \/ new.requested # grid.requested \/ new.applicability # grid.applicability

SetGrid(new) ==
    /\ grid' = new
    /\ changed4' = (changed4 \/ Mutated(new))

S4Frame == UNCHANGED <<accepted, queue, session, focus, rings, s6, changed6, shown,
                       failures>>

S4Locked ==
    /\ call.at = "s4" /\ grid.locked
    /\ s4' = [s4 EXCEPT !.active = FALSE, !.pending = FALSE, !.run = <<0, 0>>,
                        !.groups = 0]
    /\ SetGrid(IF Ended THEN [grid EXCEPT !.state = "final"] ELSE grid)
    /\ Return("publish4", 0)
    /\ UNCHANGED cache /\ S4Frame

(* Whether the evidence calls for an estimate, and the tracker it leaves.  *)
EstimateWanted(ev) ==
    \/ ev[2] < s4.refreshed
    \/ Ended /\ grid.state # "final"
    \/ ev[2] >= s4.refreshed + MinNewBins
RefreshedAfterGate(ev) == IF ev[2] < s4.refreshed THEN 0 ELSE s4.refreshed

EnoughEvidence(ev) == ev[2] - ev[1] >= MinBins

S4Skip(ev) ==
    /\ InS4 /\ ~s4.active
    /\ ~EnoughEvidence(ev) \/ (~EstimateWanted(ev) /\ s4.refreshed = 0)
    /\ SetGrid(UpdateCachedRanges(grid))
    /\ cache' = CacheAfterFind(ev)
    /\ Return("publish4", 0)
    /\ UNCHANGED s4 /\ S4Frame

S4Defer(ev) ==
    /\ InS4 /\ ~s4.active /\ EnoughEvidence(ev) /\ EstimateWanted(ev) /\ call.left = 0
    /\ s4' = [s4 EXCEPT !.pending = TRUE, !.refreshed = RefreshedAfterGate(ev)]
    /\ SetGrid(UpdateCachedRanges(grid))
    /\ cache' = CacheAfterFind(ev)
    /\ Return("publish4", 0)
    /\ S4Frame

(* The flux of the run is computed and the generation frozen: one step.    *)
S4Start(ev) ==
    /\ InS4 /\ ~s4.active /\ EnoughEvidence(ev) /\ EstimateWanted(ev) /\ call.left > 0
    /\ s4' = [s4 EXCEPT !.active = TRUE, !.pending = FALSE, !.run = ev,
                        !.groups = LagGroups, !.refreshed = RefreshedAfterGate(ev)]
    /\ SetGrid(UpdateCachedRanges(grid))
    /\ cache' = CacheAfterFind(ev)
    /\ call' = [call EXCEPT !.used = 1]
    /\ S4Frame

(* The steps end before the last group of lags or before the commit.       *)
S4Yield ==
    /\ InS4 /\ s4.active /\ call.used + s4.groups >= call.left
    /\ LET n == Smaller(s4.groups, call.left - call.used)
       IN /\ s4' = [s4 EXCEPT !.groups = @ - n]
          /\ Return("publish4", call.used + n)
    /\ SetGrid(UpdateCachedRanges(grid))
    /\ UNCHANGED cache /\ S4Frame

(* The grid an estimate gives over a run of bins.                          *)
Estimated(run, found, phase) ==
    LET ev == EvidenceFrames(run[1], run[2])
        stable == run[2] - run[1] >= StableBins /\ found = "strong"
    IN [grid EXCEPT
            !.state = IF stable /\ Ended /\ ev = <<0, TrackFrames>> THEN "final"
                      ELSE IF stable THEN "stable" ELSE "provisional",
            !.evidence = ev,
            !.requested = RequestedRange(ev),
            !.applicability = Applicability(ev),
            !.anchor = (run[1] + phase) % Lag]

(* Evidence that has moved since the generation was frozen.                *)
MutantEvidenceMoved(ev, run) ==
    /\ ev[2] > ev[1]
    /\ \/ ev[1] <= run[1]
       \/ ev[2] < run[2]
       \/ Ended /\ ev # run
       \/ ev[2] >= run[2] + MinNewBins
EvidenceMoved(ev, run) ==
    /\ ev[2] > ev[1]
    /\ \/ ev[1] < run[1]
       \/ ev[2] < run[2]
       \/ Ended /\ ev # run
       \/ ev[2] >= run[2] + MinNewBins

(* The last step of a generation.  An estimate over the run of the last    *)
(* one finds the same again.                                               *)
S4Commit(ev, found, phase) ==
    /\ InS4 /\ s4.active /\ call.used + s4.groups < call.left
    /\ s4.run = s4.of => found = s4.found /\ phase = s4.phase
    /\ LET used == call.used + s4.groups + 1
       IN /\ s4' = [s4 EXCEPT !.active = FALSE, !.groups = 0, !.of = s4.run,
                              !.run = <<0, 0>>, !.refreshed = s4.run[2],
                              !.found = found, !.phase = phase,
                              !.pending = EvidenceMoved(ev, s4.run)]
          /\ IF found = "none"
             THEN /\ SetGrid(UpdateCachedRanges(grid))
                  /\ Return("publish4", used)
             ELSE /\ SetGrid(Estimated(s4.run, found, phase))
                  /\ Follow("s4", "publish4", EvidenceMoved(ev, s4.run), used)
    /\ cache' = CacheAfterFind(ev)
    /\ S4Frame

(* No new estimate: the cached one is applied to the current evidence.     *)
S4Gated(ev) ==
    /\ InS4 /\ ~s4.active /\ EnoughEvidence(ev) /\ ~EstimateWanted(ev) /\ s4.refreshed # 0
    /\ IF s4.found = "none"
       THEN SetGrid(UpdateCachedRanges(grid)) /\ Return("publish4", 0)
       ELSE /\ SetGrid(Estimated(ev, s4.found, s4.phase))
            /\ Follow("s4", "publish4", s4.pending, 0)
    /\ cache' = CacheAfterFind(ev)
    /\ UNCHANGED s4 /\ S4Frame

(* A publication that fails ends the process call with its error.          *)
PublishS4 ==
    /\ call.at = "publish4"
    /\ LET enter == [call EXCEPT !.at = "s6",
                        !.left = IF call.budget = 0 THEN Unlimited
                                 ELSE Larger(0, call.budget - call.spent)]
       IN IF changed4 /\ grid.state # "absent"
          THEN \/ /\ shown' = View(session, grid, s6) /\ changed4' = FALSE
                  /\ call' = enter /\ UNCHANGED failures
               \/ /\ failures < MaxFailures /\ failures' = failures + 1
                  /\ call' = NoCall
                  /\ UNCHANGED <<shown, changed4>>
          ELSE call' = enter /\ UNCHANGED <<shown, changed4, failures>>
    /\ UNCHANGED <<accepted, queue, session, focus, rings, cache, s4, grid, s6,
                   changed6>>

-----------------------------------------------------------------------------
S6Frame == UNCHANGED <<accepted, queue, session, focus, rings, cache, s4, grid,
                       changed4, shown, failures>>

GlobalWanted(ev) ==
    /\ ev[2] - ev[1] >= GlobalMinBins
    /\ \/ ev[2] < s6.refreshed
       \/ Ended /\ s6.state # "final"
       \/ ev[2] >= s6.refreshed + GlobalMinNewBins

GlobalRefreshed(ev) ==
    IF ev[2] < s6.refreshed THEN 0 ELSE s6.refreshed

S6Skip(ev) ==
    /\ call.at = "s6" /\ s6.stage = 0 /\ ~GlobalWanted(ev)
    /\ s6' = [s6 EXCEPT !.pending = FALSE]
    /\ Return("publish6", 0)
    /\ UNCHANGED changed6 /\ S6Frame

S6Defer(ev) ==
    /\ call.at = "s6" /\ s6.stage = 0 /\ GlobalWanted(ev) /\ call.left = 0
    /\ s6' = [s6 EXCEPT !.pending = TRUE, !.refreshed = GlobalRefreshed(ev)]
    /\ Return("publish6", 0)
    /\ UNCHANGED changed6 /\ S6Frame

S6Start(ev) ==
    /\ call.at = "s6" /\ s6.stage = 0 /\ GlobalWanted(ev) /\ call.left > 0
    /\ s6' = [s6 EXCEPT !.stage = 1, !.pending = FALSE, !.run = ev,
                        !.next = ev[1], !.found = {},
                        !.refreshed = GlobalRefreshed(ev)]
    /\ call' = [call EXCEPT !.used = 1]
    /\ UNCHANGED changed6 /\ S6Frame

WindowsLeft == (s6.run[2] - s6.next + WindowBins - 1) \div WindowBins

(* What the next n windows may give: a tempo for some of them.             *)
Estimates(n) ==
    LET window(i) == [first |-> s6.next + i * WindowBins,
                      end |-> Smaller(s6.next + (i + 1) * WindowBins, s6.run[2])]
    IN UNION {{{[at |-> window(i), tempo |-> t[i]] : i \in I} : t \in [I -> Tempos]} :
              I \in SUBSET (0..(n - 1))}

(* One window per step.                                                    *)
S6Yield ==
    /\ call.at = "s6" /\ s6.stage = 1 /\ call.used + WindowsLeft >= call.left
    /\ LET n == Smaller(WindowsLeft, Larger(0, call.left - call.used))
       IN /\ \E found \in Estimates(n) :
                s6' = [s6 EXCEPT !.found = @ \cup found,
                                 !.next = Smaller(@ + n * WindowBins, s6.run[2])]
          /\ Return("publish6", call.used + n)
    /\ UNCHANGED changed6 /\ S6Frame

(* A range of bins of S6 in frames of the source.                          *)
GlobalRange(first, end) ==
    << first * GlobalFrames,
       IF Ended THEN Smaller(end * GlobalFrames, TrackFrames)
                ELSE end * GlobalFrames >>

(* The segments of the grid: a window whose tempo is not that of the one   *)
(* before it opens a segment, and extends the last one otherwise, over the *)
(* windows without a tempo between them.                                   *)
Segments(found) ==
    LET precedes(v, w) ==
            /\ v.at.first < w.at.first
            /\ \A u \in found : u.at.first \in v.at.first..w.at.first => u \in {v, w}
        opening == {w \in found : \A v \in found : precedes(v, w) => v.tempo # w.tempo}
        part(w) == {v \in found : \A u \in opening :
                        u.at.first > w.at.first => v.at.first < u.at.first}
    IN {[range |-> GlobalRange(w.at.first, Max({v.at.end : v \in part(w)})),
         tempo |-> w.tempo] : w \in opening}

GlobalMoved(ev) ==
    /\ ev[2] > ev[1]
    /\ \/ ev[1] < s6.run[1]
       \/ ev[2] < s6.run[2]
       \/ Ended /\ ev # s6.run
       \/ ev[2] >= s6.run[2] + GlobalMinNewBins

(* Whether a commit counts: its segments, its state or its revision is     *)
(* another, or it is the first.  Confidence and the ranges of evidence,    *)
(* applicability and coverage may move without being counted.              *)
MutantCommitCounts(new) ==
    s6.state = "absent" \/ new.signature # s6.signature \/ new.state # s6.state
CommitCounts(new) ==
    \/ s6.state = "absent" \/ new.signature # s6.signature
    \/ new.state # s6.state \/ new.revision # s6.revision

(* A generation that is over, and the grid that it commits.                *)
Scanned(ev) ==
    [s6 EXCEPT !.stage = 0, !.run = <<0, 0>>, !.next = 0, !.found = {},
               !.refreshed = s6.run[2], !.pending = GlobalMoved(ev)]
Committed(ev, found, tempo, conflict) ==
    LET range == GlobalRange(s6.run[1], s6.run[2])
    IN [Scanned(ev) EXCEPT
            !.state = IF Ended /\ s6.run[1] = 0 /\ s6.run[2] * GlobalFrames >= TrackFrames
                      THEN "final" ELSE "open",
            !.signature = IF found # {} THEN Segments(found)
                          ELSE {[range |-> range, tempo |-> tempo]},
            !.coverage = range,
            !.revision = IF conflict THEN "pending" ELSE "applied"]

(* The commit.  Without a window that has a tempo, the tempo of S4 stands  *)
(* in for the whole run; without that, nothing is committed.  Over a       *)
(* locked range that conflicts, the new grid is only proposed.             *)
S6Commit(ev, conflict) ==
    /\ call.at = "s6" /\ s6.stage = 1 /\ call.used + WindowsLeft < call.left
    /\ conflict => grid.locked
    /\ \E new \in Estimates(WindowsLeft), tempo \in Tempos :
        LET used == call.used + WindowsLeft + 1
            found == s6.found \cup new
        IN IF found # {} \/ grid.state # "absent"
           THEN /\ s6' = Committed(ev, found, tempo, conflict)
                /\ changed6' = (changed6 \/ CommitCounts(s6'))
                /\ Follow("s6", "publish6", GlobalMoved(ev), used)
           ELSE /\ s6' = Scanned(ev)
                /\ UNCHANGED changed6
                /\ Return("publish6", used)
    /\ S6Frame

PublishS6 ==
    /\ call.at = "publish6"
    /\ IF changed6
       THEN \/ /\ shown' = View(session, grid, s6) /\ changed6' = FALSE
               /\ call' = [call EXCEPT !.at = "finish"] /\ UNCHANGED failures
            \/ /\ failures < MaxFailures /\ failures' = failures + 1
               /\ call' = NoCall
               /\ UNCHANGED <<shown, changed6>>
       ELSE call' = [call EXCEPT !.at = "finish"] /\ UNCHANGED <<shown, changed6, failures>>
    /\ UNCHANGED <<accepted, queue, session, focus, rings, cache, s4, grid, s6,
                   changed4>>

-----------------------------------------------------------------------------
AnalysisPending == s4.active \/ s4.pending \/ s6.stage = 1 \/ s6.pending

(* The end of the process call: a drained session with nothing pending is  *)
(* completed, if that can be published.                                    *)
Finish ==
    /\ call.at = "finish"
    /\ IF session = "draining" /\ queue = 0 /\ ~AnalysisPending
       THEN \/ /\ session' = "completed" /\ shown' = View("completed", grid, s6)
               /\ UNCHANGED failures
            \/ /\ failures < MaxFailures /\ failures' = failures + 1
               /\ UNCHANGED <<session, shown>>
       ELSE UNCHANGED <<session, shown, failures>>
    /\ call' = NoCall
    /\ UNCHANGED <<accepted, queue, focus, rings, cache, s4, grid, s6, changed4,
                   changed6>>

Refresh ==
    \/ S4Locked \/ S4Yield \/ S6Yield
    \/ InS4 /\ \E ev \in {FindEvidence} :
        \/ S4Skip(ev) \/ S4Defer(ev) \/ S4Start(ev) \/ S4Gated(ev)
        \/ \E found \in {"none", "weak", "strong"}, phase \in 0..(Lag - 1) :
                S4Commit(ev, found, phase)
    \/ PublishS4
    \/ call.at = "s6" /\ \E ev \in {FindGlobalEvidence} :
        \/ S6Skip(ev) \/ S6Defer(ev) \/ S6Start(ev)
        \/ \E conflict \in BOOLEAN : S6Commit(ev, conflict)
    \/ PublishS6
    \/ Finish

HostCall ==
    \/ \E f \in Frames : PushPcm(f)
    \/ SignalEndOfInput
    \/ \E w \in Foci : SetFocus(w)
    \/ \E r \in LockRanges : LockGridRange(r)
    \/ ApplyGridRevision

Next == HostCall \/ Refresh \/ \E n \in Budgets : Process(n)

Spec == Init /\ [][Next]_vars

(* A call that has begun is executed, and the host keeps calling           *)
(* apta_session_process, with a budget of Sustained again and again, until *)
(* the session is completed.                                               *)
FairSpec ==
    Spec /\ WF_vars(Refresh) /\ SF_vars(\E n \in Sustained : Process(n))

-----------------------------------------------------------------------------
(* The cached run of evidence holds only bins that are in the ring and     *)
(* complete, whatever was pushed and in whatever order: an estimate never  *)
(* reads a bin that was replaced or that is still filling.                 *)
EvidenceIsComplete ==
    cache.valid /\ ~cache.dirty =>
        cache.first..(cache.end - 1) \subseteq CompleteBins(onset, OnsetFrames, Ended)

(* A refresh calls itself at most once: with the evidence standing still   *)
(* during a process call, the call returns after a bounded amount of work. *)
RefreshReturns == call.depth < DepthBound

(* What the two refresh functions keep of that.  S6 calls itself at most   *)
(* once.  A generation that S4 began because it called itself is over the  *)
(* evidence as it stands, so its commit does not find that it has moved:   *)
(* only the pass that reuses an estimate can follow itself again.          *)
FollowsOnce ==
    /\ call.at = "s6" => call.depth < DepthBound
    /\ (call.at = "s4" /\ call.depth > 0 /\ s4.active) =>
            ~EvidenceMoved(FindEvidence, s4.run)

(* Between process calls, unless a publication is still owed, the latest   *)
(* result shows the current grids: no focus, lock, revision or commit is   *)
(* left unpublished, and a lock that failed to publish leaves no trace.    *)
(* What no serial counts is left out: the anchor of the local grid, which  *)
(* an estimate over the same evidence may move, and the coverage of the    *)
(* global grid, which moves with evidence that adds nothing to its         *)
(* segments.  Its segments, state and revision are what must not lag.      *)
ButAnchor(g) == [g EXCEPT !.anchor = 0]
ButCoverage(v) == [v EXCEPT !.coverage = <<0, 0>>]
ShownIsCurrent ==
    Idle =>
        /\ ~changed4 => ButAnchor(shown.grid) = ButAnchor(Finalized(session, grid))
        /\ ~changed6 => ButCoverage([shown EXCEPT !.grid = Finalized(session, grid)])
                            = ButCoverage(View(session, grid, s6))

(* A global grid published as final carries no pending revision.           *)
FinalIsNotPending == shown.state = "final" => shown.revision # "pending"

(* A session that drains is completed.                                     *)
DrainedCompletes == session = "draining" ~> session = "completed"

=============================================================================
