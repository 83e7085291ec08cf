---------------------------- MODULE Analysis_proofs ----------------------------
(***************************************************************************)
(* Proofs about Analysis, for any source, rings, budgets and gates.        *)
(*                                                                         *)
(* Three arguments, each with an inductive invariant of its own: what the  *)
(* latest result shows (Currency), what the rings and the cached run of    *)
(* evidence hold (Evidence), and how often a refresh calls itself within a *)
(* process call (Following, which rests on Evidence).                      *)
(***************************************************************************)
EXTENDS Analysis, FiniteSetTheorems, TLAPS

-----------------------------------------------------------------------------
(* What the latest result shows.                                           *)

IsGrid(g) == g = [state |-> g.state, evidence |-> g.evidence, requested |-> g.requested,
                  applicability |-> g.applicability, anchor |-> g.anchor,
                  locked |-> g.locked, revised |-> g.revised]

IsS6(s) == s = [stage |-> s.stage, pending |-> s.pending, run |-> s.run, next |-> s.next,
                found |-> s.found, refreshed |-> s.refreshed, state |-> s.state,
                signature |-> s.signature, coverage |-> s.coverage,
                revision |-> s.revision]

IsShown(v) == v = [grid |-> v.grid, state |-> v.state, signature |-> v.signature,
                   coverage |-> v.coverage, revision |-> v.revision]

(* Everything of a local grid but its anchor.                              *)
SameGrid(g, h) ==
    /\ g.state = h.state /\ g.evidence = h.evidence /\ g.requested = h.requested
    /\ g.applicability = h.applicability /\ g.locked = h.locked /\ g.revised = h.revised

(* ...and of a global grid but its coverage.                               *)
SameGlobal(v, s) ==
    v.state = s.state /\ v.signature = s.signature /\ v.revision = s.revision

LocalIsShown ==
    /\ changed4 \in BOOLEAN /\ IsGrid(grid) /\ IsGrid(shown.grid)
    /\ ~changed4 => SameGrid(shown.grid, Finalized(session, grid))

GlobalIsShown ==
    /\ changed6 \in BOOLEAN /\ IsS6(s6) /\ IsShown(shown)
    /\ ~changed6 => SameGlobal(shown, Finalized(session, s6))

Currency == LocalIsShown /\ GlobalIsShown

(* A publication shows the grids as they are.                              *)
LEMMA ViewIsCurrent ==
    ASSUME NEW st, NEW g, NEW s, IsGrid(g), IsS6(s)
    PROVE  /\ IsShown(View(st, g, s)) /\ IsGrid(View(st, g, s).grid)
           /\ SameGrid(View(st, g, s).grid, Finalized(st, g))
           /\ SameGlobal(View(st, g, s), Finalized(st, s))
<1>1. IsGrid(Finalized(st, g))
  BY DEF IsGrid, Finalized
<1>2. IsS6(Finalized(st, s)) /\ Finalized(st, s).signature = s.signature
      /\ Finalized(st, s).revision = s.revision
  BY DEF IsS6, Finalized
<1> QED
  BY <1>1, <1>2 DEF View, IsShown, SameGrid, SameGlobal

(* A result that shows grids unchanged since, but for anchor and progress. *)
LEMMA ShownStays ==
    ASSUME NEW st, NEW g, NEW h, IsGrid(g), IsGrid(h), SameGrid(g, h)
    PROVE  SameGrid(Finalized(st, g), Finalized(st, h))
BY DEF IsGrid, SameGrid, Finalized

(* The calls of the refresh functions that set the local grid leave a      *)
(* grid, and leave lock and revision alone.                                *)
LEMMA RangesOfGrid ==
    ASSUME IsGrid(grid)
    PROVE  LET new == UpdateCachedRanges(grid)
           IN IsGrid(new) /\ new.locked = grid.locked /\ new.revised = grid.revised
BY DEF IsGrid, UpdateCachedRanges

LEMMA EstimateOfGrid ==
    ASSUME IsGrid(grid), NEW run, NEW found, NEW phase
    PROVE  LET new == Estimated(run, found, phase)
           IN IsGrid(new) /\ new.locked = grid.locked /\ new.revised = grid.revised
<1> DEFINE ev == EvidenceFrames(run[1], run[2])
           stable == run[2] - run[1] >= StableBins /\ found = "strong"
           state == IF stable /\ Ended /\ ev = <<0, TrackFrames>> THEN "final"
                    ELSE IF stable THEN "stable" ELSE "provisional"
           requested == RequestedRange(ev)
           applicability == Applicability(ev)
           anchor == (run[1] + phase) % Lag
           new == Estimated(run, found, phase)
<1>1. new = [grid EXCEPT !.state = state, !.evidence = ev, !.requested = requested,
                         !.applicability = applicability, !.anchor = anchor]
  BY DEF Estimated
<1> HIDE DEF ev, stable, state, requested, applicability, anchor, new
<1>2. new = [state |-> state, evidence |-> ev, requested |-> requested,
             applicability |-> applicability, anchor |-> anchor,
             locked |-> grid.locked, revised |-> grid.revised]
  BY <1>1 DEF IsGrid
<1>3. IsGrid(new) /\ new.locked = grid.locked /\ new.revised = grid.revised
  BY <1>2 DEF IsGrid
<1> QED
  BY <1>3 DEF new

(* A grid that is set without a serial is, but for its anchor, the grid.   *)
LEMMA SetGridKeepsLocal ==
    ASSUME LocalIsShown, NEW new, IsGrid(new), new.locked = grid.locked,
           new.revised = grid.revised, SetGrid(new), UNCHANGED <<session, shown>>
    PROVE  LocalIsShown'
<1>1. grid' = new /\ changed4' = (changed4 \/ Mutated(new)) /\ session' = session
      /\ shown' = shown /\ changed4 \in BOOLEAN
  BY DEF SetGrid, LocalIsShown
<1>2. Mutated(new) \in BOOLEAN
  BY DEF Mutated
<1>3. CASE ~changed4 /\ ~Mutated(new)
  <2>1. SameGrid(new, grid)
    BY <1>3 DEF Mutated, SameGrid
  <2>2. SameGrid(Finalized(session, new), Finalized(session, grid))
    BY <2>1, ShownStays DEF LocalIsShown
  <2> QED
    BY <1>1, <1>3, <2>2 DEF LocalIsShown, SameGrid
<1>4. CASE changed4 \/ Mutated(new)
  BY <1>1, <1>2, <1>4 DEF LocalIsShown
<1> QED
  BY <1>3, <1>4

(* Nothing of what a result shows changes.                                 *)
LEMMA CurrencyStays ==
    ASSUME Currency, UNCHANGED <<session, grid, s6, changed4, changed6, shown>>
    PROVE  Currency'
BY DEF Currency, LocalIsShown, GlobalIsShown

LEMMA LocalStays ==
    ASSUME LocalIsShown, UNCHANGED <<session, grid, changed4, shown>>
    PROVE  LocalIsShown'
BY DEF LocalIsShown

LEMMA GlobalStays ==
    ASSUME GlobalIsShown, UNCHANGED <<session, s6, changed6, shown>>
    PROVE  GlobalIsShown'
BY DEF GlobalIsShown

(* A publication that succeeds makes the result current, whatever serials  *)
(* it then resets.                                                         *)
LEMMA PublicationIsCurrent ==
    ASSUME IsGrid(grid'), IsS6(s6'), changed4' \in BOOLEAN, changed6' \in BOOLEAN,
           shown' = View(session', grid', s6')
    PROVE  Currency'
BY ViewIsCurrent DEF Currency, LocalIsShown, GlobalIsShown

-----------------------------------------------------------------------------
LEMMA InitCurrency == Init => Currency
<1> SUFFICES ASSUME Init PROVE Currency
  OBVIOUS
<1>1. IsGrid(grid) /\ IsS6(s6)
  BY DEF Init, IsGrid, IsS6
<1>2. shown = [grid |-> grid, state |-> "absent", signature |-> {},
               coverage |-> <<0, 0>>, revision |-> "none"]
  BY DEF Init
<1>3. grid.state = "absent" /\ s6.state = "absent" /\ s6.signature = {}
      /\ s6.revision = "none" /\ changed4 = FALSE /\ changed6 = FALSE
  BY DEF Init
<1> QED
  BY <1>1, <1>2, <1>3 DEF Currency, LocalIsShown, GlobalIsShown, IsShown, SameGrid,
     SameGlobal, Finalized

LEMMA HostKeepsCurrency == Currency /\ HostCall => Currency'
<1> SUFFICES ASSUME Currency, HostCall PROVE Currency'
  OBVIOUS
<1>0. IsGrid(grid) /\ IsS6(s6) /\ changed4 \in BOOLEAN /\ changed6 \in BOOLEAN
  BY DEF Currency, LocalIsShown, GlobalIsShown
<1>1. ASSUME NEW f \in Frames, PushPcm(f) PROVE Currency'
  BY <1>1, CurrencyStays DEF PushPcm
<1>2. CASE SignalEndOfInput
  BY <1>2, <1>0, PublicationIsCurrent DEF SignalEndOfInput
<1>3. ASSUME NEW w \in Foci, SetFocus(w) PROVE Currency'
  BY <1>3, CurrencyStays DEF SetFocus
<1>4. ASSUME NEW r \in LockRanges, LockGridRange(r) PROVE Currency'
  <2>1. CASE grid' = [grid EXCEPT !.locked = TRUE, !.applicability = r]
             /\ shown' = View(session, grid', s6) /\ changed4' = FALSE
    <3>1. IsGrid(grid')
      BY <1>0, <2>1 DEF IsGrid
    <3> QED
      BY <1>4, <1>0, <2>1, <3>1, PublicationIsCurrent DEF LockGridRange
  <2>2. CASE UNCHANGED <<grid, shown, changed4>>
    BY <1>4, <2>2, CurrencyStays DEF LockGridRange
  <2> QED
    BY <1>4, <2>1, <2>2 DEF LockGridRange
<1>5. CASE ApplyGridRevision
  <2>1. IsGrid(grid') /\ IsS6(s6') /\ session' = session
    BY <1>5, <1>0 DEF ApplyGridRevision, IsGrid, IsS6
  <2>2. CASE shown' = View(session, grid', s6') /\ changed4' = FALSE /\ changed6' = FALSE
    BY <2>1, <2>2, PublicationIsCurrent
  <2>3. CASE changed4' = TRUE /\ changed6' = TRUE /\ UNCHANGED shown
    BY <2>1, <2>3 DEF Currency, LocalIsShown, GlobalIsShown
  <2> QED
    BY <1>5, <2>2, <2>3 DEF ApplyGridRevision
<1> QED
  BY <1>1, <1>2, <1>3, <1>4, <1>5 DEF HostCall

(* The invocations of S4: the local grid is set, nothing is published.     *)
LEMMA S4KeepsCurrency ==
    ASSUME Currency, NEW new, IsGrid(new), new.locked = grid.locked,
           new.revised = grid.revised, SetGrid(new), S4Frame
    PROVE  Currency'
<1>1. LocalIsShown'
  BY SetGridKeepsLocal DEF Currency, S4Frame
<1>2. GlobalIsShown'
  BY GlobalStays DEF Currency, S4Frame
<1> QED
  BY <1>1, <1>2 DEF Currency

(* The invocations of S6: nothing is published, and what is not committed  *)
(* does not show.                                                          *)
LEMMA S6KeepsCurrency ==
    ASSUME Currency, S6Frame, changed6' = changed6, IsS6(s6'),
           s6'.state = s6.state, s6'.signature = s6.signature, s6'.revision = s6.revision
    PROVE  Currency'
<1>1. LocalIsShown'
  BY LocalStays DEF Currency, S6Frame
<1>2. SameGlobal(shown, Finalized(session, s6)) => SameGlobal(shown, Finalized(session, s6'))
  BY DEF Currency, GlobalIsShown, SameGlobal, Finalized, IsS6
<1>3. session' = session /\ shown' = shown
  BY DEF S6Frame
<1> QED
  BY <1>1, <1>2, <1>3 DEF Currency, GlobalIsShown

LEMMA EvidencePassKeepsCurrency ==
    ASSUME Currency, NEW ev, S4Skip(ev) \/ S4Defer(ev) \/ S4Start(ev) \/ S4Gated(ev)
    PROVE  Currency'
<1>0. IsGrid(grid)
  BY DEF Currency, LocalIsShown
<1>1. CASE SetGrid(UpdateCachedRanges(grid)) /\ S4Frame
  BY <1>0, <1>1, RangesOfGrid, S4KeepsCurrency
<1>2. CASE SetGrid(Estimated(ev, s4.found, s4.phase)) /\ S4Frame
  BY <1>0, <1>2, EstimateOfGrid, S4KeepsCurrency
<1> QED
  BY <1>1, <1>2 DEF S4Skip, S4Defer, S4Start, S4Gated

LEMMA S4CommitKeepsCurrency ==
    ASSUME Currency, NEW ev, NEW found, NEW phase, S4Commit(ev, found, phase)
    PROVE  Currency'
<1>0. IsGrid(grid)
  BY DEF Currency, LocalIsShown
<1>1. CASE SetGrid(UpdateCachedRanges(grid)) /\ S4Frame
  BY <1>0, <1>1, RangesOfGrid, S4KeepsCurrency
<1>2. CASE SetGrid(Estimated(s4.run, found, phase)) /\ S4Frame
  BY <1>0, <1>2, EstimateOfGrid, S4KeepsCurrency
<1> QED
  BY <1>1, <1>2 DEF S4Commit

LEMMA S6PassKeepsCurrency ==
    ASSUME Currency, NEW ev,
           S6Skip(ev) \/ S6Defer(ev) \/ S6Start(ev) \/ S6Yield
    PROVE  Currency'
<1>0. IsS6(s6)
  BY DEF Currency, GlobalIsShown
<1>1. S6Frame /\ changed6' = changed6
  BY DEF S6Skip, S6Defer, S6Start, S6Yield
<1>2. IsS6(s6') /\ s6'.state = s6.state /\ s6'.signature = s6.signature
      /\ s6'.revision = s6.revision
  BY <1>0 DEF S6Skip, S6Defer, S6Start, S6Yield, IsS6
<1> QED
  BY <1>1, <1>2, S6KeepsCurrency

(* What a commit does to the global grid: nothing that shows, or what is   *)
(* counted by the rule of CommitCounts.                                    *)
LEMMA CommitOutcome ==
    ASSUME IsS6(s6), NEW ev, NEW conflict, S6Commit(ev, conflict)
    PROVE  /\ IsS6(s6') /\ s6'.stage = 0
           /\ \/ /\ changed6' = changed6 /\ s6'.state = s6.state
                 /\ s6'.signature = s6.signature /\ s6'.revision = s6.revision
              \/ changed6' = (changed6 \/ CommitCounts(s6'))
<1>1. \/ s6' = Scanned(ev) /\ changed6' = changed6
      \/ \E found, tempo : /\ s6' = Committed(ev, found, tempo, conflict)
                          /\ changed6' = (changed6 \/ CommitCounts(s6'))
  BY DEF S6Commit
<1>2. IsS6(Scanned(ev)) /\ Scanned(ev).stage = 0 /\ Scanned(ev).state = s6.state
      /\ Scanned(ev).signature = s6.signature /\ Scanned(ev).revision = s6.revision
  <2> DEFINE pending == GlobalMoved(ev)
             refreshed == s6.run[2]
  <2>1. Scanned(ev) = [s6 EXCEPT !.stage = 0, !.run = <<0, 0>>, !.next = 0, !.found = {},
                                 !.refreshed = refreshed, !.pending = pending]
    BY DEF Scanned
  <2> HIDE DEF pending, refreshed
  <2> QED
    BY <2>1 DEF IsS6
<1>3. ASSUME NEW found, NEW tempo
      PROVE  /\ IsS6(Committed(ev, found, tempo, conflict))
             /\ Committed(ev, found, tempo, conflict).stage = 0
  <2>1. PICK state, signature, coverage, revision :
            Committed(ev, found, tempo, conflict) =
                [Scanned(ev) EXCEPT !.state = state, !.signature = signature,
                                    !.coverage = coverage, !.revision = revision]
    BY Zenon DEF Committed
  <2> QED
    BY <1>2, <2>1 DEF IsS6
<1> QED
  BY <1>1, <1>2, <1>3

LEMMA S6CommitKeepsCurrency ==
    ASSUME Currency, NEW ev, NEW conflict, S6Commit(ev, conflict)
    PROVE  Currency'
<1>0. IsS6(s6) /\ IsGrid(grid) /\ changed6 \in BOOLEAN
  BY DEF Currency, LocalIsShown, GlobalIsShown
<1>1. S6Frame
  BY DEF S6Commit
<1>2. IsS6(s6')
  BY <1>0, CommitOutcome
<1>3. CASE /\ changed6' = changed6 /\ s6'.state = s6.state
           /\ s6'.signature = s6.signature /\ s6'.revision = s6.revision
  BY <1>1, <1>2, <1>3, S6KeepsCurrency
<1>4. CASE changed6' = (changed6 \/ CommitCounts(s6'))
  <2>1. CommitCounts(s6') \in BOOLEAN
    BY DEF CommitCounts
  <2>2. changed6' \in BOOLEAN /\ (~changed6' => ~changed6 /\ ~CommitCounts(s6'))
    BY <1>0, <1>4, <2>1
  <2>3. session' = session /\ grid' = grid /\ shown' = shown
    BY <1>1 DEF S6Frame
  <2>4. LocalIsShown'
    BY <1>1, LocalStays DEF Currency, S6Frame
  <2>5. ASSUME ~changed6' PROVE SameGlobal(shown, Finalized(session, s6'))
    <3>1. SameGlobal(shown, Finalized(session, s6))
      BY <2>2, <2>5 DEF Currency, GlobalIsShown
    <3>2. s6'.state = s6.state /\ s6'.signature = s6.signature
          /\ s6'.revision = s6.revision
      BY <2>2, <2>5 DEF CommitCounts
    <3> QED
      BY <1>0, <1>2, <3>1, <3>2 DEF SameGlobal, Finalized, IsS6
  <2> QED
    BY <1>2, <2>2, <2>3, <2>4, <2>5 DEF Currency, GlobalIsShown
<1> QED
  BY <1>0, <1>3, <1>4, CommitOutcome

LEMMA RefreshKeepsCurrency == Currency /\ Refresh => Currency'
<1> SUFFICES ASSUME Currency, Refresh PROVE Currency'
  OBVIOUS
<1>0. IsGrid(grid) /\ IsS6(s6) /\ changed4 \in BOOLEAN /\ changed6 \in BOOLEAN
  BY DEF Currency, LocalIsShown, GlobalIsShown
<1>1. CASE S4Locked
  <2> DEFINE new == IF Ended THEN [grid EXCEPT !.state = "final"] ELSE grid
  <2>1. IsGrid(new) /\ new.locked = grid.locked /\ new.revised = grid.revised
    BY <1>0 DEF IsGrid
  <2>2. SetGrid(new) /\ S4Frame
    BY <1>1 DEF S4Locked
  <2> HIDE DEF new
  <2> QED
    BY <2>1, <2>2, S4KeepsCurrency
<1>2. CASE S4Yield
  BY <1>0, <1>2, RangesOfGrid, S4KeepsCurrency DEF S4Yield
<1>3. ASSUME NEW ev, S4Skip(ev) \/ S4Defer(ev) \/ S4Start(ev) \/ S4Gated(ev)
      PROVE  Currency'
  BY <1>3, EvidencePassKeepsCurrency
<1>4. ASSUME NEW ev, NEW found, NEW phase, S4Commit(ev, found, phase) PROVE Currency'
  BY <1>4, S4CommitKeepsCurrency
<1>5. CASE PublishS4
  <2>1. UNCHANGED <<session, grid, s6, changed6>>
    BY <1>5 DEF PublishS4
  <2>2. CASE shown' = View(session, grid, s6) /\ changed4' = FALSE
    BY <1>0, <2>1, <2>2, PublicationIsCurrent
  <2>3. CASE UNCHANGED <<shown, changed4>>
    BY <2>1, <2>3, CurrencyStays
  <2> QED
    BY <1>5, <2>2, <2>3 DEF PublishS4
<1>6. ASSUME NEW ev,
             S6Skip(ev) \/ S6Defer(ev) \/ S6Start(ev) \/ S6Yield
      PROVE  Currency'
  BY <1>6, S6PassKeepsCurrency
<1>7. ASSUME NEW ev, NEW conflict, S6Commit(ev, conflict)
      PROVE  Currency'
  BY <1>7, S6CommitKeepsCurrency
<1>8. CASE PublishS6
  <2>1. UNCHANGED <<session, grid, s6, changed4>>
    BY <1>8 DEF PublishS6
  <2>2. CASE shown' = View(session, grid, s6) /\ changed6' = FALSE
    BY <1>0, <2>1, <2>2, PublicationIsCurrent
  <2>3. CASE UNCHANGED <<shown, changed6>>
    BY <2>1, <2>3, CurrencyStays
  <2> QED
    BY <1>8, <2>2, <2>3 DEF PublishS6
<1>9. CASE Finish
  <2>1. UNCHANGED <<grid, s6, changed4, changed6>>
    BY <1>9 DEF Finish
  <2>2. CASE session' = "completed" /\ shown' = View("completed", grid, s6)
    BY <1>0, <2>1, <2>2, PublicationIsCurrent
  <2>3. CASE UNCHANGED <<session, shown>>
    BY <2>1, <2>3, CurrencyStays
  <2> QED
    BY <1>9, <2>2, <2>3 DEF Finish
<1>10. CASE InS4 /\ \E ev \in {FindEvidence} :
                \/ S4Skip(ev) \/ S4Defer(ev) \/ S4Start(ev) \/ S4Gated(ev)
                \/ \E found \in {"none", "weak", "strong"}, phase \in 0..(Lag - 1) :
                        S4Commit(ev, found, phase)
  BY <1>3, <1>4, <1>10
<1>11. CASE call.at = "s6" /\ \E ev \in {FindGlobalEvidence} :
                \/ S6Skip(ev) \/ S6Defer(ev) \/ S6Start(ev)
                \/ \E conflict \in BOOLEAN : S6Commit(ev, conflict)
  BY <1>6, <1>7, <1>11
<1>12. CASE S6Yield
  BY <1>6, <1>12
<1> QED
  BY <1>1, <1>2, <1>5, <1>8, <1>9, <1>10, <1>11, <1>12 DEF Refresh

LEMMA NextKeepsCurrency == Currency /\ [Next]_vars => Currency'
<1> SUFFICES ASSUME Currency, [Next]_vars PROVE Currency'
  OBVIOUS
<1>0. IsGrid(grid) /\ IsS6(s6) /\ changed4 \in BOOLEAN /\ changed6 \in BOOLEAN
  BY DEF Currency, LocalIsShown, GlobalIsShown
<1>1. ASSUME NEW n \in Budgets, Process(n) PROVE Currency'
  <2>1. UNCHANGED <<session, grid, s6, changed4, changed6>>
    BY <1>1 DEF Process
  <2>2. shown' = shown \/ shown' = View(session, grid, s6)
    BY <1>1 DEF Process
  <2> QED
    BY <1>0, <2>1, <2>2, CurrencyStays, PublicationIsCurrent
<1>2. CASE UNCHANGED vars
  BY <1>2, CurrencyStays DEF vars
<1> QED
  BY <1>1, <1>2, HostKeepsCurrency, RefreshKeepsCurrency DEF Next

(* Whenever no process call is in progress and no publication is owed, the *)
(* latest result shows the local grid, but for its anchor, and the         *)
(* segments, state and revision of the global grid as they are: for every  *)
(* source, budget, focus, lock, revision and failed publication.           *)
THEOREM ShownIsAlwaysCurrent == Spec => []ShownIsCurrent
<1>1. Currency => ShownIsCurrent
  <2> SUFFICES ASSUME Currency PROVE ShownIsCurrent
    OBVIOUS
  <2>0. IsGrid(grid) /\ IsS6(s6) /\ IsGrid(shown.grid) /\ IsShown(shown)
    BY DEF Currency, LocalIsShown, GlobalIsShown
  <2>1. IsGrid(Finalized(session, grid))
    BY <2>0 DEF IsGrid, Finalized
  <2>2. ASSUME ~changed4 PROVE ButAnchor(shown.grid) = ButAnchor(Finalized(session, grid))
    <3>1. SameGrid(shown.grid, Finalized(session, grid))
      BY <2>2 DEF Currency, LocalIsShown
    <3> QED
      BY <2>0, <2>1, <3>1 DEF SameGrid, ButAnchor, IsGrid
  <2>3. ASSUME ~changed6
        PROVE  ButCoverage([shown EXCEPT !.grid = Finalized(session, grid)])
                    = ButCoverage(View(session, grid, s6))
    <3>1. SameGlobal(shown, Finalized(session, s6))
      BY <2>3 DEF Currency, GlobalIsShown
    <3>2. Finalized(session, s6).signature = s6.signature
          /\ Finalized(session, s6).revision = s6.revision
      BY <2>0 DEF Finalized, IsS6
    <3> DEFINE g == Finalized(session, grid)
               Seen == [grid |-> g, state |-> shown.state, signature |-> shown.signature,
                        coverage |-> <<0, 0>>, revision |-> shown.revision]
    <3> HIDE DEF g
    <3>3. ButCoverage([shown EXCEPT !.grid = g]) = Seen
      <4> DEFINE v == [shown EXCEPT !.grid = g]
      <4>1. v = [grid |-> g, state |-> shown.state, signature |-> shown.signature,
                 coverage |-> shown.coverage, revision |-> shown.revision]
        <5>1. PICK h, state, signature, coverage, revision :
                shown = [grid |-> h, state |-> state, signature |-> signature,
                         coverage |-> coverage, revision |-> revision]
          BY <2>0, Zenon DEF IsShown
        <5>2. /\ shown.state = state /\ shown.signature = signature
              /\ shown.coverage = coverage /\ shown.revision = revision
          BY <5>1
        <5> QED
          BY <5>1, <5>2
      <4> HIDE DEF v
      <4>2. ButCoverage(v) = Seen
        BY <4>1 DEF ButCoverage
      <4> QED
        BY <4>2 DEF v
    <3>4. View(session, grid, s6) =
            [grid |-> g, state |-> shown.state, signature |-> shown.signature,
             coverage |-> s6.coverage, revision |-> shown.revision]
      BY <3>1, <3>2 DEF SameGlobal, View, g
    <3>5. ButCoverage(View(session, grid, s6)) = Seen
      BY <3>4 DEF ButCoverage
    <3> QED
      BY <3>3, <3>5 DEF g
  <2> QED
    BY <2>2, <2>3 DEF ShownIsCurrent
<1> QED
  BY InitCurrency, NextKeepsCurrency, <1>1, PTL DEF Spec

-----------------------------------------------------------------------------
(* What the rings hold.                                                    *)

FramesOfBin(b, size) == {f \in Frames : f \div size = b}

(* An occupied slot belongs to its bin, which lies in the source, and has  *)
(* counted no more frames than were accepted of it.                        *)
SlotIsOK(slot, k, size, capacity, got) ==
    slot.count # 0 =>
        /\ slot.bin % capacity = k
        /\ slot.bin * size < TrackFrames
        /\ slot.count <= Cardinality(FramesOfBin(slot.bin, size) \cap got)

RingIsOK(ring, size, capacity, got) ==
    /\ ring \in [0..(capacity - 1) -> [bin : Nat, count : Nat]]
    /\ \A k \in 0..(capacity - 1) : SlotIsOK(ring[k], k, size, capacity, got)

(* A bin that is complete, looked up in its own slot.                      *)
IsComplete(ring, size, capacity, ended, b) ==
    /\ ring[b % capacity].bin = b /\ ring[b % capacity].count # 0
    /\ ring[b % capacity].count = ExpectedBinSamples(b, size, ended)

LEMMA Sizes ==
    /\ TrackFrames \in Nat \ {0} /\ OnsetFrames \in Nat \ {0} /\ OnsetCapacity \in Nat \ {0}
    /\ GlobalFrames \in Nat \ {0} /\ GlobalCapacity \in Nat \ {0}
    /\ MinBins \in Nat \ {0} /\ MinNewBins \in Nat \ {0} /\ GlobalMinNewBins \in Nat \ {0}
BY AnalysisAssumption

LEMMA BinOfFrame ==
    ASSUME NEW f \in Nat, NEW size \in Nat \ {0}
    PROVE  f \div size \in Nat /\ (f \div size) * size <= f
           /\ f < (f \div size) * size + size
OBVIOUS

LEMMA SlotOfBin ==
    ASSUME NEW b \in Nat, NEW capacity \in Nat \ {0}
    PROVE  b % capacity \in 0..(capacity - 1)
OBVIOUS

(* A bin of the source has at most size frames, and no more than are left. *)
LEMMA BinIsBounded ==
    ASSUME NEW b \in Nat, NEW size \in Nat \ {0}, NEW got
    PROVE  LET n == Cardinality(FramesOfBin(b, size) \cap got)
           IN /\ IsFiniteSet(FramesOfBin(b, size) \cap got) /\ n \in Nat
              /\ n <= size
              /\ b * size < TrackFrames => n <= TrackFrames - b * size
<1> DEFINE B == FramesOfBin(b, size) \cap got
           top == IF b * size + size <= TrackFrames THEN b * size + size - 1
                  ELSE TrackFrames - 1
<1>0. b * size \in Nat /\ TrackFrames \in Nat
  BY Sizes
<1>1. B \subseteq (b * size)..top
  <2> SUFFICES ASSUME NEW f \in B PROVE f \in (b * size)..top
    OBVIOUS
  <2>1. f \in Nat /\ f <= TrackFrames - 1 /\ f \div size = b
    BY Sizes DEF FramesOfBin, Frames
  <2>2. b * size <= f /\ f < b * size + size
    BY <2>1, BinOfFrame
  <2> QED
    BY <1>0, <2>1, <2>2
<1>2. top \in Int
  BY <1>0
<1>3. IsFiniteSet((b * size)..top)
      /\ Cardinality((b * size)..top) = IF b * size > top THEN 0 ELSE top - b * size + 1
  BY <1>0, <1>2, FS_Interval
<1> HIDE DEF B
<1>4. IsFiniteSet(B) /\ Cardinality(B) <= Cardinality((b * size)..top)
      /\ Cardinality(B) \in Nat
  BY <1>1, <1>3, FS_Subset, FS_CardinalityType
<1>5. Cardinality((b * size)..top) <= size
      /\ (b * size < TrackFrames => Cardinality((b * size)..top) <= TrackFrames - b * size)
  BY <1>0, <1>3
<1>6. Cardinality((b * size)..top) \in Nat
  BY <1>3, FS_CardinalityType
<1> QED
  BY <1>0, <1>4, <1>5, <1>6 DEF B

(* A frame that was not accepted before adds one to its bin, none to the   *)
(* others.                                                                 *)
LEMMA BinGrows ==
    ASSUME NEW b \in Nat, NEW size \in Nat \ {0}, NEW got, NEW f \in Frames \ got
    PROVE  Cardinality(FramesOfBin(b, size) \cap (got \cup {f})) =
             Cardinality(FramesOfBin(b, size) \cap got) + (IF f \div size = b THEN 1 ELSE 0)
<1> DEFINE B == FramesOfBin(b, size) \cap got
<1>1. IsFiniteSet(B) /\ Cardinality(B) \in Nat
  BY BinIsBounded
<1>2. CASE f \div size = b
  <2>1. FramesOfBin(b, size) \cap (got \cup {f}) = B \cup {f} /\ f \notin B
    BY <1>2 DEF FramesOfBin
  <2> QED
    BY <1>1, <1>2, <2>1, FS_AddElement
<1>3. CASE f \div size # b
  <2>1. FramesOfBin(b, size) \cap (got \cup {f}) = B
    BY <1>3 DEF FramesOfBin
  <2>2. Cardinality(FramesOfBin(b, size) \cap (got \cup {f})) = Cardinality(B)
    BY <2>1
  <2> HIDE DEF B
  <2>3. (IF f \div size = b THEN 1 ELSE 0) = 0 /\ Cardinality(B) + 0 = Cardinality(B)
    BY <1>1, <1>3
  <2> QED
    BY <2>2, <2>3 DEF B
<1> QED
  BY <1>2, <1>3

(* A frame that is accepted and not counted leaves a ring in order.        *)
LEMMA RingStays ==
    ASSUME NEW ring, NEW size \in Nat \ {0}, NEW capacity \in Nat \ {0}, NEW got,
           RingIsOK(ring, size, capacity, got), NEW f \in Frames \ got
    PROVE  RingIsOK(ring, size, capacity, got \cup {f})
<1> DEFINE In(x, A) == Cardinality(FramesOfBin(x, size) \cap A)
<1>1. ring \in [0..(capacity - 1) -> [bin : Nat, count : Nat]]
  BY DEF RingIsOK
<1>2. ASSUME NEW j \in 0..(capacity - 1)
      PROVE  SlotIsOK(ring[j], j, size, capacity, got \cup {f})
  <2>1. SlotIsOK(ring[j], j, size, capacity, got)
    BY DEF RingIsOK
  <2>2. ring[j].bin \in Nat /\ ring[j].count \in Nat
    BY <1>1
  <2> DEFINE more == IF f \div size = ring[j].bin THEN 1 ELSE 0
  <2>3. In(ring[j].bin, got) \in Nat
        /\ In(ring[j].bin, got \cup {f}) = In(ring[j].bin, got) + more
    <3>1. In(ring[j].bin, got) \in Nat
      BY <2>2, BinIsBounded
    <3>2. In(ring[j].bin, got \cup {f}) = In(ring[j].bin, got) + more
      BY <2>2, BinGrows
    <3> QED
      BY <3>1, <3>2
  <2>4. more \in {0, 1}
    OBVIOUS
  <2>5. ring[j].count # 0 => ring[j].count <= In(ring[j].bin, got)
    BY <2>1 DEF SlotIsOK
  <2> HIDE DEF In, more
  <2>6. ring[j].count # 0 => ring[j].count <= In(ring[j].bin, got \cup {f})
    BY <2>2, <2>3, <2>4, <2>5
  <2> QED
    BY <2>1, <2>6 DEF SlotIsOK, In
<1> QED
  BY <1>1, <1>2 DEF RingIsOK

(* Counting a new frame keeps a ring in order, and touches only one slot.  *)
LEMMA CountedRing ==
    ASSUME NEW ring, NEW size \in Nat \ {0}, NEW capacity \in Nat \ {0}, NEW got,
           RingIsOK(ring, size, capacity, got), NEW f \in Frames \ got
    PROVE  LET b == f \div size
               k == b % capacity
               new == Counted(ring, size, f)
           IN /\ b \in Nat /\ k \in 0..(capacity - 1)
              /\ new[k] = [bin |-> b, count |-> IF ring[k].count # 0 /\ ring[k].bin = b
                                                THEN ring[k].count + 1 ELSE 1]
              /\ \A j \in 0..(capacity - 1) : j # k => new[j] = ring[j]
              /\ RingIsOK(new, size, capacity, got \cup {f})
<1> DEFINE b == f \div size
           k == b % capacity
           new == Counted(ring, size, f)
           fresh == [bin |-> b, count |-> IF ring[k].count # 0 /\ ring[k].bin = b
                                          THEN ring[k].count + 1 ELSE 1]
<1>0. f \in Nat /\ f < TrackFrames /\ TrackFrames \in Nat
  BY Sizes DEF Frames
<1>1. b \in Nat /\ b * size <= f /\ k \in 0..(capacity - 1)
  BY <1>0, BinOfFrame, SlotOfBin
<1>2. ring \in [0..(capacity - 1) -> [bin : Nat, count : Nat]]
  BY DEF RingIsOK
<1>3. DOMAIN ring = 0..(capacity - 1) /\ Cardinality(DOMAIN ring) = capacity
  <2>1. Cardinality(0..(capacity - 1)) = capacity
    BY FS_Interval
  <2> QED
    BY <1>2, <2>1
<1>4. new = [ring EXCEPT ![k] = fresh]
  <2> DEFINE x == b % Cardinality(DOMAIN ring)
  <2>1. new = [ring EXCEPT ![x] =
                  [bin |-> b, count |-> IF ring[x].count # 0 /\ ring[x].bin = b
                                        THEN ring[x].count + 1 ELSE 1]]
    BY DEF Counted
  <2>2. x = k
    BY <1>3
  <2> HIDE DEF x
  <2> QED
    BY <2>1, <2>2
<1>5. ring[k] \in [bin : Nat, count : Nat]
  BY <1>1, <1>2
<1>6. new[k] = fresh /\ fresh \in [bin : Nat, count : Nat] /\ fresh.bin = b
  <2>1. fresh \in [bin : Nat, count : Nat] /\ fresh.bin = b
    BY <1>1, <1>5
  <2>2. new[k] = fresh
    <3> HIDE DEF fresh, new
    <3> QED
      BY <1>1, <1>3, <1>4
  <2> QED
    BY <2>1, <2>2
<1>7. \A j \in 0..(capacity - 1) : j # k => new[j] = ring[j]
  BY <1>1, <1>2, <1>4
<1>8. new \in [0..(capacity - 1) -> [bin : Nat, count : Nat]]
  BY <1>1, <1>2, <1>4, <1>6
<1> DEFINE In(x, A) == Cardinality(FramesOfBin(x, size) \cap A)
<1>9. \A x \in Nat : In(x, got) \in Nat
                     /\ In(x, got \cup {f}) = In(x, got) + (IF f \div size = x THEN 1 ELSE 0)
  <2> TAKE x \in Nat
  <2>1. In(x, got) \in Nat
    BY BinIsBounded
  <2>2. In(x, got \cup {f}) = In(x, got) + (IF f \div size = x THEN 1 ELSE 0)
    BY BinGrows
  <2> QED
    BY <2>1, <2>2
<1>10. SlotIsOK(fresh, k, size, capacity, got \cup {f})
  <2>1. ring[k].count # 0 => ring[k].count <= In(ring[k].bin, got)
    BY <1>1 DEF RingIsOK, SlotIsOK
  <2>2. In(b, got \cup {f}) = In(b, got) + 1 /\ In(b, got) \in Nat
    BY <1>1, <1>9
  <2> HIDE DEF In
  <2>3. fresh.count <= In(b, got \cup {f})
    BY <1>5, <2>1, <2>2
  <2>4. fresh.bin % capacity = k /\ fresh.bin * size < TrackFrames
    BY <1>0, <1>1, <1>6
  <2> QED
    BY <1>6, <2>3, <2>4 DEF SlotIsOK, In
<1>11. ASSUME NEW j \in 0..(capacity - 1), j # k
       PROVE  SlotIsOK(ring[j], j, size, capacity, got \cup {f})
  BY RingStays DEF RingIsOK
<1> QED
  BY <1>1, <1>6, <1>7, <1>8, <1>10, <1>11 DEF RingIsOK

(* The complete bins of a ring are those that their own slots hold.        *)
LEMMA CompleteIsInItsSlot ==
    ASSUME NEW ring, NEW size \in Nat \ {0}, NEW capacity \in Nat \ {0}, NEW got,
           RingIsOK(ring, size, capacity, got), NEW ended \in BOOLEAN
    PROVE  /\ CompleteBins(ring, size, ended) \subseteq Nat
           /\ \A b \in CompleteBins(ring, size, ended) : b * size < TrackFrames
           /\ \A b \in Nat : b \in CompleteBins(ring, size, ended)
                                <=> IsComplete(ring, size, capacity, ended, b)
<1>1. ring \in [0..(capacity - 1) -> [bin : Nat, count : Nat]]
  BY DEF RingIsOK
<1>2. ASSUME NEW b, b \in CompleteBins(ring, size, ended)
      PROVE  b \in Nat /\ b * size < TrackFrames /\ IsComplete(ring, size, capacity, ended, b)
  <2>1. PICK k \in 0..(capacity - 1) :
            /\ b = ring[k].bin /\ ring[k].count # 0
            /\ ring[k].count = ExpectedBinSamples(ring[k].bin, size, ended)
    BY <1>1, <1>2 DEF CompleteBins
  <2>2. ring[k].bin % capacity = k /\ ring[k].bin * size < TrackFrames
    BY <2>1 DEF RingIsOK, SlotIsOK
  <2> QED
    BY <1>1, <2>1, <2>2 DEF IsComplete
<1>3. ASSUME NEW b \in Nat, IsComplete(ring, size, capacity, ended, b)
      PROVE  b \in CompleteBins(ring, size, ended)
  <2>1. b % capacity \in DOMAIN ring
    BY <1>1, SlotOfBin
  <2> QED
    BY <1>3, <2>1 DEF IsComplete, CompleteBins
<1> QED
  BY <1>2, <1>3

-----------------------------------------------------------------------------
(* The longest run.                                                        *)

(* A set of naturals has a least element: the sets 0..(x - 1) cannot       *)
(* shrink for ever.                                                        *)
LEMMA LeastExists ==
    ASSUME NEW T \in SUBSET Nat, T # {}
    PROVE  \E x \in T : \A y \in T : x <= y
<1> DEFINE Below == {0..(x - 1) : x \in T}
<1>1. Below \subseteq FiniteSubsetsOf(Nat) /\ Below # {}
  <2>1. \A x \in T : IsFiniteSet(0..(x - 1)) /\ 0..(x - 1) \in SUBSET Nat
    BY FS_Interval
  <2> QED
    BY <2>1 DEF FiniteSubsetsOf
<1>2. \E X \in Below : \A Y \in Below : ~(<<Y, X>> \in StrictSubsetOrdering(Nat))
  BY <1>1, WFMin, FS_StrictSubsetOrderingWellFounded, Zenon
<1>3. PICK x \in T : \A y \in T : ~(<<0..(y - 1), 0..(x - 1)>> \in StrictSubsetOrdering(Nat))
  BY <1>2
<1>4. ASSUME NEW y \in T, y < x PROVE FALSE
  <2>1. 0..(y - 1) \subseteq 0..(x - 1) /\ 0..(y - 1) # 0..(x - 1)
    <3>1. x \in Nat /\ y \in Nat
      OBVIOUS
    <3>2. y \in 0..(x - 1) /\ y \notin 0..(y - 1)
      BY <3>1, <1>4
    <3> QED
      BY <3>1, <3>2, <1>4
  <2>2. <<0..(y - 1), 0..(x - 1)>> \in StrictSubsetOrdering(Nat)
    BY <2>1, <1>1, SMT DEF StrictSubsetOrdering, FiniteSubsetsOf
  <2> QED
    BY <2>2, <1>3
<1> QED
  BY <1>4

(* The longest run of a bounded set of bins is a run of it, and not empty  *)
(* when the set is not.                                                    *)
LEMMA LongestRunIsARun ==
    ASSUME NEW S \in SUBSET Nat, NEW bound \in Nat, \A b \in S : b < bound
    PROVE  LET r == LongestRun(S)
           IN /\ r \in Nat \X Nat /\ r[1] <= r[2] /\ r[1]..(r[2] - 1) \subseteq S
              /\ S # {} => r[1] < r[2]
<1> DEFINE runs == {r \in S \X {b + 1 : b \in S} :
                      r[1] < r[2] /\ r[1]..(r[2] - 1) \subseteq S}
           Better(r, q) == \/ r[2] - r[1] > q[2] - q[1]
                           \/ r[2] - r[1] = q[2] - q[1] /\ r[1] <= q[1]
<1>1. CASE S = {}
  <2>1. LongestRun(S) = <<0, 0>>
    BY <1>1 DEF LongestRun
  <2> QED
    BY <1>1, <2>1
<1>2. CASE S # {}
  <2>1. LongestRun(S) = CHOOSE r \in runs : \A q \in runs : Better(r, q)
    BY <1>2 DEF LongestRun
  <2>2. \A r \in runs : r \in Nat \X Nat /\ r[1] < r[2] /\ r[2] <= bound
                        /\ r[1]..(r[2] - 1) \subseteq S
    <3> SUFFICES ASSUME NEW r \in runs
                 PROVE  r \in Nat \X Nat /\ r[1] < r[2] /\ r[2] <= bound
                        /\ r[1]..(r[2] - 1) \subseteq S
      OBVIOUS
    <3>1. r \in S \X {b + 1 : b \in S} /\ r[1] < r[2] /\ r[1]..(r[2] - 1) \subseteq S
      OBVIOUS
    <3>2. PICK b \in S : r[2] = b + 1
      BY <3>1
    <3>3. r[1] \in S /\ r[2] \in Nat /\ r[2] <= bound
      BY <3>1, <3>2
    <3> QED
      BY <3>1, <3>3
  <2>3. runs # {}
    <3>1. PICK b \in S : TRUE
      BY <1>2
    <3>2. <<b, b + 1>> \in S \X {c + 1 : c \in S} /\ b < b + 1 /\ b..(b + 1 - 1) \subseteq S
      BY <3>1
    <3> QED
      BY <3>2
  <2> HIDE DEF runs
  <2>4. PICK r \in runs : \A q \in runs : bound - (r[2] - r[1]) <= bound - (q[2] - q[1])
    <3> DEFINE T == {bound - (q[2] - q[1]) : q \in runs}
    <3>1. T \in SUBSET Nat /\ T # {}
      BY <2>2, <2>3
    <3>2. PICK x \in T : \A y \in T : x <= y
      BY <3>1, LeastExists
    <3> QED
      BY <3>2
  <2> DEFINE longest == {q \in runs : q[2] - q[1] = r[2] - r[1]}
  <2>5. PICK p \in longest : \A q \in longest : p[1] <= q[1]
    <3> DEFINE T == {q[1] : q \in longest}
    <3>1. T \in SUBSET Nat /\ T # {}
      BY <2>2, <2>4
    <3>2. PICK x \in T : \A y \in T : x <= y
      BY <3>1, LeastExists
    <3> QED
      BY <3>2
  <2>6. p \in runs /\ \A q \in runs : Better(p, q)
    <3> SUFFICES ASSUME NEW q \in runs PROVE p \in runs /\ Better(p, q)
      BY <2>3
    <3>1. p \in runs /\ p[2] - p[1] = r[2] - r[1] /\ p \in Nat \X Nat /\ q \in Nat \X Nat
          /\ r \in Nat \X Nat
      BY <2>2, <2>4, <2>5
    <3>2. bound - (r[2] - r[1]) <= bound - (q[2] - q[1])
      BY <2>4
    <3>3. q[2] - q[1] = r[2] - r[1] => p[1] <= q[1]
      BY <2>5
    <3> QED
      BY <3>1, <3>2, <3>3
  <2> HIDE DEF Better
  <2>7. LongestRun(S) \in runs
    BY <2>1, <2>6
  <2> QED
    BY <1>2, <2>2, <2>7
<1> QED
  BY <1>1, <1>2

-----------------------------------------------------------------------------
(* The cached run of evidence.                                             *)

CacheType == [first : Nat, end : Nat, valid : BOOLEAN, dirty : BOOLEAN]

(* Every bin of a run that can be trusted satisfies what the ring promises *)
(* of complete bins.                                                       *)
Trusted(c, Bins) == c.valid /\ ~c.dirty => c.first..(c.end - 1) \subseteq Bins

Evidence ==
    /\ accepted \in SUBSET Frames
    /\ RingIsOK(onset, OnsetFrames, OnsetCapacity, accepted)
    /\ RingIsOK(global, GlobalFrames, GlobalCapacity, accepted)
    /\ cache \in CacheType
    /\ Trusted(cache, CompleteBins(onset, OnsetFrames, Ended))

LEMMA EndedIsBoolean == Ended \in BOOLEAN
BY DEF Ended

(* The scans of the two rings find runs of complete bins.                  *)
LEMMA ScannedRunIsComplete ==
    ASSUME Evidence
    PROVE  LET r == ScannedRun
           IN /\ r \in Nat \X Nat /\ r[1] <= r[2]
              /\ r[1]..(r[2] - 1) \subseteq CompleteBins(onset, OnsetFrames, Ended)
<1> DEFINE complete == CompleteBins(onset, OnsetFrames, Ended)
           S == {b \in complete : b > Max(complete) - OnsetCapacity}
<1>1. complete \subseteq Nat /\ \A b \in complete : b * OnsetFrames < TrackFrames
  BY Sizes, EndedIsBoolean, CompleteIsInItsSlot DEF Evidence
<1>2. \A b \in complete : b < TrackFrames
  BY <1>1, Sizes
<1> HIDE DEF complete
<1>3. S \in SUBSET Nat /\ TrackFrames \in Nat /\ \A b \in S : b < TrackFrames
  BY <1>1, <1>2, Sizes
<1>4. ScannedRun = LongestRun(S)
  BY DEF ScannedRun, complete
<1>5. S \subseteq complete
  OBVIOUS
<1> HIDE DEF S
<1>6. LET r == LongestRun(S)
      IN r \in Nat \X Nat /\ r[1] <= r[2] /\ r[1]..(r[2] - 1) \subseteq S
  BY <1>3, LongestRunIsARun
<1> QED
  BY <1>4, <1>5, <1>6 DEF complete

LEMMA GlobalRunIsARun ==
    ASSUME Evidence
    PROVE  FindGlobalEvidence \in Nat \X Nat
<1> DEFINE S == CompleteBins(global, GlobalFrames, Ended)
<1>1. S \in SUBSET Nat /\ \A b \in S : b * GlobalFrames < TrackFrames
  BY Sizes, EndedIsBoolean, CompleteIsInItsSlot DEF Evidence
<1>2. TrackFrames \in Nat /\ \A b \in S : b < TrackFrames
  BY <1>1, Sizes
<1> HIDE DEF S
<1>3. LongestRun(S) \in Nat \X Nat
  BY <1>1, <1>2, LongestRunIsARun
<1> QED
  BY <1>3 DEF FindGlobalEvidence, S

(* What the search finds, cached or scanned, is complete, and so is what   *)
(* it leaves in the cache; a second search finds the same.                 *)
LEMMA FoundIsComplete ==
    ASSUME Evidence
    PROVE  LET ev == FindEvidence
           IN /\ ev \in Nat \X Nat
              /\ ev[1]..(ev[2] - 1) \subseteq CompleteBins(onset, OnsetFrames, Ended)
              /\ CacheAfterFind(ev) \in CacheType
              /\ Trusted(CacheAfterFind(ev), CompleteBins(onset, OnsetFrames, Ended))
<1> DEFINE ev == FindEvidence
           Bins == CompleteBins(onset, OnsetFrames, Ended)
<1>1. ev \in Nat \X Nat /\ ev[1]..(ev[2] - 1) \subseteq Bins
  <2>1. CASE ~Ended /\ cache.valid /\ ~cache.dirty
    <3>1. ev = <<cache.first, cache.end>>
      BY <2>1 DEF FindEvidence
    <3> QED
      BY <2>1, <3>1 DEF Evidence, CacheType, Trusted
  <2>2. CASE ~(~Ended /\ cache.valid /\ ~cache.dirty)
    BY <2>2, ScannedRunIsComplete DEF FindEvidence
  <2> QED
    BY <2>1, <2>2
<1> HIDE DEF ev, Bins
<1>2. cache \in CacheType
  BY DEF Evidence
<1>3. CASE ev[2] > ev[1]
  <2>1. CacheAfterFind(ev) = [first |-> ev[1], end |-> ev[2], valid |-> TRUE, dirty |-> FALSE]
    BY <1>3 DEF CacheAfterFind
  <2> QED
    BY <1>1, <2>1 DEF CacheType, Trusted, ev, Bins
<1>4. CASE ~(ev[2] > ev[1])
  <2>1. CacheAfterFind(ev) = [cache EXCEPT !.valid = FALSE, !.dirty = FALSE]
    BY <1>4 DEF CacheAfterFind
  <2>2. CacheAfterFind(ev) \in CacheType /\ ~CacheAfterFind(ev).valid
    BY <1>2, <2>1 DEF CacheType
  <2> QED
    BY <1>1, <2>2 DEF Trusted, ev, Bins
<1> QED
  BY <1>3, <1>4

(* A bin that is replaced in the ring leaves the run or distrusts it.      *)
LEMMA ReplacedIsNotTrusted ==
    ASSUME NEW c \in CacheType, NEW b \in Nat
    PROVE  LET kept == NoteBinReplaced(c, b)
           IN /\ kept \in CacheType
              /\ (kept.valid /\ ~kept.dirty) =>
                    /\ c.valid /\ ~c.dirty
                    /\ kept.first..(kept.end - 1) \subseteq (c.first..(c.end - 1)) \ {b}
<1> DEFINE kept == NoteBinReplaced(c, b)
<1>0. c.first \in Nat /\ c.end \in Nat /\ c.valid \in BOOLEAN /\ c.dirty \in BOOLEAN
      /\ c = [first |-> c.first, end |-> c.end, valid |-> c.valid, dirty |-> c.dirty]
  BY DEF CacheType
<1>1. CASE ~c.valid \/ c.dirty
  BY <1>0, <1>1 DEF NoteBinReplaced
<1>2. CASE c.valid /\ ~c.dirty /\ (b < c.first \/ b >= c.end)
  BY <1>0, <1>2 DEF NoteBinReplaced
<1>3. CASE c.valid /\ ~c.dirty /\ ~(b < c.first \/ b >= c.end) /\ b = c.first
  <2>1. kept = [c EXCEPT !.first = c.first + 1, !.valid = c.first + 1 # c.end]
    BY <1>3 DEF NoteBinReplaced
  <2>2. kept = [first |-> c.first + 1, end |-> c.end, valid |-> (c.first + 1 # c.end),
                dirty |-> c.dirty]
    BY <1>0, <2>1
  <2> HIDE DEF kept
  <2> QED
    BY <1>0, <1>3, <2>2 DEF CacheType, kept
<1>4. CASE c.valid /\ ~c.dirty /\ ~(b < c.first \/ b >= c.end) /\ b # c.first
  <2>1. kept = [c EXCEPT !.dirty = TRUE]
    BY <1>4 DEF NoteBinReplaced
  <2>2. kept = [first |-> c.first, end |-> c.end, valid |-> c.valid, dirty |-> TRUE]
    BY <1>0, <2>1
  <2> HIDE DEF kept
  <2> QED
    BY <1>0, <2>2 DEF CacheType, kept
<1> QED
  BY <1>0, <1>1, <1>2, <1>3, <1>4

(* A bin that becomes complete is the only one that a trusted run takes.   *)
LEMMA CompletedIsTaken ==
    ASSUME NEW c \in CacheType, NEW b \in Nat, NEW Bins, b \in Bins, Trusted(c, Bins)
    PROVE  NoteBinComplete(c, b) \in CacheType /\ Trusted(NoteBinComplete(c, b), Bins)
<1> DEFINE new == NoteBinComplete(c, b)
<1>0. c.first \in Nat /\ c.end \in Nat /\ c.valid \in BOOLEAN /\ c.dirty \in BOOLEAN
      /\ c = [first |-> c.first, end |-> c.end, valid |-> c.valid, dirty |-> c.dirty]
  BY DEF CacheType
<1>1. CASE c.dirty
  BY <1>1 DEF NoteBinComplete
<1>2. CASE ~c.dirty /\ ~c.valid
  <2>1. new = [first |-> b, end |-> b + 1, valid |-> TRUE, dirty |-> FALSE]
    BY <1>2 DEF NoteBinComplete
  <2> HIDE DEF new
  <2> QED
    BY <2>1 DEF CacheType, Trusted, new
<1>3. CASE ~c.dirty /\ c.valid /\ b = c.end
  <2>1. new = [c EXCEPT !.end = c.end + 1]
    BY <1>3 DEF NoteBinComplete
  <2>2. new = [first |-> c.first, end |-> c.end + 1, valid |-> c.valid, dirty |-> c.dirty]
    BY <1>0, <2>1
  <2>3. c.first..(c.end + 1 - 1) \subseteq (c.first..(c.end - 1)) \cup {b}
    BY <1>0, <1>3
  <2> HIDE DEF new
  <2> QED
    BY <1>0, <1>3, <2>2, <2>3 DEF CacheType, Trusted, new
<1>4. CASE ~c.dirty /\ c.valid /\ b # c.end /\ b + 1 = c.first
  <2>1. new = [c EXCEPT !.first = b]
    BY <1>4 DEF NoteBinComplete
  <2>2. new = [first |-> b, end |-> c.end, valid |-> c.valid, dirty |-> c.dirty]
    BY <1>0, <2>1
  <2>3. b..(c.end - 1) \subseteq (c.first..(c.end - 1)) \cup {b}
    BY <1>0, <1>4
  <2> HIDE DEF new
  <2> QED
    BY <1>0, <1>4, <2>2, <2>3 DEF CacheType, Trusted, new
<1>5. CASE ~c.dirty /\ c.valid /\ b # c.end /\ b + 1 # c.first
  <2> DEFINE outside == b < c.first \/ b >= c.end
  <2>1. new = [c EXCEPT !.dirty = outside]
    BY <1>5 DEF NoteBinComplete
  <2>2. outside \in BOOLEAN
    OBVIOUS
  <2> HIDE DEF new, outside
  <2>3. new = [first |-> c.first, end |-> c.end, valid |-> c.valid, dirty |-> outside]
    BY <1>0, <2>1
  <2> QED
    BY <1>0, <1>5, <2>2, <2>3 DEF CacheType, Trusted, new
<1> QED
  BY <1>0, <1>1, <1>2, <1>3, <1>4, <1>5

(* One frame counted: bins fill, pass to other slots and become complete   *)
(* in any order, and the cached run holds.                                 *)
LEMMA FeedKeepsEvidence ==
    ASSUME Evidence, NEW f \in Frames, PushPcm(f), Feed(f)
    PROVE  Evidence'
<1> DEFINE b == f \div OnsetFrames
           k == b % OnsetCapacity
           old == onset[k]
           kept == IF old.count # 0 /\ old.bin # b
                   THEN NoteBinReplaced(cache, old.bin) ELSE cache
           Complete(ring, x) == IsComplete(ring, OnsetFrames, OnsetCapacity, FALSE, x)
           Bins == CompleteBins(onset, OnsetFrames, FALSE)
           NewBins == CompleteBins(onset', OnsetFrames, FALSE)
<1>0. /\ accepted \in SUBSET Frames /\ f \in Frames \ accepted
      /\ RingIsOK(onset, OnsetFrames, OnsetCapacity, accepted)
      /\ RingIsOK(global, GlobalFrames, GlobalCapacity, accepted)
      /\ cache \in CacheType /\ session = "active" /\ session' = session
      /\ accepted' = accepted \cup {f}
      /\ onset' = Counted(onset, OnsetFrames, f) /\ global' = Counted(global, GlobalFrames, f)
      /\ cache' = IF onset'[k].count = ExpectedBinSamples(b, OnsetFrames, FALSE)
                  THEN NoteBinComplete(kept, b) ELSE kept
  BY DEF PushPcm, Feed, Evidence
<1>1. Ended = FALSE /\ Ended' = FALSE
  BY <1>0 DEF Ended
<1>2. /\ b \in Nat /\ k \in 0..(OnsetCapacity - 1)
      /\ onset'[k] = [bin |-> b, count |-> IF old.count # 0 /\ old.bin = b
                                          THEN old.count + 1 ELSE 1]
      /\ \A j \in 0..(OnsetCapacity - 1) : j # k => onset'[j] = onset[j]
      /\ RingIsOK(onset', OnsetFrames, OnsetCapacity, accepted')
  <2> DEFINE new == Counted(onset, OnsetFrames, f)
  <2>1. OnsetFrames \in Nat \ {0} /\ OnsetCapacity \in Nat \ {0}
    BY Sizes
  <2>2. /\ b \in Nat /\ k \in 0..(OnsetCapacity - 1)
        /\ new[k] = [bin |-> b, count |-> IF old.count # 0 /\ old.bin = b
                                         THEN old.count + 1 ELSE 1]
        /\ \A j \in 0..(OnsetCapacity - 1) : j # k => new[j] = onset[j]
        /\ RingIsOK(new, OnsetFrames, OnsetCapacity, accepted \cup {f})
    BY <1>0, <2>1, CountedRing
  <2> HIDE DEF new, b, k, old
  <2> QED
    BY <1>0, <2>2 DEF new
<1>3. RingIsOK(global', GlobalFrames, GlobalCapacity, accepted')
  BY <1>0, Sizes, CountedRing
<1>4. /\ Bins \subseteq Nat /\ NewBins \subseteq Nat
      /\ \A x \in Nat : x \in Bins <=> Complete(onset, x)
      /\ \A x \in Nat : x \in NewBins <=> Complete(onset', x)
  BY <1>0, <1>2, Sizes, CompleteIsInItsSlot
<1>5. \A x : ExpectedBinSamples(x, OnsetFrames, FALSE) = OnsetFrames
  BY DEF ExpectedBinSamples
<1>6. old \in [bin : Nat, count : Nat]
  BY <1>0, <1>2 DEF RingIsOK
<1>7. b \notin Bins
  <2> SUFFICES ASSUME Complete(onset, b) PROVE FALSE
    BY <1>2, <1>4
  <2>1. old.bin = b /\ old.count # 0 /\ old.count = OnsetFrames
    BY <1>5 DEF IsComplete
  <2>2. onset'[k] = [bin |-> b, count |-> OnsetFrames + 1]
    BY <1>2, <2>1
  <2>3. SlotIsOK(onset'[k], k, OnsetFrames, OnsetCapacity, accepted')
    BY <1>2 DEF RingIsOK
  <2>4. onset'[k].count # 0 /\ onset'[k].bin = b /\ onset'[k].count = OnsetFrames + 1
    BY <2>2, Sizes
  <2>5. OnsetFrames + 1 <= Cardinality(FramesOfBin(b, OnsetFrames) \cap accepted')
    BY <2>3, <2>4 DEF SlotIsOK
  <2>6. Cardinality(FramesOfBin(b, OnsetFrames) \cap accepted') \in Nat
        /\ Cardinality(FramesOfBin(b, OnsetFrames) \cap accepted') <= OnsetFrames
    BY <1>2, Sizes, BinIsBounded
  <2> QED
    BY <2>5, <2>6, Sizes
<1>8. \A x \in Bins : (x # old.bin \/ old.bin = b \/ old.count = 0) => x \in NewBins
  <2> SUFFICES ASSUME NEW x \in Bins, x # old.bin \/ old.bin = b \/ old.count = 0
               PROVE  x \in NewBins
    OBVIOUS
  <2>1. x \in Nat /\ Complete(onset, x) /\ x # b
    BY <1>4, <1>7
  <2>2. x % OnsetCapacity \in 0..(OnsetCapacity - 1)
    BY <2>1, Sizes, SlotOfBin
  <2>3. x % OnsetCapacity # k
    BY <2>1 DEF IsComplete
  <2>4. onset'[x % OnsetCapacity] = onset[x % OnsetCapacity]
    BY <1>2, <2>2, <2>3
  <2> QED
    BY <1>4, <2>1, <2>4 DEF IsComplete
<1>9. Trusted(cache, Bins)
  BY <1>1 DEF Evidence
<1> HIDE DEF Bins, NewBins
<1>10. kept \in CacheType /\ Trusted(kept, NewBins)
  <2>1. CASE old.count # 0 /\ old.bin # b
    <3>1. kept = NoteBinReplaced(cache, old.bin) /\ old.bin \in Nat
      BY <1>6, <2>1
    <3>2. kept \in CacheType
          /\ (kept.valid /\ ~kept.dirty =>
                /\ cache.valid /\ ~cache.dirty
                /\ kept.first..(kept.end - 1)
                        \subseteq (cache.first..(cache.end - 1)) \ {old.bin})
      BY <1>0, <3>1, ReplacedIsNotTrusted
    <3> HIDE DEF kept
    <3> QED
      BY <1>8, <1>9, <3>2 DEF Trusted
  <2>2. CASE ~(old.count # 0 /\ old.bin # b)
    <3>1. kept = cache
      BY <2>2
    <3> QED
      BY <1>0, <1>8, <1>9, <2>2, <3>1 DEF Trusted
  <2> QED
    BY <2>1, <2>2
<1>11. cache' \in CacheType /\ Trusted(cache', NewBins)
  <2>1. CASE onset'[k].count = OnsetFrames
    <3>1. b \in NewBins
      <4>1. onset'[k].bin = b /\ onset'[k].count # 0
        BY <1>2, <2>1, Sizes
      <4>2. Complete(onset', b)
        BY <1>5, <2>1, <4>1 DEF IsComplete
      <4> QED
        BY <1>2, <1>4, <4>2
    <3>2. cache' = NoteBinComplete(kept, b)
      BY <1>0, <1>5, <2>1
    <3> HIDE DEF kept, b
    <3> QED
      BY <1>2, <1>10, <3>1, <3>2, CompletedIsTaken
  <2>2. CASE onset'[k].count # OnsetFrames
    <3>1. cache' = kept
      BY <1>0, <1>5, <2>2
    <3> QED
      BY <1>10, <3>1
  <2> QED
    BY <2>1, <2>2
<1>12. accepted' \in SUBSET Frames
  BY <1>0
<1>13. Trusted(cache, CompleteBins(onset, OnsetFrames, Ended))'
  BY <1>1, <1>11 DEF NewBins, Trusted
<1> QED
  BY <1>2, <1>3, <1>11, <1>12, <1>13 DEF Evidence

(* A frame that is accepted, whether it is counted or not.                 *)
LEMMA PushKeepsEvidence ==
    ASSUME Evidence, NEW f \in Frames, PushPcm(f)
    PROVE  Evidence'
<1>1. CASE Feed(f)
  BY <1>1, FeedKeepsEvidence
<1>2. CASE UNCHANGED <<rings, cache>>
  <2>1. /\ onset' = onset /\ global' = global /\ cache' = cache /\ session' = session
        /\ accepted \in SUBSET Frames /\ f \in Frames \ accepted
        /\ accepted' = accepted \cup {f}
        /\ RingIsOK(onset, OnsetFrames, OnsetCapacity, accepted)
        /\ RingIsOK(global, GlobalFrames, GlobalCapacity, accepted)
    BY <1>2 DEF PushPcm, Evidence, rings
  <2>2. RingIsOK(onset, OnsetFrames, OnsetCapacity, accepted')
        /\ RingIsOK(global, GlobalFrames, GlobalCapacity, accepted')
    BY <2>1, Sizes, RingStays
  <2>3. accepted' \in SUBSET Frames
    BY <2>1
  <2> QED
    BY <2>1, <2>2, <2>3 DEF Evidence, Trusted, Ended
<1> QED
  BY <1>1, <1>2 DEF PushPcm

(* The end of input: a run of bins that are complete is complete for good, *)
(* for a bin that has all its samples does not reach past the end.         *)
LEMMA EndKeepsEvidence ==
    ASSUME Evidence, SignalEndOfInput
    PROVE  Evidence'
<1>0. /\ accepted' = accepted /\ onset' = onset /\ global' = global /\ cache' = cache
      /\ session = "active" /\ session' = "draining"
  BY DEF SignalEndOfInput, rings
<1>1. Ended = FALSE /\ Ended' = TRUE
  BY <1>0 DEF Ended
<1>2. RingIsOK(onset, OnsetFrames, OnsetCapacity, accepted)
  BY DEF Evidence
<1>3. CompleteBins(onset, OnsetFrames, FALSE) \subseteq CompleteBins(onset, OnsetFrames, TRUE)
  <2> SUFFICES ASSUME NEW b \in CompleteBins(onset, OnsetFrames, FALSE)
               PROVE  b \in CompleteBins(onset, OnsetFrames, TRUE)
    OBVIOUS
  <2>1. b \in Nat /\ b * OnsetFrames < TrackFrames
        /\ IsComplete(onset, OnsetFrames, OnsetCapacity, FALSE, b)
    BY <1>2, Sizes, CompleteIsInItsSlot
  <2> DEFINE slot == onset[b % OnsetCapacity]
             n == Cardinality(FramesOfBin(b, OnsetFrames) \cap accepted)
  <2>2. slot.bin = b /\ slot.count # 0 /\ slot.count = OnsetFrames
    BY <2>1 DEF IsComplete, ExpectedBinSamples
  <2>3. b % OnsetCapacity \in 0..(OnsetCapacity - 1)
    BY <2>1, Sizes, SlotOfBin
  <2>4. SlotIsOK(slot, b % OnsetCapacity, OnsetFrames, OnsetCapacity, accepted)
    BY <1>2, <2>3 DEF RingIsOK
  <2>5. OnsetFrames <= n
    BY <2>2, <2>4 DEF SlotIsOK
  <2>6. n \in Nat /\ n <= TrackFrames - b * OnsetFrames
    BY <2>1, Sizes, BinIsBounded
  <2>7. (b + 1) * OnsetFrames = b * OnsetFrames + OnsetFrames /\ b * OnsetFrames \in Nat
    BY <2>1, Sizes
  <2>8. (b + 1) * OnsetFrames <= TrackFrames
    <3> HIDE DEF n
    <3> QED
      BY <2>5, <2>6, <2>7, Sizes
  <2>9. ExpectedBinSamples(b, OnsetFrames, TRUE) = OnsetFrames
    BY <2>8 DEF ExpectedBinSamples
  <2>10. IsComplete(onset, OnsetFrames, OnsetCapacity, TRUE, b)
    BY <2>2, <2>9 DEF IsComplete
  <2> QED
    BY <1>2, <2>1, <2>10, Sizes, CompleteIsInItsSlot
<1>4. Trusted(cache, CompleteBins(onset, OnsetFrames, Ended))'
  BY <1>0, <1>1, <1>3 DEF Evidence, Trusted
<1> QED
  BY <1>0, <1>4 DEF Evidence

(* Steps that leave the rings, the cache and the end of input alone.       *)
LEMMA EvidenceStays ==
    ASSUME Evidence, UNCHANGED <<accepted, onset, global, cache>>, Ended' = Ended
    PROVE  Evidence'
BY DEF Evidence, Trusted

(* A search that caches what it found.                                     *)
LEMMA SearchKeepsEvidence ==
    ASSUME Evidence, UNCHANGED <<accepted, onset, global>>, Ended' = Ended,
           cache' = CacheAfterFind(FindEvidence)
    PROVE  Evidence'
<1>1. cache' \in CacheType
      /\ Trusted(cache', CompleteBins(onset, OnsetFrames, Ended))
  BY FoundIsComplete
<1> QED
  BY <1>1 DEF Evidence, Trusted

LEMMA InitEvidence == Init => Evidence
<1> SUFFICES ASSUME Init PROVE Evidence
  OBVIOUS
<1>1. ASSUME NEW size \in Nat \ {0}, NEW capacity \in Nat \ {0}
      PROVE  RingIsOK([k \in 0..(capacity - 1) |-> EmptySlot], size, capacity, {})
  BY DEF RingIsOK, SlotIsOK, EmptySlot
<1>2. accepted = {} /\ onset = [k \in 0..(OnsetCapacity - 1) |-> EmptySlot]
      /\ global = [k \in 0..(GlobalCapacity - 1) |-> EmptySlot]
      /\ cache = [first |-> 0, end |-> 0, valid |-> FALSE, dirty |-> FALSE]
  BY DEF Init
<1>3. RingIsOK(onset, OnsetFrames, OnsetCapacity, accepted)
      /\ RingIsOK(global, GlobalFrames, GlobalCapacity, accepted)
  BY <1>1, <1>2, Sizes
<1>4. cache \in CacheType /\ ~cache.valid
  BY <1>2 DEF CacheType
<1> QED
  BY <1>2, <1>3, <1>4 DEF Evidence, Trusted

LEMMA RefreshKeepsEvidence == Evidence /\ Refresh => Evidence'
<1> SUFFICES ASSUME Evidence, Refresh PROVE Evidence'
  OBVIOUS
<1>1. CASE /\ UNCHANGED <<accepted, onset, global, session>>
           /\ cache' = CacheAfterFind(FindEvidence)
  BY <1>1, SearchKeepsEvidence DEF Ended
<1>2. CASE UNCHANGED <<accepted, onset, global, session, cache>>
  BY <1>2, EvidenceStays DEF Ended
<1>3. CASE S4Locked \/ S4Yield
  BY <1>3, <1>2 DEF S4Locked, S4Yield, S4Frame, rings
<1>4. CASE InS4 /\ \E ev \in {FindEvidence} :
                \/ S4Skip(ev) \/ S4Defer(ev) \/ S4Start(ev) \/ S4Gated(ev)
                \/ \E found \in {"none", "weak", "strong"}, phase \in 0..(Lag - 1) :
                        S4Commit(ev, found, phase)
  BY <1>4, <1>1 DEF S4Skip, S4Defer, S4Start, S4Gated, S4Commit, S4Frame, rings
<1>5. CASE PublishS4 \/ PublishS6
  BY <1>5, <1>2 DEF PublishS4, PublishS6, rings
<1>6. CASE S6Yield
  BY <1>6, <1>2 DEF S6Yield, S6Frame, rings
<1>7. CASE call.at = "s6" /\ \E ev \in {FindGlobalEvidence} :
                \/ S6Skip(ev) \/ S6Defer(ev) \/ S6Start(ev)
                \/ \E conflict \in BOOLEAN : S6Commit(ev, conflict)
  BY <1>7, <1>2 DEF S6Skip, S6Defer, S6Start, S6Commit, S6Frame, rings
<1>8. CASE Finish
  <2>1. UNCHANGED <<accepted, onset, global, cache>>
    BY <1>8 DEF Finish, rings
  <2>2. session' = session \/ (session = "draining" /\ session' = "completed")
    BY <1>8 DEF Finish
  <2>3. Ended' = Ended
    BY <2>2 DEF Ended
  <2> QED
    BY <2>1, <2>3, EvidenceStays
<1> QED
  BY <1>3, <1>4, <1>5, <1>6, <1>7, <1>8 DEF Refresh

LEMMA NextKeepsEvidence == Evidence /\ [Next]_vars => Evidence'
<1> SUFFICES ASSUME Evidence, [Next]_vars PROVE Evidence'
  OBVIOUS
<1>1. ASSUME NEW f \in Frames, PushPcm(f) PROVE Evidence'
  BY <1>1, PushKeepsEvidence
<1>2. CASE SignalEndOfInput
  BY <1>2, EndKeepsEvidence
<1>3. CASE UNCHANGED <<accepted, onset, global, session, cache>>
  BY <1>3, EvidenceStays DEF Ended
<1>4. ASSUME NEW w \in Foci, SetFocus(w) PROVE Evidence'
  BY <1>4, <1>3 DEF SetFocus, rings
<1>5. ASSUME NEW r \in LockRanges, LockGridRange(r) PROVE Evidence'
  BY <1>5, <1>3 DEF LockGridRange, rings
<1>6. CASE ApplyGridRevision
  BY <1>6, <1>3 DEF ApplyGridRevision, rings
<1>7. ASSUME NEW n \in Budgets, Process(n) PROVE Evidence'
  BY <1>7, <1>3 DEF Process, rings
<1>8. CASE UNCHANGED vars
  BY <1>8, <1>3 DEF vars, rings
<1> QED
  BY <1>1, <1>2, <1>4, <1>5, <1>6, <1>7, <1>8, RefreshKeepsEvidence DEF Next, HostCall

(* The cached run of evidence holds only bins that are in the ring and     *)
(* complete, whatever was pushed, in whatever order, through rings of any  *)
(* size, before and after the end of input.                                *)
THEOREM EvidenceIsAlwaysComplete == Spec => []EvidenceIsComplete
<1>1. Evidence => EvidenceIsComplete
  BY DEF Evidence, Trusted, EvidenceIsComplete
<1> QED
  BY InitEvidence, NextKeepsEvidence, <1>1, PTL DEF Spec


-----------------------------------------------------------------------------
(* How often a refresh calls itself.                                       *)

IsCall(c) == c = [at |-> c.at, budget |-> c.budget, spent |-> c.spent, left |-> c.left,
                  used |-> c.used, depth |-> c.depth]

IsS4(s) == s = [active |-> s.active, pending |-> s.pending, run |-> s.run,
                groups |-> s.groups, refreshed |-> s.refreshed, of |-> s.of,
                found |-> s.found, phase |-> s.phase]

Records ==
    /\ IsCall(call) /\ call.depth \in 0..DepthBound
    /\ IsS4(s4) /\ s4.active \in BOOLEAN /\ IsS6(s6)

(* A generation begun by a refresh that called itself is over the evidence *)
(* as it is for the rest of the process call.                              *)
FollowedIsCurrent ==
    /\ call.at \notin {"s4", "s6"} => call.depth = 0
    /\ (call.at = "s4" /\ call.depth > 0 /\ s4.active) => s4.run = FindEvidence
    /\ call.at = "s6" => call.depth < DepthBound
    /\ (call.at = "s6" /\ call.depth > 0 /\ s6.stage = 1) => s6.run = FindGlobalEvidence

Following == Records /\ FollowedIsCurrent

LEMMA ReturnEnds ==
    ASSUME Records, NEW at, NEW used, Return(at, used)
    PROVE  IsCall(call') /\ call'.at = at /\ call'.depth = 0
<1> DEFINE spent == call.spent + used
<1>1. call' = [call EXCEPT !.at = at, !.spent = spent, !.used = 0, !.depth = 0]
  BY DEF Return
<1> HIDE DEF spent
<1> QED
  BY <1>1 DEF Records, IsCall

LEMMA RecurseDeepens ==
    ASSUME Records, NEW at, NEW used, Recurse(at, used)
    PROVE  IsCall(call') /\ call'.at = at /\ call'.depth \in 0..DepthBound
           /\ (call.depth = 0 => call'.depth = 1)
<1> DEFINE spent == call.spent + used
           left == call.left - used
           depth == Smaller(call.depth + 1, DepthBound)
<1>1. call' = [call EXCEPT !.at = at, !.spent = spent, !.left = left, !.used = 0,
                           !.depth = depth]
  BY DEF Recurse
<1>2. depth \in 0..DepthBound /\ (call.depth = 0 => depth = 1)
  BY DEF Records, Smaller, DepthBound
<1> HIDE DEF spent, left, depth
<1>3. call' = [at |-> at, budget |-> call.budget, spent |-> spent, left |-> left,
               used |-> 0, depth |-> depth]
  BY <1>1 DEF Records, IsCall
<1> QED
  BY <1>2, <1>3 DEF IsCall

(* Steps after which no refresh is at work.                                *)
LEMMA RestFollows ==
    ASSUME IsCall(call'), call'.depth = 0, IsS4(s4'), s4'.active \in BOOLEAN, IsS6(s6')
    PROVE  Following'
BY DEF Following, Records, FollowedIsCurrent, DepthBound

(* A second search in the same process call finds the same evidence.       *)
LEMMA SearchIsStable ==
    ASSUME Evidence, NEW ev, ev = FindEvidence, ev[1] < ev[2],
           cache' = CacheAfterFind(ev), UNCHANGED <<onset, session>>
    PROVE  ev = FindEvidence'
<1>0. ev \in Nat \X Nat
  BY FoundIsComplete
<1>1. Ended' = Ended /\ ScannedRun' = ScannedRun
  BY DEF Ended, ScannedRun
<1>2. CASE Ended
  BY <1>1, <1>2 DEF FindEvidence
<1>3. CASE ~Ended
  <2>1. cache' = [first |-> ev[1], end |-> ev[2], valid |-> TRUE, dirty |-> FALSE]
    BY <1>0 DEF CacheAfterFind
  <2>2. FindEvidence' = <<ev[1], ev[2]>>
    BY <1>1, <1>3, <2>1 DEF FindEvidence
  <2> QED
    BY <1>0, <2>2
<1> QED
  BY <1>2, <1>3

(* The passes of S4 over the evidence.                                     *)
LEMMA S4PassFollows ==
    ASSUME Evidence, Following, NEW ev, ev = FindEvidence, InS4,
           S4Skip(ev) \/ S4Defer(ev) \/ S4Start(ev) \/ S4Gated(ev)
    PROVE  Following'
<1>0. Records /\ IsS4(s4) /\ s4.active \in BOOLEAN /\ IsS6(s6) /\ s6' = s6
  BY DEF Following, Records, S4Skip, S4Defer, S4Start, S4Gated, S4Frame
<1>1. CASE S4Skip(ev)
  BY <1>0, <1>1, ReturnEnds, RestFollows DEF S4Skip
<1>2. CASE S4Defer(ev)
  <2>1. IsS4(s4') /\ s4'.active \in BOOLEAN
    <3> DEFINE refreshed == RefreshedAfterGate(ev)
    <3>1. s4' = [s4 EXCEPT !.pending = TRUE, !.refreshed = refreshed]
      BY <1>2 DEF S4Defer
    <3> HIDE DEF refreshed
    <3> QED
      BY <1>0, <3>1 DEF IsS4
  <2> QED
    BY <1>0, <1>2, <2>1, ReturnEnds, RestFollows DEF S4Defer
<1>3. CASE S4Start(ev)
  <2> DEFINE refreshed == RefreshedAfterGate(ev)
  <2>1. s4' = [s4 EXCEPT !.active = TRUE, !.pending = FALSE, !.run = ev,
                         !.groups = LagGroups, !.refreshed = refreshed]
    BY <1>3 DEF S4Start
  <2> HIDE DEF refreshed
  <2>2. IsS4(s4') /\ s4'.active = TRUE /\ s4'.run = ev
    BY <1>0, <2>1 DEF IsS4
  <2>3. call' = [call EXCEPT !.used = 1]
    BY <1>3 DEF S4Start
  <2>4. IsCall(call') /\ call'.at = "s4" /\ call'.depth = call.depth
    BY <1>0, <2>3 DEF Records, IsCall, InS4
  <2>5. ev = FindEvidence'
    <3>1. ev[1] < ev[2]
      <4>1. ev \in Nat \X Nat
        BY FoundIsComplete
      <4>2. ev[2] - ev[1] >= MinBins
        BY <1>3 DEF S4Start, EnoughEvidence
      <4> QED
        BY <4>1, <4>2, Sizes
    <3>2. cache' = CacheAfterFind(ev) /\ UNCHANGED <<onset, session>>
      BY <1>3 DEF S4Start, S4Frame, rings
    <3> QED
      BY <3>1, <3>2, SearchIsStable
  <2>6. Records'
    BY <1>0, <2>2, <2>4 DEF Records
  <2>7. FollowedIsCurrent'
    BY <2>2, <2>4, <2>5 DEF FollowedIsCurrent
  <2> QED
    BY <2>6, <2>7 DEF Following
<1>4. CASE S4Gated(ev)
  <2>1. s4' = s4 /\ ~s4.active
    BY <1>4 DEF S4Gated
  <2>2. (\E used : Return("publish4", used)) \/ (\E used : Recurse("s4", used))
    BY <1>4 DEF S4Gated, Follow
  <2>3. CASE \E used : Return("publish4", used)
    BY <1>0, <2>1, <2>3, ReturnEnds, RestFollows
  <2>4. CASE \E used : Recurse("s4", used)
    <3>1. IsCall(call') /\ call'.at = "s4" /\ call'.depth \in 0..DepthBound
      BY <1>0, <2>4, RecurseDeepens
    <3> QED
      BY <1>0, <2>1, <3>1 DEF Following, Records, FollowedIsCurrent
  <2> QED
    BY <2>2, <2>3, <2>4
<1> QED
  BY <1>1, <1>2, <1>3, <1>4

LEMMA S4CommitFollows ==
    ASSUME Following, NEW ev, NEW found, NEW phase, S4Commit(ev, found, phase)
    PROVE  Following'
<1>0. Records /\ IsS4(s4) /\ IsS6(s6) /\ s6' = s6
  BY DEF Following, Records, S4Commit, S4Frame
<1>1. IsS4(s4') /\ s4'.active = FALSE
  <2> DEFINE moved == EvidenceMoved(ev, s4.run)
             refreshed == s4.run[2]
  <2>1. s4' = [s4 EXCEPT !.active = FALSE, !.groups = 0, !.of = s4.run,
                         !.run = <<0, 0>>, !.refreshed = refreshed,
                         !.found = found, !.phase = phase, !.pending = moved]
    BY DEF S4Commit
  <2> HIDE DEF moved, refreshed
  <2>2. s4' = [active |-> FALSE, pending |-> moved, run |-> <<0, 0>>, groups |-> 0,
               refreshed |-> refreshed, of |-> s4.run, found |-> found, phase |-> phase]
    BY <1>0, <2>1 DEF IsS4
  <2> QED
    BY <2>2 DEF IsS4
<1>2. (\E used : Return("publish4", used)) \/ (\E used : Recurse("s4", used))
  BY DEF S4Commit, Follow
<1>3. CASE \E used : Return("publish4", used)
  BY <1>0, <1>1, <1>3, ReturnEnds, RestFollows
<1>4. CASE \E used : Recurse("s4", used)
  <2>1. IsCall(call') /\ call'.at = "s4" /\ call'.depth \in 0..DepthBound
    BY <1>0, <1>4, RecurseDeepens
  <2> QED
    BY <1>0, <1>1, <2>1 DEF Following, Records, FollowedIsCurrent
<1> QED
  BY <1>2, <1>3, <1>4

(* The passes of S6: a generation begun by a recursive call is not moved   *)
(* when it is committed, so that call returns.                             *)
LEMMA S6PassFollows ==
    ASSUME Following, NEW ev, ev = FindGlobalEvidence,
           S6Skip(ev) \/ S6Defer(ev) \/ S6Start(ev) \/ S6Yield
    PROVE  Following'
<1>0. Records /\ IsS4(s4) /\ s4.active \in BOOLEAN /\ IsS6(s6) /\ s4' = s4
  BY DEF Following, Records, S6Skip, S6Defer, S6Start, S6Yield, S6Frame
<1>1. IsS6(s6')
  BY <1>0 DEF IsS6, S6Skip, S6Defer, S6Start, S6Yield
<1>2. CASE S6Skip(ev) \/ S6Defer(ev) \/ S6Yield
  <2>1. \E used : Return("publish6", used)
    BY <1>2 DEF S6Skip, S6Defer, S6Yield
  <2> QED
    BY <1>0, <1>1, <2>1, ReturnEnds, RestFollows
<1>3. CASE S6Start(ev)
  <2>1. call' = [call EXCEPT !.used = 1] /\ call.at = "s6"
    BY <1>3 DEF S6Start
  <2>2. IsCall(call') /\ call'.at = "s6" /\ call'.depth = call.depth
    BY <1>0, <2>1 DEF Records, IsCall
  <2>3. s6'.run = ev
    BY <1>0, <1>3 DEF S6Start, IsS6
  <2>4. FindGlobalEvidence' = ev
    BY <1>3 DEF S6Start, S6Frame, FindGlobalEvidence, rings, Ended
  <2>5. call.depth < DepthBound
    BY <2>1 DEF Following, FollowedIsCurrent
  <2>6. Records'
    BY <1>0, <1>1, <2>2 DEF Records
  <2>7. FollowedIsCurrent'
    BY <2>2, <2>3, <2>4, <2>5 DEF FollowedIsCurrent
  <2> QED
    BY <2>6, <2>7 DEF Following
<1> QED
  BY <1>2, <1>3

LEMMA S6CommitFollows ==
    ASSUME Evidence, Following, NEW ev, ev = FindGlobalEvidence, NEW conflict,
           S6Commit(ev, conflict)
    PROVE  Following'
<1>0. Records /\ IsS4(s4) /\ s4.active \in BOOLEAN /\ IsS6(s6) /\ s4' = s4
      /\ call.at = "s6" /\ s6.stage = 1 /\ call.depth \in {0, 1}
  BY DEF Following, Records, FollowedIsCurrent, S6Commit, S6Frame, DepthBound
<1>3. IsS6(s6') /\ s6'.stage = 0
  BY <1>0, CommitOutcome
<1>4. (\E used : Return("publish6", used))
      \/ (GlobalMoved(ev) /\ \E used : Recurse("s6", used))
  BY DEF S6Commit, Follow
<1>5. CASE \E used : Return("publish6", used)
  BY <1>0, <1>3, <1>5, ReturnEnds, RestFollows
<1>6. CASE GlobalMoved(ev) /\ \E used : Recurse("s6", used)
  <2>1. call.depth = 0
    <3> SUFFICES ASSUME call.depth = 1 PROVE FALSE
      BY <1>0
    <3>1. s6.run = ev /\ ev \in Nat \X Nat
      BY <1>0, GlobalRunIsARun DEF Following, FollowedIsCurrent
    <3> QED
      BY <1>6, <3>1, Sizes DEF GlobalMoved
  <2>2. IsCall(call') /\ call'.at = "s6" /\ call'.depth = 1
    BY <1>0, <1>6, <2>1, RecurseDeepens
  <2> QED
    BY <1>0, <1>3, <2>2 DEF Following, Records, FollowedIsCurrent, DepthBound
<1> QED
  BY <1>4, <1>5, <1>6

LEMMA InitFollowing == Init => Following
<1> SUFFICES ASSUME Init PROVE Following
  OBVIOUS
<1>1. IsCall(call) /\ call.depth = 0 /\ call.at = "idle"
  BY DEF Init, NoCall, IsCall
<1>2. IsS4(s4) /\ s4.active \in BOOLEAN /\ IsS6(s6)
  BY DEF Init, IsS4, IsS6
<1> QED
  BY <1>1, <1>2 DEF Following, Records, FollowedIsCurrent, DepthBound

(* Calls of the host come between process calls.                           *)
LEMMA HostFollows == Following /\ HostCall => Following'
<1> SUFFICES ASSUME Following, HostCall PROVE Following'
  OBVIOUS
<1>1. call' = call /\ s4' = s4 /\ call.at = "idle"
  BY DEF HostCall, PushPcm, SignalEndOfInput, SetFocus, LockGridRange, ApplyGridRevision, Idle
<1>2. Records /\ call.depth = 0
  BY <1>1 DEF Following, FollowedIsCurrent
<1>3. s6' = s6 \/ s6' = [s6 EXCEPT !.revision = "applied"]
  BY DEF HostCall, PushPcm, SignalEndOfInput, SetFocus, LockGridRange, ApplyGridRevision
<1>4. IsS6(s6')
  BY <1>2, <1>3 DEF Records, IsS6
<1> QED
  BY <1>1, <1>2, <1>4, RestFollows DEF Records

LEMMA RefreshFollows == Evidence /\ Following /\ Refresh => Following'
<1> SUFFICES ASSUME Evidence, Following, Refresh PROVE Following'
  OBVIOUS
<1>0. Records /\ IsS4(s4) /\ s4.active \in BOOLEAN /\ IsS6(s6) /\ IsCall(call)
  BY DEF Following, Records
<1>1. CASE S4Locked
  <2>1. s4' = [s4 EXCEPT !.active = FALSE, !.pending = FALSE, !.run = <<0, 0>>,
                         !.groups = 0]
        /\ Return("publish4", 0) /\ s6' = s6
    BY <1>1 DEF S4Locked, S4Frame
  <2>2. IsS4(s4') /\ s4'.active = FALSE
    BY <1>0, <2>1 DEF IsS4
  <2> QED
    BY <1>0, <2>1, <2>2, ReturnEnds, RestFollows
<1>2. CASE S4Yield
  <2>1. PICK n : s4' = [s4 EXCEPT !.groups = s4.groups - n]
                 /\ Return("publish4", call.used + n) /\ s6' = s6
    BY <1>2 DEF S4Yield, S4Frame
  <2>2. IsS4(s4') /\ s4'.active = s4.active
    <3> DEFINE groups == s4.groups - n
    <3>1. s4' = [s4 EXCEPT !.groups = groups]
      BY <2>1
    <3> HIDE DEF groups
    <3> QED
      BY <1>0, <3>1 DEF IsS4
  <2> QED
    BY <1>0, <2>1, <2>2, ReturnEnds, RestFollows
<1>3. CASE InS4 /\ \E ev \in {FindEvidence} :
                \/ S4Skip(ev) \/ S4Defer(ev) \/ S4Start(ev) \/ S4Gated(ev)
                \/ \E found \in {"none", "weak", "strong"}, phase \in 0..(Lag - 1) :
                        S4Commit(ev, found, phase)
  BY <1>3, S4PassFollows, S4CommitFollows
<1>4. CASE PublishS4
  <2>1. s4' = s4 /\ s6' = s6 /\ call.depth = 0
    BY <1>4 DEF PublishS4, Following, FollowedIsCurrent
  <2>2. CASE call' = NoCall
    BY <1>0, <2>1, <2>2, RestFollows DEF IsCall, NoCall
  <2>3. CASE \E left : call' = [call EXCEPT !.at = "s6", !.left = left]
    <3>1. PICK left : call' = [call EXCEPT !.at = "s6", !.left = left]
      BY <2>3
    <3>2. IsCall(call') /\ call'.depth = 0
      BY <1>0, <2>1, <3>1 DEF IsCall
    <3> QED
      BY <1>0, <2>1, <3>2, RestFollows
  <2> QED
    BY <1>4, <2>2, <2>3 DEF PublishS4
<1>5. CASE S6Yield
  BY <1>5, S6PassFollows
<1>6. CASE call.at = "s6" /\ \E ev \in {FindGlobalEvidence} :
                \/ S6Skip(ev) \/ S6Defer(ev) \/ S6Start(ev)
                \/ \E conflict \in BOOLEAN : S6Commit(ev, conflict)
  BY <1>6, S6PassFollows, S6CommitFollows
<1>7. CASE PublishS6
  <2>1. s4' = s4 /\ s6' = s6 /\ call.depth = 0
    BY <1>7 DEF PublishS6, Following, FollowedIsCurrent
  <2>2. call' = NoCall \/ call' = [call EXCEPT !.at = "finish"]
    BY <1>7 DEF PublishS6
  <2>3. IsCall(call') /\ call'.depth = 0
    BY <1>0, <2>1, <2>2 DEF IsCall, NoCall
  <2> QED
    BY <1>0, <2>1, <2>3, RestFollows
<1>8. CASE Finish
  <2>1. s4' = s4 /\ s6' = s6 /\ IsCall(call') /\ call'.depth = 0
    BY <1>8 DEF Finish, NoCall, IsCall
  <2> QED
    BY <1>0, <2>1, RestFollows
<1> QED
  BY <1>1, <1>2, <1>3, <1>4, <1>5, <1>6, <1>7, <1>8 DEF Refresh

LEMMA NextFollows == Evidence /\ Following /\ [Next]_vars => Following'
<1> SUFFICES ASSUME Evidence, Following, [Next]_vars PROVE Following'
  OBVIOUS
<1>1. ASSUME NEW n \in Budgets, Process(n) PROVE Following'
  <2>1. s4' = s4 /\ s6' = s6 /\ IsCall(call') /\ call'.depth = 0
    BY <1>1 DEF Process, IsCall
  <2> QED
    BY <2>1, RestFollows DEF Following, Records
<1>2. CASE UNCHANGED vars
  BY <1>2 DEF vars, rings, Following, Records, FollowedIsCurrent, FindEvidence, ScannedRun,
     FindGlobalEvidence, Ended
<1> QED
  BY <1>1, <1>2, HostFollows, RefreshFollows DEF Next

(* The refresh of S6 calls itself at most once in a process call, and a    *)
(* generation that S4 began in a recursive call does not find its evidence *)
(* moved: with any gates, budgets and rings, whatever the host pushes      *)
(* between the calls.                                                      *)
THEOREM RefreshFollowsOnce == Spec => []FollowsOnce
<1>1. Evidence /\ Following => FollowsOnce
  <2> SUFFICES ASSUME Evidence, Following PROVE FollowsOnce
    OBVIOUS
  <2>1. ASSUME call.at = "s4", call.depth > 0, s4.active
        PROVE  ~EvidenceMoved(FindEvidence, s4.run)
    <3>1. s4.run = FindEvidence /\ FindEvidence \in Nat \X Nat
      BY <2>1, FoundIsComplete DEF Following, FollowedIsCurrent
    <3> HIDE DEF FindEvidence
    <3> QED
      BY <3>1, Sizes DEF EvidenceMoved
  <2> QED
    BY <2>1 DEF FollowsOnce, Following, FollowedIsCurrent
<1> QED
  BY InitEvidence, NextKeepsEvidence, InitFollowing, NextFollows, <1>1, PTL DEF Spec

(* A generation that S4 freezes, from the cached run or a scanned one,     *)
(* consists of bins that are complete when its flux is computed: no        *)
(* estimate reads a bin that was replaced or is still filling.             *)
THEOREM FrozenIsComplete ==
    Spec => [][(s4'.active /\ ~s4.active) =>
                  s4'.run[1]..(s4'.run[2] - 1)
                      \subseteq CompleteBins(onset, OnsetFrames, Ended)]_vars
<1> DEFINE Frozen == (s4'.active /\ ~s4.active) =>
                        s4'.run[1]..(s4'.run[2] - 1)
                            \subseteq CompleteBins(onset, OnsetFrames, Ended)
<1>1. Evidence /\ Following /\ [Next]_vars => [Frozen]_vars
  <2> SUFFICES ASSUME Evidence, Following, Next, ~s4.active, s4'.active PROVE Frozen
    BY DEF Frozen
  <2>0. IsS4(s4)
    BY DEF Following, Records
  <2>1. s4' # s4
    OBVIOUS
  <2>2. \E ev \in {FindEvidence} :
            \/ S4Defer(ev) \/ S4Start(ev)
            \/ \E found \in {"none", "weak", "strong"}, phase \in 0..(Lag - 1) :
                    S4Commit(ev, found, phase)
    <3>1. ~S4Locked
      BY <2>0 DEF S4Locked, IsS4
    <3> QED
      BY <2>1, <3>1 DEF Next, HostCall, Refresh, PushPcm, SignalEndOfInput, SetFocus,
         LockGridRange, ApplyGridRevision, Process, S4Yield, S4Skip, S4Gated, PublishS4,
         S6Yield, S6Skip, S6Defer, S6Start, S6Commit, S6Frame, PublishS6, Finish, vars
  <2>3. S4Start(FindEvidence)
    <3>1. ~S4Defer(FindEvidence)
      BY <2>0 DEF S4Defer, IsS4
    <3>2. ASSUME NEW found, NEW phase PROVE ~S4Commit(FindEvidence, found, phase)
      BY DEF S4Commit
    <3> QED
      BY <2>2, <3>1, <3>2
  <2>4. s4'.run = FindEvidence
    BY <2>0, <2>3 DEF S4Start, IsS4
  <2> QED
    BY <2>4, FoundIsComplete
<1> QED
  BY InitEvidence, NextKeepsEvidence, InitFollowing, NextFollows, <1>1, PTL DEF Spec
=============================================================================
