--------------------------- MODULE Container_proofs ---------------------------
(***************************************************************************)
(* Proofs about Container, for any results and any limits: the files are   *)
(* all those that Save and the edits can make.  That a release frees every *)
(* block does not depend on the form of the file; the bytes that are held, *)
(* the tiles that are read and the columns of a completed overview do, and *)
(* rest on the invariant Filed.                                            *)
(***************************************************************************)
EXTENDS Container, FiniteSetTheorems, TLAPS

-----------------------------------------------------------------------------
(* Blocks.                                                                 *)

(* A release of the result made of these blocks frees all of them.         *)
Whole(blocks) == Released(blocks) = {}

(* Nothing is held before the lowest layer has allocated or after a layer  *)
(* has failed, and what is held in between can be released.                *)
Holding ==
    /\ parse.layer \in {"idle", "wovr"} => held = {}
    /\ parse.status # "ok" => held = {}
    /\ Whole(held)

(* Releasing nothing leaves nothing.                                       *)
LEMMA EmptyIsWhole == Whole({})
BY DEF Whole, Released

(* Blocks the result points to can join any others.                        *)
LEMMA JoinedIsWhole ==
    ASSUME NEW S, Whole(S), NEW T, \A b \in T : b.name \in Reachable
    PROVE  Whole(S \cup T)
<1> SUFFICES ASSUME NEW b \in S \cup T, b.name \notin Reachable,
                    b.name \in ReachableFromS6 => \A c \in S \cup T : c.name # "s6"
             PROVE  FALSE
  BY DEF Whole, Released
<1>1. b \in S
  OBVIOUS
<1> QED
  BY <1>1 DEF Whole, Released

(* So can the blocks of a global grid, if its own block is among them.     *)
LEMMA GridIsWhole ==
    ASSUME NEW S, Whole(S), NEW T, \A b \in T : b.name \in Reachable \cup ReachableFromS6,
           \E c \in T : c.name = "s6"
    PROVE  Whole(S \cup T)
BY DEF Whole, Released

(* Allocations that stop at the first failure yield some of the blocks.    *)
LEMMA InOrderIsPart ==
    ASSUME NEW S, NEW s \in Seq(S), NEW have \in InOrder(s)
    PROVE  have \subseteq S
<1>1. PICK n \in 0 .. Len(s) : have = Range(SubSeq(s, 1, n))
  BY DEF InOrder
<1>2. \A i \in DOMAIN SubSeq(s, 1, n) : SubSeq(s, 1, n)[i] \in S
  OBVIOUS
<1> QED
  BY <1>1, <1>2 DEF Range

(* A layer that fails releases everything.                                 *)
LEMMA FailHolds ==
    ASSUME NEW status, NEW S, Whole(S), Fail(status, S)
    PROVE  Holding'
BY EmptyIsWhole DEF Fail, Holding, Whole

(* A layer without a section to read keeps what there is.                  *)
LEMMA PassHolds ==
    ASSUME Holding, parse.layer \notin {"idle", "wovr"}, NEW next, NEW got, Pass(next, got),
           next \notin {"idle", "wovr"}
    PROVE  Holding'
BY DEF Pass, Holding, Whole, Released

(* A layer releases the blocks it got and those of the layers below.       *)
LEMMA AttachHolds ==
    ASSUME Holding, NEW additional, NEW blocks, NEW provided, NEW sound, NEW got, NEW next,
           Attach(additional, blocks, provided, sound, got, next),
           next \notin {"idle", "wovr"},
           \A have \in provided : Whole(held \cup have)
    PROVE  Holding'
<1>1. CASE ~Fits(additional)
  BY <1>1, FailHolds DEF Attach, Holding
<1>2. CASE Fits(additional)
  <2>1. PICK have \in provided :
            IF have # blocks \/ ~sound
            THEN Fail(IF have # blocks THEN "out_of_memory" ELSE "corrupt", held \cup have)
            ELSE /\ parse' = [layer |-> next, got |-> got, status |-> "ok"]
                 /\ held' = held \cup blocks /\ CallerFrame
    BY <1>2 DEF Attach
  <2>2. CASE have # blocks \/ ~sound
    BY <2>1, <2>2, FailHolds
  <2>3. CASE ~(have # blocks \/ ~sound)
    BY <2>1, <2>3 DEF Holding, Whole, Released
  <2> QED
    BY <2>2, <2>3
<1> QED
  BY <1>1, <1>2

(* At first nothing is held.                                               *)
LEMMA InitHolds == Init => Holding
BY EmptyIsWhole DEF Init, Idle, Holding

(* The edits change the file only.                                         *)
LEMMA EditFrame == Edit => UNCHANGED <<parse, held>>
BY DEF Edit, Reorder, AddVendorSection, Regroup, RewriteMetadata, DropSection, RepeatSection,
       ClearPartial, Truncate, Damage, Forge, ChangeForm, ChangeContent

(* A caller that saves, edits or begins a parse holds nothing.             *)
LEMMA CallerHolds ==
    ASSUME Holding, \/ \E r \in Results : Save(r)
                    \/ Edit
                    \/ \E bytes \in Limits : Begin(bytes)
                    \/ Close
    PROVE  Holding'
<1>1. CASE \E r \in Results : Save(r)
  BY <1>1 DEF Save, Holding, Whole, Released
<1>2. CASE Edit
  BY <1>2, EditFrame DEF Holding, Whole, Released
<1>3. CASE \E bytes \in Limits : Begin(bytes)
  BY <1>3 DEF Begin, Idle, Holding, Whole, Released
<1>4. CASE Close
  BY <1>4, EmptyIsWhole DEF Close, Idle, Holding, Whole
<1> QED
  BY <1>1, <1>2, <1>3, <1>4

(* Each layer, with the blocks it allocates.                               *)
LEMMA ParseHolds ==
    ASSUME Holding, Parse
    PROVE  Holding'
<1>0. Whole(held)
  BY DEF Holding
<1>1. CASE ParseWovr
  <2> DEFINE p == Section(file, "WOVR")
             columns == SumOver(DOMAIN p.spans, LAMBDA i : p.spans[i].count)
             blocks == <<Block("result", 1, "result"), Block("spans", Len(p.spans), "span"),
                         Block("columns", columns, "column")>>
             Named == {b \in Range(blocks) : b.name \in Reachable}
  <2>1. blocks \in Seq(Named)
    BY DEF Range, Block, Reachable
  <2>2. \A have \in InOrder(blocks) : Whole(held \cup have)
    <3> HIDE DEF blocks, Named
    <3>1. \A have \in InOrder(blocks) : have \subseteq Named
      BY <2>1, InOrderIsPart
    <3> USE DEF Named
    <3> QED
      BY <1>0, <3>1, JoinedIsWhole
  <2>3. \/ \E status : Fail(status, held)
        \/ \E additional, sound, got :
              Attach(additional, Range(blocks), InOrder(blocks), sound, got, "harden")
    BY <1>1 DEF ParseWovr
  <2> HIDE DEF blocks
  <2> QED
    BY <1>0, <2>2, <2>3, FailHolds, AttachHolds
<1>2. CASE HardenWovr
  <2>1. \/ \E status : Fail(status, held)
        \/ Pass("detail", parse.got)
    BY <1>2 DEF HardenWovr
  <2> QED
    BY <1>0, <1>2, <2>1, FailHolds, PassHolds DEF HardenWovr
<1>3. CASE ParseDetail
  <2> DEFINE tiles == SortedTiles(file)
             columns == Len(DataOf(tiles))
             blocks == <<Block("tiles", Len(tiles), "tile"),
                         Block("detail_columns", columns, "column")>>
             Named == {b \in Range(blocks) : b.name \in Reachable}
  <2>1. blocks \in Seq(Named)
    BY DEF Range, Block, Reachable
  <2>2. \A have \in InOrder(blocks) : Whole(held \cup have)
    <3> HIDE DEF blocks, Named
    <3>1. \A have \in InOrder(blocks) : have \subseteq Named
      BY <2>1, InOrderIsPart
    <3> USE DEF Named
    <3> QED
      BY <1>0, <3>1, JoinedIsWhole
  <2>3. \/ \E status : Fail(status, held)
        \/ Pass("metadata", parse.got)
        \/ \E additional, sound, got :
              Attach(additional, Range(blocks), InOrder(blocks), sound, got, "metadata")
    BY <1>3 DEF ParseDetail
  <2>4. parse.layer = "detail"
    BY <1>3 DEF ParseDetail
  <2> HIDE DEF blocks
  <2> QED
    BY <1>0, <2>2, <2>3, <2>4, FailHolds, PassHolds, AttachHolds
<1>4. CASE ParseMetadata
  <2>1. \/ \E status : Fail(status, held)
        \/ Pass("tempo", parse.got)
        \/ \E bytes, got : LET blocks == IF bytes = 0 THEN {}
                                         ELSE {[name |-> "metadata", bytes |-> bytes]}
                           IN Attach(bytes, blocks, {{}, blocks}, TRUE, got, "tempo")
    BY <1>4 DEF ParseMetadata
  <2>2. ASSUME NEW bytes, NEW got, NEW blocks,
               blocks = IF bytes = 0 THEN {} ELSE {[name |-> "metadata", bytes |-> bytes]},
               Attach(bytes, blocks, {{}, blocks}, TRUE, got, "tempo")
        PROVE  Holding'
    <3>1. \A have \in {{}, blocks} : \A b \in have : b.name \in Reachable
      BY <2>2 DEF Reachable
    <3>2. \A have \in {{}, blocks} : Whole(held \cup have)
      BY <1>0, <3>1, JoinedIsWhole
    <3> QED
      BY <2>2, <3>2, AttachHolds
  <2>3. parse.layer = "metadata"
    BY <1>4 DEF ParseMetadata
  <2>4. CASE \E status : Fail(status, held)
    BY <1>0, <2>4, FailHolds
  <2>5. CASE Pass("tempo", parse.got)
    BY <2>3, <2>5, PassHolds
  <2> QED
    BY <2>1, <2>2, <2>4, <2>5
<1>5. CASE ParseTempo
  <2> DEFINE blocks == {Block("candidates", Section(file, "TEMP").feature.candidates, "candidate")}
             provided == {{}, blocks}
  <2>1. \/ \E status : Fail(status, held)
        \/ Pass("global", parse.got)
        \/ \E additional, sound, got : Attach(additional, blocks, provided, sound, got, "local")
    BY <1>5 DEF ParseTempo
  <2>2. \A have \in provided : \A b \in have : b.name \in Reachable
    BY DEF Block, Reachable
  <2>3. \A have \in provided : Whole(held \cup have)
    BY <1>0, <2>2, JoinedIsWhole
  <2>4. parse.layer = "tempo"
    BY <1>5 DEF ParseTempo
  <2> HIDE DEF blocks, provided
  <2> QED
    BY <1>0, <2>1, <2>3, <2>4, FailHolds, PassHolds, AttachHolds
<1>6. CASE ParseLocal
  <2> DEFINE blocks == {Block("coverage", 1, "range"), Block("segments", 1, "segment")}
             provided == SUBSET blocks
  <2>1. \/ \E status : Fail(status, held)
        \/ Pass("global", parse.got)
        \/ \E additional, sound, got : Attach(additional, blocks, provided, sound, got, "global")
    BY <1>6 DEF ParseLocal
  <2>2. \A have \in provided : \A b \in have : b.name \in Reachable
    BY DEF Block, Reachable
  <2>3. \A have \in provided : Whole(held \cup have)
    BY <1>0, <2>2, JoinedIsWhole
  <2>4. parse.layer = "local"
    BY <1>6 DEF ParseLocal
  <2> HIDE DEF blocks, provided
  <2> QED
    BY <1>0, <2>1, <2>3, <2>4, FailHolds, PassHolds, AttachHolds
<1>7. CASE ParseGlobal
  <2> DEFINE p == Section(file, "GGRD")
             s6 == Block("s6", 1, "s6")
             parts == {Block("s6_coverage", 1, "range"),
                       Block("s6_segments", Len(p.segments), "segment")}
                      \cup (IF p.beats = 0 THEN {} ELSE {Block("s6_beats", p.beats, "beat")})
             provided == {{}} \cup {have \cup {s6} : have \in SUBSET parts}
  <2>1. \/ \E status : Fail(status, held)
        \/ Pass("ended", parse.got)
        \/ \E additional, blocks, sound, got :
              Attach(additional, blocks, provided, sound, got, "revision")
    <3>1. \/ \E status : Fail(status, held)
          \/ Pass("ended", parse.got)
          \/ \E additional, sound, got :
                Attach(additional, parts \cup {s6}, provided, sound, got, "revision")
      BY <1>7 DEF ParseGlobal
    <3> HIDE DEF parts, s6, provided
    <3> QED
      BY <3>1
  <2>2. /\ s6.name = "s6" /\ s6.name \in Reachable
        /\ \A b \in parts : b.name \in ReachableFromS6
    BY DEF Block, Reachable, ReachableFromS6
  <2> HIDE DEF s6, parts
  <2>3. ASSUME NEW have \in SUBSET parts
        PROVE  Whole(held \cup (have \cup {s6}))
    <3>1. \A b \in have \cup {s6} : b.name \in Reachable \cup ReachableFromS6
      BY <2>2
    <3> QED
      BY <1>0, <2>2, <3>1, GridIsWhole
  <2>4. \A have \in provided : Whole(held \cup have)
    BY <1>0, <2>3
  <2>5. parse.layer = "global"
    BY <1>7 DEF ParseGlobal
  <2> HIDE DEF provided
  <2> QED
    BY <1>0, <2>1, <2>4, <2>5, FailHolds, PassHolds, AttachHolds
<1>8. CASE ParseRevision
  <2>1. \/ \E status : Fail(status, held)
        \/ \E got : Pass("ended", got)
    BY <1>8 DEF ParseRevision
  <2> QED
    BY <1>0, <1>8, <2>1, FailHolds, PassHolds DEF ParseRevision
<1> QED
  BY <1>1, <1>2, <1>3, <1>4, <1>5, <1>6, <1>7, <1>8 DEF Parse

(* What is held can be released in every state.                            *)
LEMMA HoldingAlways == Spec => []Holding
<1>1. Holding /\ [Next]_vars => Holding'
  <2> SUFFICES ASSUME Holding, [Next]_vars PROVE Holding'
    OBVIOUS
  <2>1. CASE Next
    BY <2>1, CallerHolds, ParseHolds DEF Next
  <2>2. CASE UNCHANGED vars
    BY <2>2 DEF vars, Holding, Whole, Released
  <2> QED
    BY <2>1, <2>2
<1> QED
  BY <1>1, InitHolds, PTL DEF Spec

(* A parse that fails in any of its layers, and a result that is released, *)
(* leave no block behind in the context, whatever the file says, whichever *)
(* allocation fails and whatever the limit.                                *)
THEOREM NothingIsLeftBehind == Spec => []NothingLeaks
<1>1. Holding => NothingLeaks
  BY DEF Holding, NothingLeaks
<1> QED
  BY <1>1, HoldingAlways, PTL

-----------------------------------------------------------------------------
(* Finality.                                                               *)

IsResult(r) ==
    r = [total |-> r.total, completed |-> r.completed, spans |-> r.spans,
         overview |-> r.overview, tiles |-> r.tiles, metadata |-> r.metadata,
         tempo |-> r.tempo, local |-> r.local, global |-> r.global]

IsGlobal(g) ==
    /\ g = [state |-> g.state, segments |-> g.segments, beats |-> g.beats,
            revision |-> g.revision]
    /\ g.revision = [state |-> g.revision.state, id |-> g.revision.id]

GridIsFinal(g) ==
    g.state = "final" /\ \A i \in DOMAIN g.segments : g.segments[i] = "final"

(* What completed promises of the features that have one section each.     *)
FeaturesAreFinal(r) ==
    /\ r.total # Unknown /\ r.overview = "final"
    /\ r.tempo # None => r.tempo.state = "final"
    /\ r.local # None => r.local.state = "final"
    /\ r.global # None => GridIsFinal(r.global)

(* What a layer hands on to the next.                                      *)
(* A result is completed only while it is read from a container that is    *)
(* not flagged partial, and then each layer has let final features pass    *)
(* only; the state of the revision comes last, from a section of its own.  *)
Handed(got, next) ==
    /\ IsResult(got)
    /\ got.completed => ~file.partial /\ FeaturesAreFinal(got)
    /\ next \notin {"revision", "ended"} => got.global = None
    /\ next = "revision" => /\ IsGlobal(got.global)
                            /\ got.completed => GridIsFinal(got.global)
    /\ (next = "ended" /\ got.completed /\ got.global # None) =>
          got.global.revision.state = "applied"

Finality ==
    /\ parse.layer # "ended" => parse.status = "ok"
    /\ parse.layer \notin {"idle", "wovr"} /\ parse.status = "ok" =>
          Handed(parse.got, parse.layer)

(* There is no result at first.                                            *)
LEMMA InitFinality == Init => Finality
BY DEF Init, Idle, Finality

(* A layer that fails hands nothing on.                                    *)
LEMMA FailIsFinal ==
    ASSUME NEW status, status # "ok", NEW S, Fail(status, S)
    PROVE  Finality'
BY DEF Fail, Finality

(* A layer that hands on a final result keeps the promise.                 *)
LEMMA PassIsFinal ==
    ASSUME NEW next, NEW got, Handed(got, next), Pass(next, got)
    PROVE  Finality'
<1>1. parse'.got = got /\ parse'.layer = next /\ parse'.status = "ok" /\ file' = file
  BY DEF Pass, CallerFrame
<1> QED
  BY <1>1 DEF Finality, Handed, IsResult, IsGlobal, FeaturesAreFinal, GridIsFinal

(* So does one that attaches a sound feature.                              *)
LEMMA AttachIsFinal ==
    ASSUME NEW additional, NEW blocks, NEW provided, NEW sound, NEW got, NEW next,
           Attach(additional, blocks, provided, sound, got, next),
           sound => Handed(got, next)
    PROVE  Finality'
<1>1. CASE ~Fits(additional)
  BY <1>1, FailIsFinal DEF Attach
<1>2. CASE Fits(additional)
  <2>1. PICK have \in provided :
            IF have # blocks \/ ~sound
            THEN Fail(IF have # blocks THEN "out_of_memory" ELSE "corrupt", held \cup have)
            ELSE /\ parse' = [layer |-> next, got |-> got, status |-> "ok"]
                 /\ held' = held \cup blocks /\ CallerFrame
    BY <1>2 DEF Attach
  <2>2. CASE have # blocks \/ ~sound
    BY <2>1, <2>2, FailIsFinal
  <2>3. CASE ~(have # blocks \/ ~sound)
    <3>1. /\ parse'.got = got /\ parse'.layer = next /\ parse'.status = "ok"
          /\ file' = file /\ Handed(got, next)
      BY <2>1, <2>3 DEF CallerFrame
    <3> QED
      BY <3>1 DEF Finality, Handed, IsResult, IsGlobal, FeaturesAreFinal, GridIsFinal
  <2> QED
    BY <2>2, <2>3
<1> QED
  BY <1>1, <1>2

(* In the layers above the lowest there is a result to hand on.            *)
LEMMA LayerHasResult ==
    ASSUME Finality, parse.layer \in {"harden", "detail", "metadata", "tempo", "local",
                                      "global", "revision"}
    PROVE  Handed(parse.got, parse.layer)
BY DEF Finality

(* The lowest layer reads the flag and checks the overview against it.     *)
LEMMA WovrIsFinal ==
    ASSUME ParseWovr
    PROVE  Finality'
<1> DEFINE p == Section(file, "WOVR")
           got == [total |-> file.total, completed |-> ~file.partial,
                   spans |-> ReadSpans(p), overview |-> p.state, tiles |-> <<>>,
                   metadata |-> None, tempo |-> None, local |-> None, global |-> None]
<1>1. \/ \E status : status # "ok" /\ Fail(status, held)
      \/ /\ GeometryIsValid(file, p)
         /\ \E additional, blocks, provided, sound :
                Attach(additional, blocks, provided, sound, got, "harden")
  BY DEF ParseWovr
<1>2. ASSUME GeometryIsValid(file, p) PROVE Handed(got, "harden")
  <2>1. /\ StateIsAllowed(p.state, file.partial)
        /\ p.state = "final" => file.total # Unknown
    BY <1>2 DEF GeometryIsValid
  <2> QED
    BY <2>1 DEF Handed, IsResult, FeaturesAreFinal, StateIsAllowed
<1> HIDE DEF got, p
<1> QED
  BY <1>1, <1>2, FailIsFinal, AttachIsFinal

(* The hardening layer adds nothing to the result.                         *)
LEMMA HardenIsFinal ==
    ASSUME Finality, HardenWovr
    PROVE  Finality'
<1>1. \/ Fail("out_of_memory", held) \/ Fail("corrupt", held) \/ Pass("detail", parse.got)
  BY DEF HardenWovr
<1>2. Handed(parse.got, "detail")
  BY LayerHasResult DEF HardenWovr, Handed
<1> QED
  BY <1>1, <1>2, FailIsFinal, PassIsFinal

(* The detail layer adds the tiles only.                                   *)
LEMMA DetailIsFinal ==
    ASSUME Finality, ParseDetail
    PROVE  Finality'
<1> DEFINE got == [parse.got EXCEPT !.tiles = SortedTiles(file)]
<1>1. \/ Fail("corrupt", held) \/ Fail("out_of_memory", held)
      \/ Pass("metadata", parse.got)
      \/ \E additional, blocks, provided, sound :
            Attach(additional, blocks, provided, sound, got, "metadata")
  BY DEF ParseDetail
<1>2. Handed(parse.got, "metadata")
  BY LayerHasResult DEF ParseDetail, Handed
<1>3. Handed(got, "metadata")
  BY <1>2 DEF Handed, IsResult, FeaturesAreFinal
<1> HIDE DEF got
<1> QED
  BY <1>1, <1>2, <1>3, FailIsFinal, PassIsFinal, AttachIsFinal

(* Metadata has no state.                                                  *)
LEMMA MetadataIsFinal ==
    ASSUME Finality, ParseMetadata
    PROVE  Finality'
<1> DEFINE got == [parse.got EXCEPT !.metadata = ReadItems(Section(file, "META"))]
<1>1. \/ Fail("corrupt", held)
      \/ Pass("tempo", parse.got)
      \/ \E additional, blocks, provided, sound :
            Attach(additional, blocks, provided, sound, got, "tempo")
  BY DEF ParseMetadata
<1>2. Handed(parse.got, "tempo")
  BY LayerHasResult DEF ParseMetadata, Handed
<1>3. Handed(got, "tempo")
  BY <1>2 DEF Handed, IsResult, FeaturesAreFinal
<1> HIDE DEF got
<1> QED
  BY <1>1, <1>2, <1>3, FailIsFinal, PassIsFinal, AttachIsFinal

(* A tempo that is not final is refused unless the file is partial.        *)
LEMMA TempoIsFinal ==
    ASSUME Finality, ParseTempo
    PROVE  Finality'
<1> DEFINE t == Section(file, "TEMP").feature
           got == [parse.got EXCEPT !.tempo = t]
<1>1. \/ Fail("corrupt", held)
      \/ Pass("global", parse.got)
      \/ /\ StateIsAllowed(t.state, file.partial)
         /\ \E additional, blocks, provided, sound :
                Attach(additional, blocks, provided, sound, got, "local")
  BY DEF ParseTempo
<1>2. Handed(parse.got, "global") /\ Handed(parse.got, "local")
  BY LayerHasResult DEF ParseTempo, Handed
<1>3. StateIsAllowed(t.state, file.partial) => Handed(got, "local")
  BY <1>2 DEF Handed, IsResult, FeaturesAreFinal, StateIsAllowed
<1> HIDE DEF got, t
<1> QED
  BY <1>1, <1>2, <1>3, FailIsFinal, PassIsFinal, AttachIsFinal

(* So is a local grid.                                                     *)
LEMMA LocalIsFinal ==
    ASSUME Finality, ParseLocal
    PROVE  Finality'
<1> DEFINE g == Section(file, "LGRD").feature
           got == [parse.got EXCEPT !.local = g]
<1>1. \/ Fail("corrupt", held)
      \/ Pass("global", parse.got)
      \/ /\ StateIsAllowed(g.state, file.partial)
         /\ \E additional, blocks, provided, sound :
                Attach(additional, blocks, provided, sound, got, "global")
  BY DEF ParseLocal
<1>2. Handed(parse.got, "global")
  BY LayerHasResult DEF ParseLocal, Handed
<1>3. StateIsAllowed(g.state, file.partial) => Handed(got, "global")
  BY <1>2 DEF Handed, IsResult, FeaturesAreFinal, StateIsAllowed
<1> HIDE DEF got, g
<1> QED
  BY <1>1, <1>2, <1>3, FailIsFinal, PassIsFinal, AttachIsFinal

(* So is a global grid, and each of its segments.                          *)
LEMMA GlobalIsFinal ==
    ASSUME Finality, ParseGlobal
    PROVE  Finality'
<1> DEFINE p == Section(file, "GGRD")
           sound == GridIsAllowed(file, p)
           got == [parse.got EXCEPT !.global =
                      [state |-> p.state, segments |-> p.segments, beats |-> p.beats,
                       revision |-> [state |-> None, id |-> p.revision]]]
<1>1. \/ Fail("corrupt", held)
      \/ Pass("ended", parse.got)
      \/ \E additional, blocks, provided, s :
            /\ s => sound
            /\ Attach(additional, blocks, provided, s, got, "revision")
  BY DEF ParseGlobal
<1>2. Handed(parse.got, "global") /\ Handed(parse.got, "ended")
  BY LayerHasResult DEF ParseGlobal, Handed
<1>3. sound => Handed(got, "revision")
  BY <1>2 DEF Handed, IsResult, IsGlobal, FeaturesAreFinal, GridIsFinal, GridIsAllowed, StateIsAllowed
<1> HIDE DEF got, sound
<1> QED
  BY <1>1, <1>2, <1>3, FailIsFinal, PassIsFinal, AttachIsFinal

(* A revision that is still pending needs a partial file.                  *)
LEMMA RevisionIsFinal ==
    ASSUME Finality, ParseRevision
    PROVE  Finality'
<1> DEFINE p == Section(file, "REVN")
           got == [parse.got EXCEPT !.global.revision.state = p.state]
<1>1. \/ Fail("corrupt", held)
      \/ /\ RevisionIsValid(file, p, Section(file, "GGRD"))
         /\ Pass("ended", got)
  BY DEF ParseRevision
<1>2. Handed(parse.got, "revision")
  BY LayerHasResult DEF ParseRevision, Handed
<1>3. ASSUME RevisionIsValid(file, p, Section(file, "GGRD")) PROVE Handed(got, "ended")
  <2>1. p.state = "applied" \/ file.partial
    BY <1>3 DEF RevisionIsValid
  <2> DEFINE old == parse.got
             global == [state |-> old.global.state, segments |-> old.global.segments,
                        beats |-> old.global.beats,
                        revision |-> [state |-> p.state, id |-> old.global.revision.id]]
  <2>2. IsResult(old) /\ IsGlobal(old.global)
    BY <1>2 DEF Handed
  <2>3. [old.global EXCEPT !.revision.state = p.state] = global
    BY <2>2 DEF IsGlobal
  <2>4. got = [total |-> old.total, completed |-> old.completed, spans |-> old.spans,
               overview |-> old.overview, tiles |-> old.tiles, metadata |-> old.metadata,
               tempo |-> old.tempo, local |-> old.local, global |-> global]
    <3>1. got = [old EXCEPT !.global = [old.global EXCEPT !.revision.state = p.state]]
      BY Zenon
    <3> HIDE DEF global, got
    <3> QED
      BY <2>2, <2>3, <3>1 DEF IsResult
  <2>5. /\ global.state = old.global.state /\ global.segments = old.global.segments
        /\ global.revision.state = p.state
    OBVIOUS
  <2>6. old.completed => GridIsFinal(old.global)
    BY <1>2 DEF Handed
  <2>7. old.completed => ~file.partial /\ FeaturesAreFinal(old)
    BY <1>2 DEF Handed
  <2> HIDE DEF global, got
  <2> QED
    BY <2>1, <2>4, <2>5, <2>6, <2>7 DEF Handed, IsResult, FeaturesAreFinal, GridIsFinal
<1> HIDE DEF got, p
<1> QED
  BY <1>1, <1>3, FailIsFinal, PassIsFinal

(* The file does not change while it is parsed.                            *)
LEMMA FinalityStep == Finality /\ [Next]_vars => Finality'
<1> SUFFICES ASSUME Finality, [Next]_vars PROVE Finality'
  OBVIOUS
<1>1. CASE \E r \in Results : Save(r)
  BY <1>1 DEF Save, Finality
<1>2. CASE Edit
  BY <1>2, EditFrame DEF Edit, Finality
<1>3. CASE \E bytes \in Limits : Begin(bytes)
  BY <1>3 DEF Begin, Idle, Finality
<1>4. CASE Parse
  BY <1>4, WovrIsFinal, HardenIsFinal, DetailIsFinal, MetadataIsFinal, TempoIsFinal,
     LocalIsFinal, GlobalIsFinal, RevisionIsFinal DEF Parse
<1>5. CASE Close
  BY <1>5 DEF Close, Idle, Finality
<1>6. CASE UNCHANGED vars
  BY <1>6 DEF vars, Finality, Handed, IsResult, IsGlobal, FeaturesAreFinal, GridIsFinal
<1> QED
  BY <1>1, <1>2, <1>3, <1>4, <1>5, <1>6 DEF Next

-----------------------------------------------------------------------------
(* Sums.                                                                   *)

(* A set of naturals has a least element: the sets 0 .. x - 1 cannot       *)
(* shrink for ever.                                                        *)
LEMMA LeastExists ==
    ASSUME NEW T \in SUBSET Nat, T # {}
    PROVE  \E x \in T : \A y \in T : x <= y
<1> DEFINE Below == {0 .. x - 1 : x \in T}
<1>1. Below \subseteq FiniteSubsetsOf(Nat) /\ Below # {}
  <2>1. \A x \in T : IsFiniteSet(0 .. x - 1) /\ 0 .. x - 1 \in SUBSET Nat
    BY FS_Interval
  <2> QED
    BY <2>1 DEF FiniteSubsetsOf
<1>2. \E X \in Below : \A Y \in Below : ~(<<Y, X>> \in StrictSubsetOrdering(Nat))
  BY <1>1, WFMin, FS_StrictSubsetOrderingWellFounded, Zenon
<1>3. PICK x \in T : \A y \in T : ~(<<0 .. y - 1, 0 .. x - 1>> \in StrictSubsetOrdering(Nat))
  BY <1>2
<1>4. ASSUME NEW y \in T, y < x PROVE FALSE
  <2>1. 0 .. y - 1 \subseteq 0 .. x - 1 /\ 0 .. y - 1 # 0 .. x - 1
    <3>1. x \in Nat /\ y \in Nat
      OBVIOUS
    <3>2. y \in 0 .. x - 1 /\ y \notin 0 .. y - 1
      BY <3>1, <1>4
    <3> QED
      BY <3>1, <3>2, <1>4
  <2>2. <<0 .. y - 1, 0 .. x - 1>> \in StrictSubsetOrdering(Nat)
    BY <2>1, <1>1, SMT DEF StrictSubsetOrdering, FiniteSubsetsOf
  <2> QED
    BY <2>2, <1>3
<1> QED
  BY <1>4

(* Induction over an interval, as a fact about sets.                       *)
LEMMA Induction ==
    ASSUME NEW n \in Nat, NEW T \in SUBSET (0 .. n), 0 \in T,
           \A i \in 1 .. n : i - 1 \in T => i \in T
    PROVE  T = 0 .. n
<1> SUFFICES ASSUME (0 .. n) \ T # {} PROVE FALSE
  OBVIOUS
<1>1. PICK x \in (0 .. n) \ T : \A y \in (0 .. n) \ T : x <= y
  <2>1. (0 .. n) \ T \in SUBSET Nat
    OBVIOUS
  <2> QED
    BY <2>1, LeastExists
<1>2. x \in 1 .. n
  BY <1>1
<1>3. x - 1 \in 0 .. n /\ ~(x <= x - 1)
  BY <1>2
<1> QED
  BY <1>1, <1>2, <1>3

(* A table of the sums over the subsets of S, as FoldSet computes them.    *)
Pick(s) == CHOOSE x \in s : TRUE
FoldBody(g, s, w) == IF s = {} THEN 0 ELSE w[Pick(s)] + g[s \ {Pick(s)}]
IsFold(g, S, w) == g = [s \in SUBSET S |-> FoldBody(g, s, w)]

(* Taking any element from a finite set leaves one element fewer.          *)
LEMMA PickIs ==
    ASSUME NEW S, IsFiniteSet(S), NEW s \in SUBSET S
    PROVE  /\ IsFiniteSet(s) /\ Cardinality(s) \in Nat
           /\ Cardinality(s) = 0 <=> s = {}
           /\ s # {} => Pick(s) \in s
           /\ \A x \in s : /\ s \ {x} \in SUBSET S
                           /\ Cardinality(s \ {x}) \in Nat
                           /\ Cardinality(s \ {x}) = Cardinality(s) - 1
<1>1. IsFiniteSet(s) /\ Cardinality(s) \in Nat
  BY FS_Subset, FS_CardinalityType
<1>2. Cardinality(s) = 0 <=> s = {}
  BY <1>1, FS_EmptySet
<1>3. s # {} => Pick(s) \in s
  BY DEF Pick
<1>4. ASSUME NEW x \in s
      PROVE  Cardinality(s \ {x}) = Cardinality(s) - 1 /\ Cardinality(s \ {x}) \in Nat
  <2>1. IsFiniteSet(s \ {x}) /\ Cardinality(s \ {x}) = Cardinality(s) - 1
    BY <1>1, FS_RemoveElement
  <2> QED
    BY <2>1, FS_CardinalityType
<1> QED
  BY <1>1, <1>2, <1>3, <1>4

(* A sum over the subsets of a finite set exists, by induction on their    *)
(* size.                                                                   *)
LEMMA FoldExists ==
    ASSUME NEW S, IsFiniteSet(S), NEW w, \A x \in S : w[x] \in Nat
    PROVE  \E g \in [SUBSET S -> Nat] : IsFold(g, S, w)
<1> DEFINE n == Cardinality(S)
           Upto(g, k) == /\ g \in [SUBSET S -> Nat]
                         /\ \A s \in SUBSET S : Cardinality(s) <= k => g[s] = FoldBody(g, s, w)
           T == {k \in 0 .. n : \E g : Upto(g, k)}
<1>0. n \in Nat
  BY FS_CardinalityType
<1>1. 0 \in T
  <2> DEFINE g == [s \in SUBSET S |-> 0]
  <2>1. \A s \in SUBSET S : Cardinality(s) <= 0 => s = {}
    BY PickIs
  <2>2. Upto(g, 0)
    BY <2>1 DEF FoldBody
  <2> HIDE DEF Upto, g
  <2> QED
    BY <2>2, <1>0
<1>2. ASSUME NEW k \in 1 .. n, k - 1 \in T PROVE k \in T
  <2>1. PICK g : Upto(g, k - 1)
    BY <1>2
  <2> DEFINE h == [s \in SUBSET S |-> IF Cardinality(s) = k THEN FoldBody(g, s, w) ELSE g[s]]
  <2>2. ASSUME NEW s \in SUBSET S PROVE FoldBody(g, s, w) \in Nat
    <3>1. CASE s = {}
      BY <3>1 DEF FoldBody
    <3>2. CASE s # {}
      <4>1. Pick(s) \in S /\ s \ {Pick(s)} \in SUBSET S
        BY <3>2, PickIs
      <4>2. w[Pick(s)] \in Nat /\ g[s \ {Pick(s)}] \in Nat
        BY <4>1, <2>1
      <4> QED
        BY <3>2, <4>2 DEF FoldBody
    <3> QED
      BY <3>1, <3>2
  <2>3. h \in [SUBSET S -> Nat]
    BY <2>1, <2>2
  <2>4. ASSUME NEW s \in SUBSET S, Cardinality(s) <= k PROVE FoldBody(h, s, w) = FoldBody(g, s, w)
    <3>1. CASE s = {}
      BY <3>1 DEF FoldBody
    <3>2. CASE s # {}
      <4>1. /\ s \ {Pick(s)} \in SUBSET S
            /\ Cardinality(s \ {Pick(s)}) = Cardinality(s) - 1 /\ Cardinality(s) \in Nat
        BY <3>2, PickIs
      <4>2. Cardinality(s \ {Pick(s)}) # k
        BY <4>1, <2>4
      <4>3. h[s \ {Pick(s)}] = g[s \ {Pick(s)}]
        BY <4>1, <4>2
      <4> QED
        BY <3>2, <4>3 DEF FoldBody
    <3> QED
      BY <3>1, <3>2
  <2>5. ASSUME NEW s \in SUBSET S, Cardinality(s) <= k PROVE h[s] = FoldBody(h, s, w)
    <3>1. CASE Cardinality(s) = k
      BY <3>1, <2>4, <2>5
    <3>2. CASE Cardinality(s) # k
      <4>1. Cardinality(s) <= k - 1
        <5>1. Cardinality(s) \in Nat
          BY PickIs
        <5> QED
          BY <5>1, <3>2, <2>5
      <4>2. h[s] = FoldBody(g, s, w)
        BY <4>1, <3>2, <2>1
      <4> QED
        BY <4>2, <2>4, <2>5
    <3> QED
      BY <3>1, <3>2
  <2>6. Upto(h, k)
    BY <2>3, <2>5
  <2> HIDE DEF Upto, h
  <2> QED
    BY <2>6
<1> HIDE DEF Upto
<1>3. T = 0 .. n
  <2>1. T \in SUBSET (0 .. n)
    OBVIOUS
  <2> HIDE DEF T
  <2> QED
    BY <1>0, <1>1, <1>2, <2>1, Induction
<1>4. PICK g : Upto(g, n)
  <2>1. n \in T
    BY <1>3, <1>0
  <2> QED
    BY <2>1
<1>5. ASSUME NEW s \in SUBSET S PROVE g[s] = FoldBody(g, s, w)
  <2>1. Cardinality(s) <= n
    BY FS_Subset
  <2> QED
    BY <2>1, <1>4 DEF Upto
<1>6. g \in [SUBSET S -> Nat]
  BY <1>4 DEF Upto
<1>7. IsFold(g, S, w)
  BY <1>5, <1>6 DEF IsFold
<1> QED
  BY <1>6, <1>7

(* Two tables agree where their sets and weights do.                       *)
LEMMA FoldIsUnique ==
    ASSUME NEW S, IsFiniteSet(S), NEW w, NEW g, IsFold(g, S, w),
           NEW R, IsFiniteSet(R), NEW v, NEW h, IsFold(h, R, v),
           NEW U, U \subseteq S, U \subseteq R, \A x \in U : w[x] = v[x]
    PROVE  g[U] = h[U]
<1> DEFINE n == Cardinality(U)
           T == {k \in 0 .. n : \A s \in SUBSET U : Cardinality(s) <= k => g[s] = h[s]}
<1>0. IsFiniteSet(U) /\ n \in Nat
  BY FS_Subset, FS_CardinalityType
<1>1. \A s \in SUBSET U : g[s] = FoldBody(g, s, w) /\ h[s] = FoldBody(h, s, v)
  BY DEF IsFold
<1>2. 0 \in T
  <2>1. \A s \in SUBSET U : Cardinality(s) <= 0 => s = {}
    BY <1>0, PickIs
  <2>2. g[{}] = h[{}]
    BY <1>1 DEF FoldBody
  <2> QED
    BY <2>1, <2>2, <1>0
<1>3. ASSUME NEW k \in 1 .. n, k - 1 \in T PROVE k \in T
  <2>1. ASSUME NEW s \in SUBSET U, Cardinality(s) <= k PROVE g[s] = h[s]
    <3>1. CASE s = {}
      BY <3>1, <1>1 DEF FoldBody
    <3>2. CASE s # {}
      <4> DEFINE x == Pick(s)
      <4>1. /\ x \in s /\ s \ {x} \in SUBSET U /\ Cardinality(s) \in Nat
            /\ Cardinality(s \ {x}) = Cardinality(s) - 1
        BY <3>2, <1>0, PickIs
      <4>2. Cardinality(s \ {x}) <= k - 1
        BY <4>1, <2>1
      <4>3. g[s \ {x}] = h[s \ {x}] /\ w[x] = v[x]
        BY <4>1, <4>2, <1>3
      <4> QED
        BY <4>3, <3>2, <1>1 DEF FoldBody
    <3> QED
      BY <3>1, <3>2
  <2> QED
    BY <2>1
<1>4. T = 0 .. n
  <2>1. T \in SUBSET (0 .. n)
    OBVIOUS
  <2> HIDE DEF T
  <2> QED
    BY <1>0, <1>2, <1>3, <2>1, Induction
<1>5. n \in T
  BY <1>4, <1>0
<1> QED
  BY <1>5

Total(S, w) == (CHOOSE g : IsFold(g, S, w))[S]

(* The fold over a set of naturals is that sum.                            *)
LEMMA SumIs ==
    ASSUME NEW S, IsFiniteSet(S), NEW w, \A x \in S : w[x] \in Nat
    PROVE  \E g \in [SUBSET S -> Nat] : /\ IsFold(g, S, w)
                                        /\ \A s \in SUBSET S : g[s] = Total(s, w)
<1>1. PICK g \in [SUBSET S -> Nat] : IsFold(g, S, w)
  BY FoldExists
<1>2. ASSUME NEW s \in SUBSET S PROVE g[s] = Total(s, w)
  <2> DEFINE h == CHOOSE h : IsFold(h, s, w)
  <2>1. IsFiniteSet(s) /\ \A x \in s : w[x] \in Nat
    BY FS_Subset
  <2>2. \E h1 : IsFold(h1, s, w)
    BY <2>1, FoldExists
  <2>3. IsFold(h, s, w)
    BY <2>2
  <2>4. Total(s, w) = h[s]
    BY DEF Total
  <2> HIDE DEF h
  <2> QED
    BY <1>1, <2>1, <2>3, <2>4, FoldIsUnique
<1> QED
  BY <1>1, <1>2

(* Any member may be taken first.                                          *)
LEMMA SumAdd ==
    ASSUME NEW S, IsFiniteSet(S), NEW w, \A x \in S : w[x] \in Nat
    PROVE  /\ Total(S, w) \in Nat
           /\ S = {} => Total(S, w) = 0
           /\ \A x \in S : Total(S, w) = w[x] + Total(S \ {x}, w)
<1>1. PICK g \in [SUBSET S -> Nat] : IsFold(g, S, w) /\ \A s \in SUBSET S : g[s] = Total(s, w)
  BY SumIs
<1> DEFINE n == Cardinality(S)
           TakesAny(s) == \A x \in s : g[s] = w[x] + g[s \ {x}]
           T == {k \in 0 .. n : \A s \in SUBSET S : Cardinality(s) <= k => TakesAny(s)}
<1>0. n \in Nat
  BY FS_CardinalityType
<1>2. \A s \in SUBSET S : g[s] = FoldBody(g, s, w) /\ g[s] \in Nat
  BY <1>1 DEF IsFold
<1>3. 0 \in T
  <2>1. \A s \in SUBSET S : Cardinality(s) <= 0 => s = {}
    BY PickIs
  <2> QED
    BY <2>1, <1>0
<1>4. ASSUME NEW k \in 1 .. n, k - 1 \in T PROVE k \in T
  <2>1. ASSUME NEW s \in SUBSET S, Cardinality(s) <= k, NEW x \in s PROVE g[s] = w[x] + g[s \ {x}]
    <3> DEFINE y == Pick(s)
               sx == s \ {x}
               sy == s \ {y}
               sxy == s \ {x, y}
    <3>1. /\ y \in s /\ sx \in SUBSET S /\ sy \in SUBSET S /\ sxy \in SUBSET S
          /\ Cardinality(s) \in Nat
          /\ Cardinality(sx) = Cardinality(s) - 1 /\ Cardinality(sy) = Cardinality(s) - 1
      BY PickIs
    <3>2. g[s] = w[y] + g[sy]
      BY <1>2, <2>1 DEF FoldBody
    <3>3. CASE x = y
      BY <3>2, <3>3
    <3>4. CASE x # y
      <4>1. Cardinality(sx) <= k - 1 /\ Cardinality(sy) <= k - 1
        BY <3>1, <2>1
      <4>2. TakesAny(sx) /\ TakesAny(sy)
        BY <4>1, <3>1, <1>4
      <4>3. x \in sy /\ y \in sx /\ sy \ {x} = sxy /\ sx \ {y} = sxy
        BY <3>1, <3>4
      <4>4. g[sy] = w[x] + g[sxy] /\ g[sx] = w[y] + g[sxy]
        BY <4>2, <4>3
      <4>5. /\ w[x] \in Nat /\ w[y] \in Nat /\ g[sxy] \in Nat
        BY <3>1, <1>2
      <4> HIDE DEF sx, sy, sxy, y
      <4>6. g[s] = w[x] + g[sx]
        BY <4>4, <4>5, <3>2
      <4> QED
        BY <4>6 DEF sx
    <3> QED
      BY <3>3, <3>4
  <2> QED
    BY <2>1
<1>5. T = 0 .. n
  <2>1. T \in SUBSET (0 .. n)
    OBVIOUS
  <2> HIDE DEF T
  <2> QED
    BY <1>0, <1>3, <1>4, <2>1, Induction
<1>6. n \in T
  BY <1>5, <1>0
<1>7. TakesAny(S)
  <2>1. S \in SUBSET S /\ Cardinality(S) <= n
    BY <1>0
  <2> QED
    BY <2>1, <1>6
<1>8. g[S] = Total(S, w) /\ \A x \in S : g[S \ {x}] = Total(S \ {x}, w)
  BY <1>1
<1>9. S = {} => g[S] = 0
  BY <1>2 DEF FoldBody
<1> QED
  BY <1>2, <1>7, <1>8, <1>9

(* The weights outside the set do not matter.                              *)
LEMMA SumWeights ==
    ASSUME NEW S, IsFiniteSet(S), NEW w, \A x \in S : w[x] \in Nat,
           NEW v, \A x \in S : v[x] = w[x]
    PROVE  Total(S, v) = Total(S, w)
<1>1. PICK g \in [SUBSET S -> Nat] : IsFold(g, S, w) /\ \A s \in SUBSET S : g[s] = Total(s, w)
  BY SumIs
<1>2. \A x \in S : v[x] \in Nat
  OBVIOUS
<1>3. PICK h \in [SUBSET S -> Nat] : IsFold(h, S, v) /\ \A s \in SUBSET S : h[s] = Total(s, v)
  BY <1>2, SumIs
<1>4. g[S] = h[S]
  <2>1. S \subseteq S /\ \A x \in S : w[x] = v[x]
    OBVIOUS
  <2> QED
    BY <1>1, <1>3, <2>1, FoldIsUnique
<1> QED
  BY <1>1, <1>3, <1>4

(* The two sums of the model.                                              *)
LEMMA BytesAreSum ==
    ASSUME NEW S, IsFiniteSet(S), \A b \in S : b.bytes \in Nat
    PROVE  BytesOf(S) = Total(S, [b \in S |-> b.bytes])
<1> DEFINE w == [b \in S |-> b.bytes]
           Table(g) == g = [s \in SUBSET S |->
                               IF s = {} THEN 0
                               ELSE (CHOOSE x \in s : TRUE).bytes + g[s \ {CHOOSE x \in s : TRUE}]]
           h == CHOOSE g : Table(g)
<1>1. PICK g \in [SUBSET S -> Nat] : IsFold(g, S, w) /\ \A s \in SUBSET S : g[s] = Total(s, w)
  BY SumIs
<1>2. \A s \in SUBSET S : s # {} => w[CHOOSE x \in s : TRUE] = (CHOOSE x \in s : TRUE).bytes
  OBVIOUS
<1>3. ASSUME NEW k PROVE Table(k) <=> IsFold(k, S, w)
  <2> DEFINE A == [s \in SUBSET S |->
                      IF s = {} THEN 0
                      ELSE (CHOOSE x \in s : TRUE).bytes + k[s \ {CHOOSE x \in s : TRUE}]]
             B == [s \in SUBSET S |-> FoldBody(k, s, w)]
  <2>1. ASSUME NEW s \in SUBSET S PROVE A[s] = B[s]
    <3> HIDE DEF w
    <3> QED
      BY <1>2 DEF FoldBody, Pick
  <2>2. A = B
    <3>1. A = [s \in SUBSET S |-> A[s]] /\ B = [s \in SUBSET S |-> B[s]]
      OBVIOUS
    <3> HIDE DEF A, B
    <3> QED
      BY <2>1, <3>1
  <2>3. Table(k) <=> k = A
    OBVIOUS
  <2>4. IsFold(k, S, w) <=> k = B
    BY DEF IsFold
  <2> HIDE DEF A, B, Table
  <2> QED
    BY <2>2, <2>3, <2>4
<1>4. BytesOf(S) = h[S]
  BY Zenon DEF BytesOf, SumOver, FoldSet, MapThenFoldSet
<1>5. Table(h)
  <2>1. Table(g)
    BY <1>1, <1>3
  <2> HIDE DEF Table
  <2> QED
    BY <2>1
<1>6. IsFold(h, S, w)
  BY <1>3, <1>5
<1> HIDE DEF h, w
<1>7. h[S] = g[S]
  <2>1. S \subseteq S /\ \A x \in S : w[x] = w[x]
    OBVIOUS
  <2> QED
    BY <1>1, <1>6, <2>1, FoldIsUnique
<1> QED
  BY <1>1, <1>4, <1>7 DEF w

(* The columns of the spans, as a total.                                   *)
LEMMA CountsAreSum ==
    ASSUME NEW spans, IsFiniteSet(DOMAIN spans), \A i \in DOMAIN spans : spans[i].count \in Nat
    PROVE  SumOver(DOMAIN spans, LAMBDA i : spans[i].count) = Total(DOMAIN spans, [i \in DOMAIN spans |-> spans[i].count])
<1> DEFINE S == DOMAIN spans
           w == [i \in S |-> spans[i].count]
           Table(g) == g = [s \in SUBSET S |->
                               IF s = {} THEN 0
                               ELSE spans[CHOOSE x \in s : TRUE].count + g[s \ {CHOOSE x \in s : TRUE}]]
           h == CHOOSE g : Table(g)
<1>1. PICK g \in [SUBSET S -> Nat] : IsFold(g, S, w) /\ \A s \in SUBSET S : g[s] = Total(s, w)
  BY SumIs
<1>2. \A s \in SUBSET S : s # {} => w[CHOOSE x \in s : TRUE] = spans[CHOOSE x \in s : TRUE].count
  OBVIOUS
<1>3. ASSUME NEW k PROVE Table(k) <=> IsFold(k, S, w)
  <2> DEFINE A == [s \in SUBSET S |->
                      IF s = {} THEN 0
                      ELSE spans[CHOOSE x \in s : TRUE].count + k[s \ {CHOOSE x \in s : TRUE}]]
             B == [s \in SUBSET S |-> FoldBody(k, s, w)]
  <2>1. ASSUME NEW s \in SUBSET S PROVE A[s] = B[s]
    <3> HIDE DEF w
    <3> QED
      BY <1>2 DEF FoldBody, Pick
  <2>2. A = B
    <3>1. A = [s \in SUBSET S |-> A[s]] /\ B = [s \in SUBSET S |-> B[s]]
      OBVIOUS
    <3> HIDE DEF A, B
    <3> QED
      BY <2>1, <3>1
  <2>3. Table(k) <=> k = A
    OBVIOUS
  <2>4. IsFold(k, S, w) <=> k = B
    BY DEF IsFold
  <2> HIDE DEF A, B, Table
  <2> QED
    BY <2>2, <2>3, <2>4
<1>4. SumOver(S, LAMBDA i : spans[i].count) = h[S]
  BY Zenon DEF SumOver, FoldSet, MapThenFoldSet
<1>5. Table(h)
  <2>1. Table(g)
    BY <1>1, <1>3
  <2> HIDE DEF Table
  <2> QED
    BY <2>1
<1>6. IsFold(h, S, w)
  BY <1>3, <1>5
<1> HIDE DEF h, w
<1>7. h[S] = g[S]
  <2>1. S \subseteq S /\ \A x \in S : w[x] = w[x]
    OBVIOUS
  <2> QED
    BY <1>1, <1>6, <2>1, FoldIsUnique
<1> QED
  BY <1>1, <1>4, <1>7 DEF w

(* The bytes of the metadata values, as a total.                           *)
LEMMA TextsAreSum ==
    ASSUME NEW items, IsFiniteSet(DOMAIN items), \A i \in DOMAIN items : TextBytes(items[i]) \in Nat
    PROVE  SumOver(DOMAIN items, LAMBDA i : TextBytes(items[i])) = Total(DOMAIN items, [i \in DOMAIN items |-> TextBytes(items[i])])
<1> DEFINE S == DOMAIN items
           w == [i \in S |-> TextBytes(items[i])]
           Table(g) == g = [s \in SUBSET S |->
                               IF s = {} THEN 0
                               ELSE TextBytes(items[CHOOSE x \in s : TRUE]) + g[s \ {CHOOSE x \in s : TRUE}]]
           h == CHOOSE g : Table(g)
<1>1. PICK g \in [SUBSET S -> Nat] : IsFold(g, S, w) /\ \A s \in SUBSET S : g[s] = Total(s, w)
  BY SumIs
<1>2. \A s \in SUBSET S : s # {} => w[CHOOSE x \in s : TRUE] = TextBytes(items[CHOOSE x \in s : TRUE])
  OBVIOUS
<1>3. ASSUME NEW k PROVE Table(k) <=> IsFold(k, S, w)
  <2> DEFINE A == [s \in SUBSET S |->
                      IF s = {} THEN 0
                      ELSE TextBytes(items[CHOOSE x \in s : TRUE]) + k[s \ {CHOOSE x \in s : TRUE}]]
             B == [s \in SUBSET S |-> FoldBody(k, s, w)]
  <2>1. ASSUME NEW s \in SUBSET S PROVE A[s] = B[s]
    <3> HIDE DEF w
    <3> QED
      BY <1>2 DEF FoldBody, Pick
  <2>2. A = B
    <3>1. A = [s \in SUBSET S |-> A[s]] /\ B = [s \in SUBSET S |-> B[s]]
      OBVIOUS
    <3> HIDE DEF A, B
    <3> QED
      BY <2>1, <3>1
  <2>3. Table(k) <=> k = A
    OBVIOUS
  <2>4. IsFold(k, S, w) <=> k = B
    BY DEF IsFold
  <2> HIDE DEF A, B, Table
  <2> QED
    BY <2>2, <2>3, <2>4
<1>4. SumOver(S, LAMBDA i : TextBytes(items[i])) = h[S]
  BY Zenon DEF SumOver, FoldSet, MapThenFoldSet
<1>5. Table(h)
  <2>1. Table(g)
    BY <1>1, <1>3
  <2> HIDE DEF Table
  <2> QED
    BY <2>1
<1>6. IsFold(h, S, w)
  BY <1>3, <1>5
<1> HIDE DEF h, w
<1>7. h[S] = g[S]
  <2>1. S \subseteq S /\ \A x \in S : w[x] = w[x]
    OBVIOUS
  <2> QED
    BY <1>1, <1>6, <2>1, FoldIsUnique
<1> QED
  BY <1>1, <1>4, <1>7 DEF w

-----------------------------------------------------------------------------
(* Joined sequences.                                                       *)

(* The joints of the first k sequences of d, for every k up to n.          *)
IsJoint(P, d, n) ==
    /\ DOMAIN P = 0 .. n /\ P[0] = <<>>
    /\ \A i \in 1 .. n : P[i] = P[i - 1] \o d[i]

(* The joints of sequences exist, by induction on their number.            *)
LEMMA JointExists ==
    ASSUME NEW S, NEW n \in Nat, NEW d, \A i \in 1 .. n : d[i] \in Seq(S)
    PROVE  \E P \in [0 .. n -> Seq(S)] : IsJoint(P, d, n)
<1> DEFINE T == {m \in 0 .. n : \E P \in [0 .. m -> Seq(S)] : IsJoint(P, d, m)}
<1>1. 0 \in T
  <2> DEFINE P == [k \in 0 .. 0 |-> <<>>]
  <2>1. P \in [0 .. 0 -> Seq(S)] /\ IsJoint(P, d, 0)
    BY DEF IsJoint
  <2> QED
    BY <2>1
<1>2. ASSUME NEW m \in 1 .. n, m - 1 \in T PROVE m \in T
  <2>1. PICK P \in [0 .. m - 1 -> Seq(S)] : IsJoint(P, d, m - 1)
    BY <1>2
  <2> DEFINE Q == [k \in 0 .. m |-> IF k = m THEN P[m - 1] \o d[m] ELSE P[k]]
  <2>2. P[m - 1] \in Seq(S) /\ d[m] \in Seq(S)
    OBVIOUS
  <2>3. P[m - 1] \o d[m] \in Seq(S)
    BY <2>2
  <2>4. Q \in [0 .. m -> Seq(S)]
    BY <2>3
  <2>5. Q[0] = <<>>
    BY <2>1 DEF IsJoint
  <2>6. ASSUME NEW i \in 1 .. m PROVE Q[i] = Q[i - 1] \o d[i]
    <3>1. CASE i = m
      <4>1. i \in 0 .. m /\ i - 1 \in 0 .. m /\ i - 1 # m /\ i - 1 = m - 1
        BY <3>1
      <4> QED
        BY <3>1, <4>1
    <3>2. CASE i # m
      <4>1. i \in 1 .. m - 1 /\ i \in 0 .. m /\ i - 1 \in 0 .. m /\ i - 1 # m
        BY <3>2
      <4>2. P[i] = P[i - 1] \o d[i]
        BY <4>1, <2>1 DEF IsJoint
      <4> QED
        BY <4>1, <4>2, <3>2
    <3> QED
      BY <3>1, <3>2
  <2>7. DOMAIN Q = 0 .. m
    OBVIOUS
  <2> HIDE DEF Q
  <2>8. IsJoint(Q, d, m)
    BY <2>5, <2>6, <2>7 DEF IsJoint
  <2> QED
    BY <2>4, <2>8
<1>3. T = 0 .. n
  <2>1. T \in SUBSET (0 .. n)
    OBVIOUS
  <2> HIDE DEF T
  <2> QED
    BY <1>1, <1>2, <2>1, Induction
<1> QED
  BY <1>3

(* The joints and their parts as facts about one place at a time.          *)
JointOf(P, d, n, S) ==
    /\ P \in [0 .. n -> Seq(S)] /\ IsJoint(P, d, n)
    /\ \A i \in 1 .. n : d[i] \in Seq(S)

FirstOf(s, d, k, S) == s \in [1 .. k -> Seq(S)] /\ \A i \in 1 .. k : s[i] = d[i]

(* FlattenSeq computes the last joint.                                     *)
LEMMA FlattenIs ==
    ASSUME NEW S, NEW n \in Nat, NEW d, NEW P, JointOf(P, d, n, S), NEW k \in 0 .. n,
           NEW s, FirstOf(s, d, k, S)
    PROVE  FlattenSeq(s) = P[k]
<1>j. P \in [0 .. n -> Seq(S)] /\ IsJoint(P, d, n) /\ \A i \in 1 .. n : d[i] \in Seq(S)
  BY DEF JointOf
<1> DEFINE Table(g) == g = [i \in 1 .. Len(s) |-> IF i = 1 THEN s[i] ELSE g[i - 1] \o s[i]]
           h == CHOOSE g : Table(g)
           p == [i \in 1 .. k |-> P[i]]
<1>0. k \in Nat /\ \A i \in 1 .. k : i \in 1 .. n
  OBVIOUS
<1>1. s \in Seq(Seq(S)) /\ Len(s) = k /\ \A i \in 1 .. k : s[i] = d[i]
  BY <1>0 DEF FirstOf
<1>2. CASE k = 0
  <2>1. s = <<>>
    BY <1>1, <1>2
  <2>2. FlattenSeq(s) = s
    BY <1>1, <1>2, Zenon DEF FlattenSeq
  <2> QED
    BY <2>1, <2>2, <1>2, <1>j DEF IsJoint
<1>3. CASE k # 0
  <2>1. FlattenSeq(s) = h[Len(s)]
    <3> QED
      BY <1>1, <1>3, Zenon DEF FlattenSeq
  <2>2. Table(p)
    <3> DEFINE q == [i \in 1 .. Len(s) |-> IF i = 1 THEN s[i] ELSE p[i - 1] \o s[i]]
    <3>1. ASSUME NEW i \in 1 .. k PROVE p[i] = q[i]
      <4>1. P[i] = P[i - 1] \o d[i] /\ d[i] \in Seq(S) /\ s[i] = d[i]
        BY <1>0, <1>1, <1>j DEF IsJoint
      <4>2. CASE i = 1
        <5>1. P[i - 1] = <<>>
          BY <4>2, <1>j DEF IsJoint
        <5>2. P[i] = d[i]
          BY <5>1, <4>1
        <5> QED
          BY <5>2, <4>1, <4>2, <1>1
      <4>3. CASE i # 1
        <5>1. i - 1 \in 1 .. k
          BY <4>3
        <5> QED
          BY <5>1, <4>1, <4>3, <1>1
      <4> QED
        BY <4>2, <4>3
    <3>2. p = [i \in 1 .. k |-> p[i]] /\ q = [i \in 1 .. k |-> q[i]]
      <4> QED
        BY <1>1
    <3>3. p = q
      <4> HIDE DEF p, q
      <4> QED
        BY <3>1, <3>2
    <3> HIDE DEF p
    <3> QED
      BY <3>3
  <2>3. Table(h)
    <3> HIDE DEF Table
    <3> QED
      BY <2>2
  <2>4. \A i \in 1 .. k : h[i] = IF i = 1 THEN d[i] ELSE h[i - 1] \o d[i]
    <3>1. \A i \in 1 .. Len(s) : h[i] = IF i = 1 THEN s[i] ELSE h[i - 1] \o s[i]
      <4> HIDE DEF h
      <4>1. h = [i \in 1 .. Len(s) |-> IF i = 1 THEN s[i] ELSE h[i - 1] \o s[i]]
        BY <2>3
      <4> QED
        BY <4>1
    <3> HIDE DEF h
    <3> QED
      BY <3>1, <1>1
  <2> HIDE DEF h, Table
  <2> DEFINE T == {m \in 0 .. k : m = 0 \/ h[m] = P[m]}
  <2>5. T = 0 .. k
    <3>1. ASSUME NEW i \in 1 .. k, i - 1 \in T PROVE i \in T
      <4>1. P[i] = P[i - 1] \o d[i] /\ d[i] \in Seq(S)
        BY <1>0, <1>j DEF IsJoint
      <4>2. h[i] = IF i = 1 THEN d[i] ELSE h[i - 1] \o d[i]
        BY <2>4
      <4>3. CASE i = 1
        <5>1. P[i - 1] = <<>>
          BY <4>3, <1>j DEF IsJoint
        <5>2. P[i] = d[i]
          BY <5>1, <4>1
        <5> QED
          BY <5>2, <4>2, <4>3
      <4>4. CASE i # 1
        <5>1. h[i - 1] = P[i - 1]
          BY <3>1, <4>4
        <5>2. h[i] = h[i - 1] \o d[i]
          BY <4>2, <4>4
        <5>3. h[i] = P[i]
          BY <5>1, <5>2, <4>1
        <5> QED
          BY <5>3
      <4> QED
        BY <4>3, <4>4
    <3>2. T \in SUBSET (0 .. k) /\ 0 \in T
      BY <1>0
    <3> HIDE DEF T
    <3> QED
      BY <1>0, <3>1, <3>2, Induction
  <2>6. h[k] = P[k]
    <3>1. k \in T
      <4> HIDE DEF T
      <4> QED
        BY <2>5, <1>0
    <3> QED
      BY <3>1, <1>3
  <2> QED
    BY <2>1, <2>6, <1>1
<1> QED
  BY <1>2, <1>3

StepOf(P, d, k, S) ==
    /\ P[k] = P[k - 1] \o d[k] /\ d[k] \in Seq(S) /\ P[k - 1] \in Seq(S)
    /\ Len(P[k]) = Len(P[k - 1]) + Len(d[k])
    /\ Len(d[k]) \in Nat /\ Len(P[k - 1]) \in Nat

(* Each joint is the one before it and one more sequence.                  *)
LEMMA JointStep ==
    ASSUME NEW S, NEW n \in Nat, NEW d, NEW P, JointOf(P, d, n, S)
    PROVE  /\ P[0] = <<>> /\ \A k \in 0 .. n : P[k] \in Seq(S)
           /\ \A k \in 1 .. n : StepOf(P, d, k, S)
<1>1. P[0] = <<>> /\ \A k \in 0 .. n : P[k] \in Seq(S)
  BY DEF JointOf, IsJoint
<1>2. ASSUME NEW k \in 1 .. n
      PROVE  P[k] = P[k - 1] \o d[k] /\ d[k] \in Seq(S) /\ P[k - 1] \in Seq(S)
  <2>1. k - 1 \in 0 .. n
    OBVIOUS
  <2> QED
    BY <2>1, <1>1 DEF JointOf, IsJoint
<1>3. ASSUME NEW k \in 1 .. n
      PROVE  /\ Len(P[k]) = Len(P[k - 1]) + Len(d[k])
             /\ Len(d[k]) \in Nat /\ Len(P[k - 1]) \in Nat
  <2>1. P[k] = P[k - 1] \o d[k] /\ d[k] \in Seq(S) /\ P[k - 1] \in Seq(S)
    BY <1>2
  <2> QED
    BY <2>1
<1> QED
  BY <1>1, <1>2, <1>3 DEF StepOf

(* The joints are as long as their parts together.                         *)
LEMMA JointLength ==
    ASSUME NEW S, NEW n \in Nat, NEW d, NEW P, JointOf(P, d, n, S),
           NEW w, w = [i \in 1 .. n |-> Len(d[i])]
    PROVE  Len(P[n]) = Total(1 .. n, w)
<1>s. P[0] = <<>> /\ \A k \in 1 .. n : StepOf(P, d, k, S)
  BY JointStep
<1>0. \A i \in 1 .. n : w[i] \in Nat /\ w[i] = Len(d[i])
  BY <1>s DEF StepOf
<1> DEFINE T == {k \in 0 .. n : Len(P[k]) = Total(1 .. k, w)}
<1>1. 0 \in T
  <2>1. 1 .. 0 = {} /\ IsFiniteSet({})
    BY FS_EmptySet
  <2>2. Total({}, w) = 0
    BY <2>1, SumAdd
  <2>3. P[0] = <<>> /\ Len(<<>>) = 0
    BY <1>s
  <2>4. Len(P[0]) = Total(1 .. 0, w)
    BY <2>1, <2>2, <2>3
  <2> QED
    BY <2>4
<1>2. ASSUME NEW k \in 1 .. n, k - 1 \in T PROVE k \in T
  <2>1. IsFiniteSet(1 .. k) /\ \A i \in 1 .. k : i \in 1 .. n
    BY FS_Interval
  <2>2. Total(1 .. k, w) = w[k] + Total((1 .. k) \ {k}, w)
    <3>1. \A i \in 1 .. k : w[i] \in Nat
      BY <1>0, <2>1
    <3>2. k \in 1 .. k
      OBVIOUS
    <3> HIDE DEF T
    <3> DEFINE K == 1 .. k
    <3>3. IsFiniteSet(K) /\ (\A x \in K : w[x] \in Nat) /\ k \in K
      BY <2>1, <3>1, <3>2
    <3> HIDE DEF K
    <3>4. Total(K, w) = w[k] + Total(K \ {k}, w)
      BY <3>3, SumAdd
    <3> QED
      BY <3>4 DEF K
  <2>3. (1 .. k) \ {k} = 1 .. k - 1
    OBVIOUS
  <2>5. Len(P[k]) = Len(P[k - 1]) + Len(d[k]) /\ Len(P[k - 1]) \in Nat /\ Len(d[k]) \in Nat
    BY <1>s DEF StepOf
  <2>6. Len(P[k - 1]) = Total(1 .. k - 1, w)
    BY <1>2
  <2>7. Len(P[k]) = Total(1 .. k, w)
    <3>1. w[k] = Len(d[k])
      BY <1>0
    <3>2. Total((1 .. k) \ {k}, w) = Len(P[k - 1])
      BY <2>3, <2>6
    <3> DEFINE a == Len(P[k - 1])
               b == Len(d[k])
               c == Len(P[k])
               t == Total(1 .. k, w)
               u == Total((1 .. k) \ {k}, w)
               v == w[k]
    <3>3. c = a + b /\ a \in Nat /\ b \in Nat /\ v = b /\ u = a /\ t = v + u
      BY <2>2, <2>5, <3>1, <3>2, Zenon
    <3> HIDE DEF a, b, c, t, u, v
    <3>4. c = t
      BY <3>3
    <3> QED
      BY <3>4 DEF c, t
  <2> QED
    BY <2>7
<1>3. T = 0 .. n
  <2>1. T \in SUBSET (0 .. n)
    OBVIOUS
  <2> HIDE DEF T
  <2> QED
    BY <1>1, <1>2, <2>1, Induction
<1>4. n \in T
  <2> HIDE DEF T
  <2> QED
    BY <1>3
<1> QED
  BY <1>4

(* A member of a part is found where the parts before it end.              *)
LEMMA JointHolds ==
    ASSUME NEW S, NEW n \in Nat, NEW d, NEW P, JointOf(P, d, n, S),
           NEW i \in 1 .. n, NEW l \in 1 .. Len(d[i])
    PROVE  Len(P[i - 1]) + l \in 1 .. Len(P[n]) /\ P[n][Len(P[i - 1]) + l] = d[i][l]
<1>s. \A k \in 1 .. n : StepOf(P, d, k, S)
  BY JointStep
<1> DEFINE at == Len(P[i - 1]) + l
           Found(k) == at \in 1 .. Len(P[k]) /\ P[k][at] = d[i][l]
           T == {k \in 0 .. n : k >= i => Found(k)}
<1>0. at \in Nat /\ at >= 1 /\ Len(P[i - 1]) \in Nat /\ Len(d[i]) \in Nat /\ l <= Len(d[i])
  BY <1>s DEF StepOf
<1>1. 0 \in T
  <2> HIDE DEF Found
  <2> QED
    OBVIOUS
<1>2. ASSUME NEW k \in 1 .. n, k - 1 \in T PROVE k \in T
  <2>1. P[k] = P[k - 1] \o d[k] /\ P[k - 1] \in Seq(S) /\ d[k] \in Seq(S)
          /\ Len(P[k]) = Len(P[k - 1]) + Len(d[k]) /\ Len(P[k - 1]) \in Nat /\ Len(d[k]) \in Nat
    BY <1>s DEF StepOf
  <2>2. ASSUME k = i PROVE Found(k)
    <3> DEFINE a == Len(P[i - 1])
               b == Len(d[i])
    <3>a. a \in Nat /\ b \in Nat /\ at = a + l /\ l \in Nat /\ l >= 1 /\ l <= b
      BY <1>0
    <3>b. a = Len(P[k - 1]) /\ b = Len(d[k])
      BY <2>2
    <3> HIDE DEF a, b, at
    <3>c. at \in 1 .. a + b /\ at - a = l /\ at > a
      BY <3>a
    <3>1. at \in 1 .. Len(P[k - 1]) + Len(d[k]) /\ at - Len(P[k - 1]) = l /\ at > Len(P[k - 1])
      BY <3>b, <3>c
    <3>2. Len(P[k]) = Len(P[k - 1]) + Len(d[k])
      BY <2>1
    <3>3. P[k][at] = d[k][at - Len(P[k - 1])]
      BY <2>1, <3>1, <1>0
    <3> QED
      BY <3>1, <3>2, <3>3, <2>2
  <2>3. ASSUME k > i PROVE Found(k)
    <3>1. Found(k - 1)
      BY <1>2, <2>3
    <3> HIDE DEF at
    <3> DEFINE a == Len(P[k - 1])
               b == Len(d[k])
    <3>a. a \in Nat /\ b \in Nat /\ at \in 1 .. a
      BY <2>1, <3>1
    <3> HIDE DEF a, b
    <3>b. at \in 1 .. a + b /\ at <= a
      BY <3>a
    <3>2. at \in 1 .. Len(P[k - 1]) + Len(d[k]) /\ at <= Len(P[k - 1])
      BY <3>b DEF a, b
    <3>3. P[k][at] = P[k - 1][at] /\ Len(P[k]) = Len(P[k - 1]) + Len(d[k])
      BY <3>2, <2>1
    <3> QED
      BY <3>1, <3>2, <3>3
  <2> HIDE DEF Found
  <2> QED
    BY <2>2, <2>3
<1>3. T = 0 .. n
  <2>1. T \in SUBSET (0 .. n)
    OBVIOUS
  <2> HIDE DEF T
  <2> QED
    BY <1>1, <1>2, <2>1, Induction
<1>4. n \in T
  <2> HIDE DEF T
  <2> QED
    BY <1>3
<1>5. Found(n)
  <2> HIDE DEF Found
  <2> QED
    BY <1>4
<1> QED
  BY <1>5

(* Whatever is in a joint is in one of its parts.                          *)
LEMMA JointMembers ==
    ASSUME NEW S, NEW n \in Nat, NEW d, NEW P, JointOf(P, d, n, S), NEW j \in 1 .. Len(P[n])
    PROVE  \E i \in 1 .. n : \E l \in 1 .. Len(d[i]) : P[n][j] = d[i][l]
<1>s. P[0] = <<>> /\ \A k \in 1 .. n : StepOf(P, d, k, S)
  BY JointStep
<1> DEFINE Comes(x) == \E i \in 1 .. n : \E l \in 1 .. Len(d[i]) : x = d[i][l]
           T == {k \in 0 .. n : \A m \in 1 .. Len(P[k]) : Comes(P[k][m])}
<1>1. 0 \in T
  <2>1. P[0] = <<>> /\ Len(<<>>) = 0
    BY <1>s
  <2> HIDE DEF Comes
  <2>2. \A m \in 1 .. Len(P[0]) : Comes(P[0][m])
    BY <2>1
  <2> QED
    BY <2>2
<1>2. ASSUME NEW k \in 1 .. n, k - 1 \in T PROVE k \in T
  <2>1. P[k] = P[k - 1] \o d[k] /\ P[k - 1] \in Seq(S) /\ d[k] \in Seq(S)
          /\ Len(P[k]) = Len(P[k - 1]) + Len(d[k]) /\ Len(P[k - 1]) \in Nat /\ Len(d[k]) \in Nat
    BY <1>s DEF StepOf
  <2>2. ASSUME NEW m \in 1 .. Len(P[k]) PROVE Comes(P[k][m])
    <3>0. Len(P[k]) = Len(P[k - 1]) + Len(d[k]) /\ Len(P[k - 1]) \in Nat /\ Len(d[k]) \in Nat
      BY <2>1
    <3>1. ASSUME m <= Len(P[k - 1]) PROVE Comes(P[k][m])
      <4>1. P[k][m] = P[k - 1][m] /\ m \in 1 .. Len(P[k - 1])
        BY <2>1, <3>0, <3>1
      <4> HIDE DEF Comes
      <4>2. Comes(P[k - 1][m])
        BY <1>2, <4>1
      <4> QED
        BY <4>1, <4>2
    <3>2. ASSUME ~(m <= Len(P[k - 1])) PROVE Comes(P[k][m])
      <4> DEFINE a == Len(P[k - 1])
                 b == Len(d[k])
      <4>a. a \in Nat /\ b \in Nat /\ m \in 1 .. a + b /\ ~(m <= a)
        BY <3>0, <3>2
      <4> HIDE DEF a, b, T
      <4>b. m - a \in 1 .. b
        BY <4>a
      <4>1. m - Len(P[k - 1]) \in 1 .. Len(d[k])
        BY <4>b DEF a, b
      <4>2. P[k][m] = d[k][m - Len(P[k - 1])]
        BY <2>1, <3>0, <3>2
      <4> QED
        BY <4>1, <4>2
    <3> HIDE DEF Comes
    <3> QED
      BY <3>1, <3>2
  <2> HIDE DEF Comes
  <2> QED
    BY <2>2
<1>3. T = 0 .. n
  <2>1. T \in SUBSET (0 .. n)
    OBVIOUS
  <2> HIDE DEF T
  <2> QED
    BY <1>1, <1>2, <2>1, Induction
<1>4. n \in T
  <2> HIDE DEF T
  <2> QED
    BY <1>3
<1>5. Comes(P[n][j])
  <2> HIDE DEF Comes
  <2> QED
    BY <1>4
<1> QED
  BY <1>5

(* The data of the first k parts.                                          *)
DataJoint(P, d, parts, S) ==
    /\ JointOf(P, d, Len(parts), S) /\ \A i \in DOMAIN parts : d[i] = parts[i].data
    /\ DataOf(parts) = P[Len(parts)]
    /\ \A k \in 0 .. Len(parts) : DataOf(SubSeq(parts, 1, k)) = P[k]

(* The columns of spans or tiles are the last of their joints.             *)
LEMMA DataIs ==
    ASSUME NEW X, NEW S, NEW parts \in Seq(X), \A i \in DOMAIN parts : parts[i].data \in Seq(S)
    PROVE  \E P, d : DataJoint(P, d, parts, S)
<1> DEFINE n == Len(parts)
           d == [i \in DOMAIN parts |-> parts[i].data]
<1>1. n \in Nat /\ DOMAIN parts = 1 .. n
  OBVIOUS
<1>2. \A i \in 1 .. n : d[i] \in Seq(S)
  BY <1>1
<1> HIDE DEF n
<1>3. PICK P \in [0 .. n -> Seq(S)] : IsJoint(P, d, n)
  <2> HIDE DEF d
  <2> QED
    BY <1>1, <1>2, JointExists
<1>4. ASSUME NEW k \in 0 .. n, NEW s, FirstOf(s, d, k, S)
      PROVE  FlattenSeq(s) = P[k]
  <2>1. JointOf(P, d, n, S)
    BY <1>2, <1>3 DEF JointOf
  <2> HIDE DEF d
  <2> QED
    BY <2>1, <1>1, <1>4, FlattenIs
<1>5. DataOf(parts) = P[n]
  <2>1. FirstOf(d, d, n, S) /\ n \in 0 .. n
    <3>1. d \in [1 .. n -> Seq(S)]
      BY <1>1
    <3> HIDE DEF d
    <3> QED
      BY <1>1, <3>1 DEF FirstOf
  <2>2. DataOf(parts) = FlattenSeq(d)
    BY DEF DataOf
  <2> HIDE DEF d
  <2> QED
    BY <2>1, <2>2, <1>4
<1>6. ASSUME NEW k \in 0 .. n PROVE DataOf(SubSeq(parts, 1, k)) = P[k]
  <2> DEFINE t == SubSeq(parts, 1, k)
             e == [i \in DOMAIN t |-> t[i].data]
  <2>1. DOMAIN t = 1 .. k /\ \A i \in 1 .. k : t[i] = parts[i] /\ i \in DOMAIN parts
    BY <1>1 DEF n
  <2> HIDE DEF t
  <2>2. FirstOf(e, d, k, S)
    BY <2>1 DEF FirstOf
  <2>3. DataOf(t) = FlattenSeq(e)
    BY DEF DataOf
  <2> HIDE DEF d, e
  <2>4. DataOf(t) = P[k]
    BY <2>2, <2>3, <1>4
  <2> QED
    BY <2>4 DEF t
<1>d. \A i \in DOMAIN parts : d[i] = parts[i].data
  OBVIOUS
<1> HIDE DEF d
<1>7. JointOf(P, d, n, S) /\ DataOf(parts) = P[n] /\ \A k \in 0 .. n : DataOf(SubSeq(parts, 1, k)) = P[k]
  BY <1>2, <1>3, <1>5, <1>6 DEF JointOf
<1>8. DataJoint(P, d, parts, S)
  BY <1>7, <1>d DEF n, DataJoint
<1> QED
  BY <1>8

-----------------------------------------------------------------------------
(* Arranged sets.                                                          *)

Orders(R, S) ==
    /\ \A a \in S : <<a, a>> \notin R
    /\ \A a, b \in S : a # b => <<a, b>> \in R \/ <<b, a>> \in R
    /\ \A a, b, c \in S : <<a, b>> \in R /\ <<b, c>> \in R => <<a, c>> \in R

Ahead(S, R, i) == {j \in S : <<j, i>> \in R}

(* Every place of the arrangement is taken: the number of members ahead    *)
(* differs between any two, so it takes every value there is.              *)
LEMMA PlaceIsTaken ==
    ASSUME NEW S, IsFiniteSet(S), NEW R, Orders(R, S)
    PROVE  \A k \in 1 .. Cardinality(S) : \E i \in S : Cardinality(Ahead(S, R, i)) = k - 1
<1> DEFINE n == Cardinality(S)
           A(i) == Ahead(S, R, i)
           Place == [i \in S |-> Cardinality(A(i))]
<1>0. n \in Nat
  BY FS_CardinalityType
<1>1. ASSUME NEW i \in S PROVE A(i) \in SUBSET S /\ IsFiniteSet(A(i)) /\ Cardinality(A(i)) \in Nat
  <2>1. A(i) \in SUBSET S
    BY DEF Ahead
  <2> QED
    BY <2>1, FS_Subset, FS_CardinalityType
<1>2. ASSUME NEW i \in S PROVE Cardinality(A(i)) \in 0 .. n - 1
  <2>1. A(i) \in SUBSET (S \ {i})
    BY DEF Ahead, Orders
  <2>2. IsFiniteSet(S \ {i}) /\ Cardinality(S \ {i}) = n - 1
    BY FS_RemoveElement
  <2>3. Cardinality(A(i)) <= n - 1
    BY <2>1, <2>2, FS_Subset
  <2> HIDE DEF A, n
  <2> QED
    BY <1>0, <1>1, <2>3
<1>3. ASSUME NEW i \in S, NEW j \in S, <<i, j>> \in R PROVE Cardinality(A(i)) # Cardinality(A(j))
  <2>1. A(i) \in SUBSET A(j) /\ A(i) # A(j)
    <3>1. A(i) \in SUBSET A(j)
      BY <1>3 DEF Ahead, Orders
    <3>2. i \in A(j) /\ i \notin A(i)
      BY <1>3 DEF Ahead, Orders
    <3> QED
      BY <3>1, <3>2
  <2> HIDE DEF A
  <2> QED
    BY <1>1, <2>1, FS_Subset
<1>4. Place \in [S -> 0 .. n - 1]
  BY <1>2
<1>5. ASSUME NEW i \in S, NEW j \in S, Place[i] = Place[j] PROVE i = j
  <2>1. Cardinality(A(i)) = Cardinality(A(j))
    BY <1>5
  <2>2. ~(<<i, j>> \in R) /\ ~(<<j, i>> \in R)
    <3> HIDE DEF A
    <3> QED
      BY <2>1, <1>3
  <2> QED
    BY <2>2 DEF Orders
<1>6. Place \in Injection(S, 0 .. n - 1)
  <2> HIDE DEF Place, n
  <2> QED
    BY <1>4, <1>5 DEF Injection, IsInjective
<1>7. IsFiniteSet(0 .. n - 1) /\ Cardinality(0 .. n - 1) = n
  <2> HIDE DEF n
  <2> QED
    BY <1>0, FS_Interval
<1>8. Place \in Surjection(S, 0 .. n - 1)
  <2> HIDE DEF Place
  <2> QED
    BY <1>6, <1>7, FS_Injection
<1>9. \A m \in 0 .. n - 1 : \E i \in S : Place[i] = m
  <2> HIDE DEF Place, n
  <2> QED
    BY <1>8 DEF Surjection
<1> HIDE DEF n
<1>10. \A k \in 1 .. n : k - 1 \in 0 .. n - 1
  BY <1>0
<1>11. ASSUME NEW k \in 1 .. n PROVE \E i \in S : Cardinality(A(i)) = k - 1
  <2>1. PICK i \in S : Place[i] = k - 1
    BY <1>9, <1>10
  <2> QED
    BY <2>1
<1> QED
  BY <1>11 DEF n

(* Arranging a finite set by an order gives a sequence of its elements.    *)
LEMMA ArrangedIs ==
    ASSUME NEW S, IsFiniteSet(S), NEW R, Orders(R, S)
    PROVE  /\ DOMAIN Arranged(S, R) = 1 .. Cardinality(S) /\ Cardinality(S) \in Nat
           /\ \A k \in 1 .. Cardinality(S) : Arranged(S, R)[k] \in S
<1>1. Cardinality(S) \in Nat
  BY FS_CardinalityType
<1>2. ASSUME NEW k \in 1 .. Cardinality(S) PROVE Arranged(S, R)[k] \in S
  <2> DEFINE Is(i) == Cardinality({j \in S : <<j, i>> \in R}) = k - 1
  <2>1. \E i \in S : Is(i)
    BY PlaceIsTaken DEF Ahead
  <2>2. Arranged(S, R)[k] = CHOOSE i \in S : Is(i)
    BY DEF Arranged
  <2> HIDE DEF Is
  <2> QED
    BY <2>1, <2>2
<1> QED
  BY <1>1, <1>2 DEF Arranged

(* Fewer members are ahead of the one that comes before.                   *)
LEMMA AheadGrows ==
    ASSUME NEW S, IsFiniteSet(S), NEW R, Orders(R, S), NEW i \in S, NEW j \in S, <<i, j>> \in R
    PROVE  /\ Cardinality(Ahead(S, R, i)) < Cardinality(Ahead(S, R, j))
           /\ Cardinality(Ahead(S, R, i)) \in Nat /\ Cardinality(Ahead(S, R, j)) \in Nat
<1> DEFINE A(k) == Ahead(S, R, k)
<1>1. ASSUME NEW k \in S PROVE IsFiniteSet(A(k)) /\ Cardinality(A(k)) \in Nat
  <2>1. A(k) \in SUBSET S
    BY DEF Ahead
  <2> QED
    BY <2>1, FS_Subset, FS_CardinalityType
<1>2. A(i) \in SUBSET A(j)
  BY DEF Ahead, Orders
<1>3. i \in A(j) /\ i \notin A(i)
  BY DEF Ahead, Orders
<1> HIDE DEF A
<1>4. Cardinality(A(i)) <= Cardinality(A(j)) /\ Cardinality(A(i)) # Cardinality(A(j))
  BY <1>1, <1>2, <1>3, FS_Subset
<1>5. Cardinality(A(i)) < Cardinality(A(j))
  BY <1>1, <1>4
<1> QED
  BY <1>1, <1>5 DEF A

(* An arrangement is in order.                                             *)
LEMMA ArrangedInOrder ==
    ASSUME NEW S, IsFiniteSet(S), NEW R, Orders(R, S), NEW k \in 2 .. Cardinality(S)
    PROVE  <<Arranged(S, R)[k - 1], Arranged(S, R)[k]>> \in R
<1> DEFINE n == Cardinality(S)
           o == Arranged(S, R)
           A(i) == Ahead(S, R, i)
<1>0. n \in Nat
  BY FS_CardinalityType
<1>1. ASSUME NEW l \in 1 .. n PROVE o[l] \in S /\ Cardinality(A(o[l])) = l - 1
  <2> DEFINE Is(i) == Cardinality(Ahead(S, R, i)) = l - 1
  <2>1. \E i \in S : Is(i)
    BY PlaceIsTaken
  <2>2. o[l] = CHOOSE i \in S : Is(i)
    BY DEF Arranged, Ahead
  <2> HIDE DEF Is, o
  <2>3. o[l] \in S /\ Is(o[l])
    BY <2>1, <2>2
  <2> QED
    BY <2>3 DEF Is
<1> DEFINE a == o[k - 1]
           b == o[k]
<1>2. k - 1 \in 1 .. n /\ k \in 1 .. n
  BY <1>0
<1>3. a \in S /\ b \in S /\ Cardinality(A(a)) = k - 1 - 1 /\ Cardinality(A(b)) = k - 1
  BY <1>1, <1>2
<1> HIDE DEF o, a, b, n
<1>4. a # b
  <2> SUFFICES ASSUME a = b PROVE FALSE
    OBVIOUS
  <2>1. k - 1 - 1 = k - 1
    BY <1>3
  <2> QED
    BY <1>0, <1>2, <2>1
<1>5. ASSUME <<b, a>> \in R PROVE FALSE
  <2>1. Cardinality(A(b)) < Cardinality(A(a))
    BY <1>3, <1>5, AheadGrows
  <2> HIDE DEF A
  <2> QED
    BY <1>0, <1>2, <1>3, <2>1
<1>6. <<a, b>> \in R
  BY <1>3, <1>4, <1>5 DEF Orders
<1> QED
  BY <1>6 DEF a, b, o

-----------------------------------------------------------------------------
(* Files.                                                                  *)

SpanFields == [column : Nat, end : Nat, count : Nat, packed : Nat]
TileFields == [index : Nat, column : Nat, end : Nat, count : Nat, packed : Nat, state : States]
ItemFields == [key : Nat, size : Nat, head : Nat]

(* The columns a span of the overview points at are its own, unless all    *)
(* the spans, of which there are several then, point at the same place.    *)
SpansAreRight(p) ==
    /\ p.spans # <<>> => p.spans[1].packed = 0
    /\ \/ Len(p.spans) > 1 /\ \A i \in DOMAIN p.spans : p.spans[i].packed = 0
       \/ \A i \in DOMAIN p.spans : \A k \in 1 .. p.spans[i].count :
             p.data[p.spans[i].packed + k] = p.spans[i].column + k - 1

IsWovr(p) ==
    /\ p = [id |-> "WOVR", state |-> p.state, columns |-> p.columns, spans |-> p.spans,
            data |-> p.data]
    /\ p.state \in States /\ p.spans \in Seq(SpanFields) /\ p.data \in Seq(Nat)
    /\ SpansAreRight(p)
IsWdtl(p) ==
    /\ p = [id |-> "WDTL", tiles |-> p.tiles, data |-> p.data]
    /\ p.tiles \in Seq(TileFields) /\ p.data \in Seq(Nat)
IsMeta(p) == p = [id |-> "META", items |-> p.items] /\ p.items \in Seq(ItemFields)
IsTemp(p) == p = [id |-> "TEMP", feature |-> p.feature] /\ p.feature \in Tempos
IsLgrd(p) == p = [id |-> "LGRD", feature |-> p.feature] /\ p.feature \in LocalGrids
IsGgrd(p) ==
    /\ p = [id |-> "GGRD", state |-> p.state, segments |-> p.segments, beats |-> p.beats,
            revision |-> p.revision]
    /\ p.state \in States /\ p.segments \in Seq(States) /\ p.beats \in Nat /\ p.revision \in Nat
IsRevn(p) ==
    /\ p = [id |-> "REVN", state |-> p.state, revision |-> p.revision,
            segments |-> p.segments, beats |-> p.beats]
    /\ p.state \in {"applied", "pending"} /\ p.revision \in Nat
IsVend(p) == p = [id |-> "VEND"]

IsPayload(p) ==
    \/ IsWovr(p) \/ IsWdtl(p) \/ IsMeta(p) \/ IsTemp(p) \/ IsLgrd(p) \/ IsGgrd(p)
    \/ IsRevn(p) \/ IsVend(p)

(* What stands under an identifier.                                        *)
LEMMA PayloadById ==
    ASSUME NEW p, IsPayload(p)
    PROVE  /\ p.id = "WOVR" => IsWovr(p)
           /\ p.id = "WDTL" => IsWdtl(p)
           /\ p.id = "META" => IsMeta(p)
           /\ p.id = "TEMP" => IsTemp(p)
           /\ p.id = "LGRD" => IsLgrd(p)
           /\ p.id = "GGRD" => IsGgrd(p)
           /\ p.id = "REVN" => IsRevn(p)
<1>1. /\ IsWovr(p) => p.id = "WOVR"
      /\ IsWdtl(p) => p.id = "WDTL"
      /\ IsMeta(p) => p.id = "META"
      /\ IsTemp(p) => p.id = "TEMP"
      /\ IsLgrd(p) => p.id = "LGRD"
      /\ IsGgrd(p) => p.id = "GGRD"
      /\ IsRevn(p) => p.id = "REVN"
      /\ IsVend(p) => p.id = "VEND"
  BY DEF IsWovr, IsWdtl, IsMeta, IsTemp, IsLgrd, IsGgrd, IsRevn, IsVend
<1> QED
  BY <1>1 DEF IsPayload

IsEntry(e) ==
    /\ e = [id |-> e.id, required |-> e.required, offset |-> e.offset, size |-> e.size,
            crc |-> e.crc]
    /\ IsPayload(e.crc) /\ e.id = e.crc.id

IsChunk(c) == c = [at |-> c.at, payload |-> c.payload] /\ (c.payload = None \/ IsPayload(c.payload))

IsList(s) == \E S : s \in Seq(S)
AreEntries(s) == IsList(s) /\ \A i \in DOMAIN s : IsEntry(s[i])
ArePayloads(s) == IsList(s) /\ \A i \in DOMAIN s : IsPayload(s[i])

IsFile(f) ==
    /\ f = [length |-> f.length, size |-> f.size, total |-> f.total, unknown |-> f.unknown,
            partial |-> f.partial, entries |-> f.entries, chunks |-> f.chunks]
    /\ f.total \in Nat \cup {Unknown} /\ f.partial \in BOOLEAN
    /\ AreEntries(f.entries) /\ \A c \in f.chunks : IsChunk(c)

(* A payload is listed by a well-formed entry.                             *)
LEMMA EntryIs ==
    ASSUME NEW at, NEW p, IsPayload(p)
    PROVE  IsEntry(Entry(at, p))
BY DEF IsEntry, Entry

(* The domain of a list.                                                   *)
LEMMA ListDomain ==
    ASSUME NEW s, IsList(s)
    PROVE  Len(s) \in Nat /\ DOMAIN s = 1 .. Len(s)
BY DEF IsList

(* A list with something else at each place.                               *)
LEMMA ListMapped ==
    ASSUME NEW s, IsList(s), NEW t, t = [i \in DOMAIN s |-> t[i]]
    PROVE  IsList(t) /\ DOMAIN t = DOMAIN s
<1>1. DOMAIN t = DOMAIN s /\ t \in [DOMAIN s -> {t[i] : i \in DOMAIN s}]
  <2> DEFINE u == [i \in DOMAIN s |-> t[i]]
  <2>1. DOMAIN u = DOMAIN s /\ u \in [DOMAIN s -> {t[i] : i \in DOMAIN s}]
    OBVIOUS
  <2>2. t = u
    OBVIOUS
  <2> HIDE DEF u
  <2> QED
    BY <2>1, <2>2
<1>2. Len(s) \in Nat /\ DOMAIN s = 1 .. Len(s)
  BY ListDomain
<1> DEFINE S == {t[i] : i \in DOMAIN s}
<1> HIDE DEF S
<1>3. t \in [1 .. Len(s) -> S]
  BY <1>1, <1>2 DEF S
<1>4. t \in Seq(S)
  BY <1>2, <1>3
<1> QED
  BY <1>1, <1>4 DEF IsList

(* Two lists joined are a list of their elements.                          *)
LEMMA ListJoined ==
    ASSUME NEW s, IsList(s), NEW t, IsList(t)
    PROVE  /\ IsList(s \o t)
           /\ \A i \in DOMAIN (s \o t) : \/ \E j \in DOMAIN s : (s \o t)[i] = s[j]
                                         \/ \E j \in DOMAIN t : (s \o t)[i] = t[j]
<1>1. PICK S : s \in Seq(S)
  BY DEF IsList
<1>2. PICK T : t \in Seq(T)
  BY DEF IsList
<1> DEFINE U == S \cup T
<1>3. s \in Seq(U) /\ t \in Seq(U)
  BY <1>1, <1>2
<1> HIDE DEF U
<1>4. s \o t \in Seq(U) /\ Len(s \o t) = Len(s) + Len(t)
  BY <1>3
<1>5. ASSUME NEW i \in DOMAIN (s \o t)
      PROVE  \/ \E j \in DOMAIN s : (s \o t)[i] = s[j]
             \/ \E j \in DOMAIN t : (s \o t)[i] = t[j]
  <2>1. i \in 1 .. Len(s) + Len(t) /\ Len(s) \in Nat /\ Len(t) \in Nat
    BY <1>3, <1>4
  <2>2. CASE i <= Len(s)
    <3>1. i \in DOMAIN s /\ (s \o t)[i] = s[i]
      BY <2>1, <2>2, <1>3
    <3> QED
      BY <3>1
  <2>3. CASE ~(i <= Len(s))
    <3>1. i - Len(s) \in DOMAIN t /\ (s \o t)[i] = t[i - Len(s)]
      BY <2>1, <2>3, <1>3
    <3> QED
      BY <3>1
  <2> QED
    BY <2>2, <2>3
<1> QED
  BY <1>4, <1>5 DEF IsList

(* Two directories joined are a directory.                                 *)
LEMMA EntriesJoined ==
    ASSUME NEW s, AreEntries(s), NEW t, AreEntries(t)
    PROVE  AreEntries(s \o t)
BY ListJoined DEF AreEntries

(* A directory whose entries are all moved is a directory.                 *)
LEMMA EntriesMoved ==
    ASSUME NEW s, AreEntries(s), NEW shift
    PROVE  AreEntries(MovedEntries(s, shift))
<1> DEFINE t == MovedEntries(s, shift)
<1>1. t = [i \in DOMAIN s |-> t[i]]
  BY DEF MovedEntries
<1>2. ASSUME NEW i \in DOMAIN s PROVE IsEntry(t[i])
  <2> DEFINE e == s[i]
  <2>1. IsEntry(e)
    BY DEF AreEntries
  <2>2. t[i] = [e EXCEPT !.offset = @ + shift]
    BY DEF MovedEntries
  <2> HIDE DEF e
  <2>3. t[i] = [id |-> e.id, required |-> e.required, offset |-> e.offset + shift,
                size |-> e.size, crc |-> e.crc]
    BY <2>1, <2>2 DEF IsEntry
  <2> HIDE DEF t
  <2> QED
    BY <2>1, <2>3 DEF IsEntry
<1> HIDE DEF t
<1>3. IsList(t) /\ DOMAIN t = DOMAIN s
  BY <1>1, ListMapped DEF AreEntries
<1>4. AreEntries(t)
  BY <1>2, <1>3 DEF AreEntries
<1> QED
  BY <1>4 DEF t

(* An outer layer adds its sections to a file.                             *)
LEMMA ExtendedIsFile ==
    ASSUME NEW f, IsFile(f), NEW payloads, ArePayloads(payloads)
    PROVE  IsFile(Extended(f, payloads))
<1> DEFINE shift == EntrySize * Len(payloads)
           at == SectionOffsets(f, payloads)
           size == at[Len(payloads)] + PayloadSize(payloads[Len(payloads)])
           added == [i \in DOMAIN payloads |-> Entry(at[i], payloads[i])]
           entries == MovedEntries(f.entries, shift) \o added
           moved == {[c EXCEPT !.at = @ + shift] : c \in f.chunks}
           placed == {[at |-> at[i], payload |-> payloads[i]] : i \in DOMAIN payloads}
           g == Extended(f, payloads)
<1>1. g = [f EXCEPT !.size = size, !.length = size, !.entries = entries,
                    !.chunks = moved \cup placed]
  BY DEF Extended
<1>2. AreEntries(entries)
  <2>1. AreEntries(added)
    <3>1. added = [i \in DOMAIN payloads |-> added[i]]
      OBVIOUS
    <3>2. \A i \in DOMAIN payloads : IsEntry(added[i])
      <4> HIDE DEF at
      <4> QED
        BY EntryIs DEF ArePayloads
    <3> HIDE DEF added
    <3>3. IsList(added) /\ DOMAIN added = DOMAIN payloads
      BY <3>1, ListMapped DEF ArePayloads
    <3> QED
      BY <3>2, <3>3 DEF AreEntries
  <2>2. AreEntries(MovedEntries(f.entries, shift))
    <3> HIDE DEF shift
    <3> QED
      BY EntriesMoved DEF IsFile
  <2> HIDE DEF added, shift
  <2> QED
    BY <2>1, <2>2, EntriesJoined
<1>3. \A c \in moved \cup placed : IsChunk(c)
  <2>1. ASSUME NEW c \in f.chunks PROVE IsChunk([c EXCEPT !.at = @ + shift])
    <3> HIDE DEF shift
    <3>1. IsChunk(c)
      BY DEF IsFile
    <3>2. [c EXCEPT !.at = @ + shift] = [at |-> c.at + shift, payload |-> c.payload]
      BY <3>1 DEF IsChunk
    <3> QED
      BY <3>1, <3>2 DEF IsChunk
  <2>2. ASSUME NEW i \in DOMAIN payloads PROVE IsChunk([at |-> at[i], payload |-> payloads[i]])
    <3> HIDE DEF at
    <3> QED
      BY DEF IsChunk, ArePayloads
  <2> HIDE DEF shift, at
  <2> QED
    BY <2>1, <2>2
<1> HIDE DEF entries, moved, placed, size, g
<1>4. g = [length |-> size, size |-> size, total |-> f.total, unknown |-> f.unknown,
           partial |-> f.partial, entries |-> entries, chunks |-> moved \cup placed]
  BY <1>1 DEF IsFile
<1>5. IsFile(g)
  BY <1>2, <1>3, <1>4 DEF IsFile
<1> QED
  BY <1>5 DEF g

(* One payload, as a list of payloads.                                     *)
LEMMA OnePayload ==
    ASSUME NEW p, IsPayload(p)
    PROVE  ArePayloads(<<p>>)
<1>1. <<p>> \in Seq({p}) /\ DOMAIN <<p>> = 1 .. 1 /\ <<p>>[1] = p
  OBVIOUS
<1>2. \A i \in 1 .. 1 : i = 1
  OBVIOUS
<1> QED
  BY <1>1, <1>2 DEF ArePayloads, IsList

(* Two payloads, as a list of payloads.                                    *)
LEMMA TwoPayloads ==
    ASSUME NEW p, IsPayload(p), NEW q, IsPayload(q)
    PROVE  ArePayloads(<<p, q>>)
<1>1. <<p, q>> \in Seq({p, q}) /\ DOMAIN <<p, q>> = 1 .. 2 /\ <<p, q>>[1] = p /\ <<p, q>>[2] = q
  OBVIOUS
<1>2. \A i \in 1 .. 2 : i = 1 \/ i = 2
  OBVIOUS
<1> QED
  BY <1>1, <1>2 DEF ArePayloads, IsList

(* Nothing but the flag changes.                                           *)
LEMMA FlaggedIsFile ==
    ASSUME NEW f, IsFile(f), NEW flag \in BOOLEAN
    PROVE  IsFile([f EXCEPT !.partial = flag])
<1>1. [f EXCEPT !.partial = flag] =
        [length |-> f.length, size |-> f.size, total |-> f.total, unknown |-> f.unknown,
         partial |-> flag, entries |-> f.entries, chunks |-> f.chunks]
  BY DEF IsFile
<1> QED
  BY <1>1 DEF IsFile

(* A file keeps its form under another directory,                          *)
LEMMA RelistedIsFile ==
    ASSUME NEW f, IsFile(f), NEW entries, AreEntries(entries)
    PROVE  IsFile([f EXCEPT !.entries = entries])
<1>1. [f EXCEPT !.entries = entries] =
        [length |-> f.length, size |-> f.size, total |-> f.total, unknown |-> f.unknown,
         partial |-> f.partial, entries |-> entries, chunks |-> f.chunks]
  BY DEF IsFile
<1> QED
  BY <1>1 DEF IsFile

(* under other bytes where its chunks are,                                 *)
LEMMA RefilledIsFile ==
    ASSUME NEW f, IsFile(f), NEW chunks, \A c \in chunks : IsChunk(c)
    PROVE  IsFile([f EXCEPT !.chunks = chunks])
<1>1. [f EXCEPT !.chunks = chunks] =
        [length |-> f.length, size |-> f.size, total |-> f.total, unknown |-> f.unknown,
         partial |-> f.partial, entries |-> f.entries, chunks |-> chunks]
  BY DEF IsFile
<1> QED
  BY <1>1 DEF IsFile

(* and when it is cut.                                                     *)
LEMMA CutIsFile ==
    ASSUME NEW f, IsFile(f), NEW length
    PROVE  IsFile([f EXCEPT !.length = length])
<1>1. [f EXCEPT !.length = length] =
        [length |-> length, size |-> f.size, total |-> f.total, unknown |-> f.unknown,
         partial |-> f.partial, entries |-> f.entries, chunks |-> f.chunks]
  BY DEF IsFile
<1> QED
  BY <1>1 DEF IsFile

-----------------------------------------------------------------------------
(* What the writers make of a result.                                      *)

IsPublished(r) ==
    /\ r \in PublishedResults /\ \A i \in DOMAIN r.spans : IsNumbered(r.spans[i])
    /\ r.global # None => r.global.revision.state # None

SpanParts == [column : Nat, end : Nat, data : Seq(Nat)]
TileParts == [index : Nat, column : Nat, end : Nat, data : Seq(Nat), state : States]

(* Packed columns are found again.                                         *)
LEMMA PackedIs ==
    ASSUME NEW X, NEW parts \in Seq(X), \A i \in DOMAIN parts : parts[i].data \in Seq(Nat)
    PROVE  /\ DataOf(parts) \in Seq(Nat)
           /\ \A i \in DOMAIN parts : PackedBefore(parts, i) \in Nat
           /\ parts # <<>> => PackedBefore(parts, 1) = 0
           /\ \A i \in DOMAIN parts : \A k \in 1 .. Len(parts[i].data) :
                 DataOf(parts)[PackedBefore(parts, i) + k] = parts[i].data[k]
<1> DEFINE n == Len(parts)
<1>1. n \in Nat /\ DOMAIN parts = 1 .. n
  OBVIOUS
<1>2. PICK P, d : DataJoint(P, d, parts, Nat)
  BY DataIs
<1>3. \A i \in 1 .. n : d[i] = parts[i].data
  BY <1>1, <1>2 DEF DataJoint
<1>4. /\ JointOf(P, d, n, Nat) /\ DataOf(parts) = P[n]
      /\ \A k \in 0 .. n : DataOf(SubSeq(parts, 1, k)) = P[k]
  BY <1>2 DEF DataJoint
<1> HIDE DEF n
<1>5. P[0] = <<>> /\ \A k \in 0 .. n : P[k] \in Seq(Nat)
  BY <1>1, <1>4, JointStep
<1>6. ASSUME NEW i \in 1 .. n PROVE PackedBefore(parts, i) = Len(P[i - 1]) /\ Len(P[i - 1]) \in Nat
  <2>1. i - 1 \in 0 .. n
    BY <1>1
  <2>2. P[i - 1] \in Seq(Nat)
    BY <1>5, <2>1
  <2> QED
    BY <2>1, <2>2, <1>4 DEF PackedBefore
<1>7. parts # <<>> => PackedBefore(parts, 1) = 0
  <2>1. parts # <<>> => 1 \in 1 .. n
    BY <1>1 DEF n
  <2>2. Len(P[1 - 1]) = 0
    BY <1>5
  <2> QED
    BY <2>1, <2>2, <1>6
<1>8. ASSUME NEW i \in 1 .. n, NEW k \in 1 .. Len(d[i]) PROVE P[n][Len(P[i - 1]) + k] = d[i][k]
  BY <1>1, <1>4, JointHolds
<1>9. DataOf(parts) \in Seq(Nat)
  BY <1>1, <1>4, <1>5
<1>10. ASSUME NEW i \in 1 .. n, NEW k \in 1 .. Len(parts[i].data)
       PROVE  DataOf(parts)[PackedBefore(parts, i) + k] = parts[i].data[k]
  <2>1. d[i] = parts[i].data
    BY <1>3
  <2>2. P[n][Len(P[i - 1]) + k] = d[i][k]
    BY <1>8, <2>1
  <2>3. DataOf(parts) = P[n] /\ PackedBefore(parts, i) = Len(P[i - 1])
    BY <1>4, <1>6
  <2> QED
    BY <2>1, <2>2, <2>3
<1> QED
  BY <1>1, <1>6, <1>7, <1>9, <1>10

(* What the overview writer makes of a published result is well formed,    *)
LEMMA WovrIsPayload ==
    ASSUME NEW r, IsPublished(r)
    PROVE  IsWovr(WovrPayload(r))
<1> DEFINE parts == r.spans
           spans == [i \in DOMAIN parts |->
                        [column |-> parts[i].column, end |-> parts[i].end,
                         count |-> Len(parts[i].data), packed |-> PackedBefore(parts, i)]]
           data == DataOf(parts)
           columns == LogicalColumns(r)
           p == WovrPayload(r)
<1>1. /\ parts \in Seq(SpanParts) /\ r.overview \in States
      /\ \A i \in DOMAIN parts : parts[i].column \in Nat /\ parts[i].end \in Nat
                                 /\ parts[i].data \in Seq(Nat) /\ Len(parts[i].data) \in Nat
  <2>1. parts \in Seq(SpanParts) /\ r.overview \in States
    BY DEF IsPublished, PublishedResults, SpanParts
  <2> HIDE DEF parts
  <2>2. \A i \in DOMAIN parts : parts[i] \in SpanParts
    BY <2>1
  <2>3. \A s \in SpanParts : /\ s.column \in Nat /\ s.end \in Nat
                             /\ s.data \in Seq(Nat) /\ Len(s.data) \in Nat
    BY DEF SpanParts
  <2> QED
    BY <2>1, <2>2, <2>3
<1>2. p = [id |-> "WOVR", state |-> r.overview, columns |-> columns, spans |-> spans,
           data |-> data]
  BY DEF WovrPayload
<1>3. \A i \in DOMAIN parts : \A k \in 1 .. Len(parts[i].data) :
          parts[i].data[k] = parts[i].column + k - 1
  <2>1. ASSUME NEW i \in DOMAIN parts, NEW k \in 1 .. Len(parts[i].data)
        PROVE  parts[i].data[k] = parts[i].column + k - 1
    <3> DEFINE x == parts[i].data
               c == parts[i].column
    <3>1. x = [j \in 1 .. Len(x) |-> c + j - 1]
      BY DEF IsPublished, IsNumbered
    <3> HIDE DEF x, c
    <3>2. k \in 1 .. Len(x)
      BY DEF x
    <3>3. x[k] = c + k - 1
      BY <3>1, <3>2
    <3> QED
      BY <3>3 DEF x, c
  <2> QED
    BY <2>1
<1> HIDE DEF parts
<1>4. /\ data \in Seq(Nat)
      /\ \A i \in DOMAIN parts : PackedBefore(parts, i) \in Nat
      /\ parts # <<>> => PackedBefore(parts, 1) = 0
      /\ \A i \in DOMAIN parts : \A k \in 1 .. Len(parts[i].data) :
            data[PackedBefore(parts, i) + k] = parts[i].data[k]
  BY <1>1, PackedIs
<1>5. Len(parts) \in Nat /\ DOMAIN parts = 1 .. Len(parts)
  BY <1>1
<1>6. /\ spans \in Seq(SpanFields) /\ DOMAIN spans = DOMAIN parts
      /\ \A i \in DOMAIN parts : /\ spans[i].column = parts[i].column
                                 /\ spans[i].count = Len(parts[i].data)
                                 /\ spans[i].packed = PackedBefore(parts, i)
  <2>1. \A i \in DOMAIN parts : spans[i] \in SpanFields
    BY <1>1, <1>4 DEF SpanFields
  <2>2. spans \in [1 .. Len(parts) -> SpanFields]
    <3>1. spans = [i \in 1 .. Len(parts) |-> spans[i]]
      BY <1>5
    <3> HIDE DEF spans
    <3> QED
      BY <2>1, <3>1, <1>5
  <2>3. spans \in Seq(SpanFields)
    <3> HIDE DEF spans
    <3> QED
      BY <2>2, <1>5
  <2> QED
    BY <2>3
<1> HIDE DEF spans, data, columns
<1>7. spans # <<>> => spans[1].packed = 0
  <2>1. spans # <<>> => 1 \in DOMAIN parts /\ parts # <<>>
    BY <1>5, <1>6
  <2> QED
    BY <2>1, <1>4, <1>6
<1>8. \A i \in DOMAIN spans : \A k \in 1 .. spans[i].count :
          data[spans[i].packed + k] = spans[i].column + k - 1
  <2>1. ASSUME NEW i \in DOMAIN spans, NEW k \in 1 .. spans[i].count
        PROVE  data[spans[i].packed + k] = spans[i].column + k - 1
    <3>1. i \in DOMAIN parts /\ k \in 1 .. Len(parts[i].data)
      BY <1>6
    <3>2. data[PackedBefore(parts, i) + k] = parts[i].data[k]
      BY <3>1, <1>4
    <3>3. parts[i].data[k] = parts[i].column + k - 1
      BY <3>1, <1>3
    <3>4. spans[i].packed = PackedBefore(parts, i) /\ spans[i].column = parts[i].column
      BY <3>1, <1>6
    <3> QED
      BY <3>2, <3>3, <3>4
  <2> QED
    BY <2>1
<1> HIDE DEF p
<1>9. p.spans = spans /\ p.data = data /\ p.state = r.overview /\ p.columns = columns
  BY <1>2
<1>10. SpansAreRight(p)
  BY <1>7, <1>8, <1>9 DEF SpansAreRight
<1>11. IsWovr(p)
  BY <1>1, <1>2, <1>4, <1>6, <1>9, <1>10 DEF IsWovr
<1> QED
  BY <1>11 DEF p

(* what the detail writer makes of its tiles,                              *)
LEMMA WdtlIsPayload ==
    ASSUME NEW parts \in Seq(TileParts)
    PROVE  IsWdtl(WdtlPayload(parts))
<1> DEFINE tiles == [i \in DOMAIN parts |->
                        [index |-> parts[i].index, column |-> parts[i].column,
                         end |-> parts[i].end, count |-> Len(parts[i].data),
                         packed |-> PackedBefore(parts, i), state |-> parts[i].state]]
           data == DataOf(parts)
           p == WdtlPayload(parts)
<1>1. \A i \in DOMAIN parts : /\ parts[i].index \in Nat /\ parts[i].column \in Nat
                              /\ parts[i].end \in Nat /\ parts[i].state \in States
                              /\ parts[i].data \in Seq(Nat) /\ Len(parts[i].data) \in Nat
  <2>1. \A i \in DOMAIN parts : parts[i] \in TileParts
    OBVIOUS
  <2>2. \A s \in TileParts : /\ s.index \in Nat /\ s.column \in Nat /\ s.end \in Nat
                             /\ s.state \in States /\ s.data \in Seq(Nat) /\ Len(s.data) \in Nat
    BY DEF TileParts
  <2> QED
    BY <2>1, <2>2
<1>2. p = [id |-> "WDTL", tiles |-> tiles, data |-> data]
  BY DEF WdtlPayload
<1>3. data \in Seq(Nat) /\ \A i \in DOMAIN parts : PackedBefore(parts, i) \in Nat
  BY <1>1, PackedIs
<1>4. Len(parts) \in Nat /\ DOMAIN parts = 1 .. Len(parts)
  OBVIOUS
<1>5. tiles \in Seq(TileFields)
  <2>1. \A i \in DOMAIN parts : tiles[i] \in TileFields
    BY <1>1, <1>3 DEF TileFields
  <2>2. tiles = [i \in 1 .. Len(parts) |-> tiles[i]]
    BY <1>4
  <2> HIDE DEF tiles
  <2>3. tiles \in [1 .. Len(parts) -> TileFields]
    BY <2>1, <2>2, <1>4
  <2> QED
    BY <2>3, <1>4
<1> HIDE DEF tiles, data, p
<1>6. IsWdtl(p)
  BY <1>2, <1>3, <1>5 DEF IsWdtl
<1> QED
  BY <1>6 DEF p

(* the records of its metadata,                                            *)
LEMMA ItemsAre ==
    ASSUME NEW items \in Texts
    PROVE  /\ MetaPayload(items).items \in Seq(ItemFields)
           /\ MetaPayload(items) = [id |-> "META", items |-> MetaPayload(items).items]
<1> DEFINE t == [i \in DOMAIN items |-> [key |-> items[i].key, size |-> items[i].size,
                                         head |-> HeadSize(items[i].size)]]
<1>1. \A i \in DOMAIN items : items[i].key \in Nat /\ items[i].size \in Nat
  <2> DEFINE X == [key : Nat, size : Nat]
  <2>1. items \in Seq(X) /\ \A x \in X : x.key \in Nat /\ x.size \in Nat
    BY DEF Texts
  <2> HIDE DEF X
  <2> QED
    BY <2>1
<1>2. \A n : HeadSize(n) \in Nat
  BY DEF HeadSize
<1>3. \A i \in DOMAIN items : t[i] \in ItemFields
  BY <1>1, <1>2 DEF ItemFields
<1>4. Len(items) \in Nat /\ DOMAIN items = 1 .. Len(items)
  BY DEF Texts
<1>5. t = [i \in 1 .. Len(items) |-> t[i]]
  BY <1>4
<1>6. MetaPayload(items) = [id |-> "META", items |-> t]
  BY DEF MetaPayload
<1> HIDE DEF t
<1>7. t \in [1 .. Len(items) -> ItemFields]
  BY <1>3, <1>4, <1>5
<1>8. t \in Seq(ItemFields)
  BY <1>4, <1>7
<1> QED
  BY <1>6, <1>8

(* and the metadata section they make,                                     *)
LEMMA MetaIsPayload ==
    ASSUME NEW items \in Texts
    PROVE  IsMeta(MetaPayload(items))
BY ItemsAre DEF IsMeta

(* the tempo section,                                                      *)
LEMMA TempoIsPayload ==
    ASSUME NEW t \in Tempos
    PROVE  IsTemp(TempPayload(t))
BY DEF IsTemp, TempPayload

(* the local grid section,                                                 *)
LEMMA LocalIsPayload ==
    ASSUME NEW g \in LocalGrids
    PROVE  IsLgrd(LgrdPayload(g))
BY DEF IsLgrd, LgrdPayload

(* and the global grid and revision sections.                              *)
LEMMA GlobalIsPayload ==
    ASSUME NEW g \in GlobalGrids, g.revision.state # None
    PROVE  IsGgrd(GgrdPayload(g)) /\ IsRevn(RevnPayload(g))
<1>1. /\ g.state \in States /\ g.segments \in Seq(States) /\ g.beats \in Nat
      /\ g.revision \in [state : {"applied", "pending", None}, id : Nat]
  BY DEF GlobalGrids
<1>2. g.revision.state \in {"applied", "pending"} /\ g.revision.id \in Nat
  BY <1>1
<1> QED
  BY <1>1, <1>2 DEF IsGgrd, GgrdPayload, IsRevn, RevnPayload

(* The writers build a well-formed file, one layer after the other: the    *)
(* overview,                                                               *)
LEMMA WovrFileIs ==
    ASSUME NEW r, IsPublished(r)
    PROVE  IsFile(WovrFile(r))
<1> DEFINE p == WovrPayload(r)
           at == HeaderSize + EntrySize
           length == at + PayloadSize(p)
           unknown == r.total = Unknown
           partial == r.overview # "final" \/ ~r.completed \/ r.total = Unknown
           f == WovrFile(r)
<1>1. IsPayload(p)
  BY WovrIsPayload DEF IsPayload
<1>2. f = [length |-> length, size |-> length, total |-> r.total, unknown |-> unknown,
           partial |-> partial, entries |-> <<Entry(at, p)>>,
           chunks |-> {[at |-> at, payload |-> p]}]
  BY DEF WovrFile
<1>3. r.total \in Nat \cup {Unknown} /\ partial \in BOOLEAN
  BY DEF IsPublished, PublishedResults
<1> HIDE DEF p, at, length, unknown, partial, f
<1>4. AreEntries(<<Entry(at, p)>>)
  <2> DEFINE e == Entry(at, p)
  <2>1. IsEntry(e)
    BY <1>1, EntryIs
  <2> HIDE DEF e
  <2>2. <<e>> \in Seq({e}) /\ DOMAIN <<e>> = 1 .. 1 /\ <<e>>[1] = e
    OBVIOUS
  <2>3. \A i \in 1 .. 1 : i = 1
    OBVIOUS
  <2>4. AreEntries(<<e>>)
    BY <2>1, <2>2, <2>3 DEF AreEntries, IsList
  <2> QED
    BY <2>4 DEF e
<1>5. IsChunk([at |-> at, payload |-> p])
  BY <1>1 DEF IsChunk
<1> DEFINE entries == <<Entry(at, p)>>
           chunks == {[at |-> at, payload |-> p]}
<1>6. AreEntries(entries) /\ \A c \in chunks : IsChunk(c)
  BY <1>4, <1>5
<1> HIDE DEF entries, chunks
<1>7. f = [length |-> length, size |-> length, total |-> r.total, unknown |-> unknown,
           partial |-> partial, entries |-> entries, chunks |-> chunks]
  BY <1>2 DEF entries, chunks
<1>8. IsFile(f)
  BY <1>3, <1>6, <1>7 DEF IsFile
<1> QED
  BY <1>8 DEF f

(* the detail tiles,                                                       *)
LEMMA WithDetailIs ==
    ASSUME NEW r, IsPublished(r), NEW f, IsFile(f)
    PROVE  IsFile(WithDetail(f, r))
<1>1. IsPayload(WdtlPayload(r.tiles))
  <2>1. r.tiles \in Seq(TileParts)
    BY DEF IsPublished, PublishedResults, TileParts
  <2> QED
    BY <2>1, WdtlIsPayload DEF IsPayload
<1> DEFINE g == Extended(f, <<WdtlPayload(r.tiles)>>)
           open == \E i \in DOMAIN r.tiles : r.tiles[i].state # "final"
<1>2. IsFile(g)
  BY <1>1, OnePayload, ExtendedIsFile
<1>3. \/ WithDetail(f, r) = f
      \/ WithDetail(f, r) = [g EXCEPT !.partial = g.partial \/ open]
  BY DEF WithDetail
<1>4. (g.partial \/ open) \in BOOLEAN
  <2> HIDE DEF g, open
  <2> QED
    BY <1>2 DEF IsFile
<1> HIDE DEF g, open
<1> QED
  BY <1>2, <1>3, <1>4, FlaggedIsFile

(* the metadata,                                                           *)
LEMMA WithMetadataIs ==
    ASSUME NEW r, IsPublished(r), NEW f, IsFile(f)
    PROVE  IsFile(WithMetadata(f, r))
<1>1. r.metadata \in Texts \cup {None}
  BY DEF IsPublished, PublishedResults
<1>2. CASE r.metadata = None
  BY <1>2 DEF WithMetadata
<1>3. CASE r.metadata # None
  <2>1. IsPayload(MetaPayload(r.metadata))
    BY <1>1, <1>3, MetaIsPayload DEF IsPayload
  <2>2. WithMetadata(f, r) = Extended(f, <<MetaPayload(r.metadata)>>)
    BY <1>3 DEF WithMetadata
  <2> QED
    BY <2>1, <2>2, OnePayload, ExtendedIsFile
<1> QED
  BY <1>2, <1>3

(* the tempo and local grid,                                               *)
LEMMA WithTempoIs ==
    ASSUME NEW r, IsPublished(r), NEW f, IsFile(f)
    PROVE  IsFile(WithTempo(f, r))
<1>1. r.tempo \in Tempos \cup {None} /\ r.local \in LocalGrids \cup {None}
  BY DEF IsPublished, PublishedResults
<1>2. r.tempo # None => IsPayload(TempPayload(r.tempo))
  BY <1>1, TempoIsPayload DEF IsPayload
<1>3. r.local # None => IsPayload(LgrdPayload(r.local))
  BY <1>1, LocalIsPayload DEF IsPayload
<1>4. CASE r.tempo = None
  BY <1>4 DEF WithTempo
<1>5. CASE r.tempo # None /\ r.local = None
  <2>1. WithTempo(f, r) = Extended(f, <<TempPayload(r.tempo)>>)
    BY <1>5 DEF WithTempo
  <2> QED
    BY <2>1, <1>2, <1>5, OnePayload, ExtendedIsFile
<1>6. CASE r.tempo # None /\ r.local # None
  <2>1. WithTempo(f, r) = Extended(f, <<TempPayload(r.tempo), LgrdPayload(r.local)>>)
    BY <1>6 DEF WithTempo
  <2> QED
    BY <2>1, <1>2, <1>3, <1>6, TwoPayloads, ExtendedIsFile
<1> QED
  BY <1>4, <1>5, <1>6

(* the global grid and its revision,                                       *)
LEMMA WithGlobalIs ==
    ASSUME NEW r, IsPublished(r), NEW f, IsFile(f)
    PROVE  IsFile(WithGlobal(f, r))
<1>1. r.global \in GlobalGrids \cup {None}
  BY DEF IsPublished, PublishedResults
<1>2. CASE r.global = None
  BY <1>2 DEF WithGlobal
<1>3. CASE r.global # None
  <2>1. r.global \in GlobalGrids /\ r.global.revision.state # None
    BY <1>1, <1>3 DEF IsPublished
  <2>2. IsPayload(GgrdPayload(r.global)) /\ IsPayload(RevnPayload(r.global))
    BY <2>1, GlobalIsPayload DEF IsPayload
  <2>3. WithGlobal(f, r) = Extended(f, <<GgrdPayload(r.global), RevnPayload(r.global)>>)
    BY <1>3 DEF WithGlobal
  <2> QED
    BY <2>2, <2>3, TwoPayloads, ExtendedIsFile
<1> QED
  BY <1>2, <1>3

(* and so the whole container.                                             *)
LEMMA SerializedIs ==
    ASSUME NEW r, IsPublished(r)
    PROVE  IsFile(Serialized(r))
<1> DEFINE f == WithGlobal(WithTempo(WithMetadata(WithDetail(WovrFile(r), r), r), r), r)
           open == \E c \in f.chunks : Unfinished(c.payload)
<1>1. IsFile(f)
  BY WovrFileIs, WithDetailIs, WithMetadataIs, WithTempoIs, WithGlobalIs
<1>2. Serialized(r) = [f EXCEPT !.partial = f.partial \/ open]
  BY DEF Serialized, PatchAggregateState
<1>3. (f.partial \/ open) \in BOOLEAN
  <2> HIDE DEF f, open
  <2> QED
    BY <1>1 DEF IsFile
<1> HIDE DEF f, open
<1> QED
  BY <1>1, <1>2, <1>3, FlaggedIsFile

-----------------------------------------------------------------------------
(* What another producer or a fault makes of a file.                       *)

(* Entries replaced one by one leave a directory.                          *)
LEMMA EntriesPlaced ==
    ASSUME NEW s, AreEntries(s), NEW t, t = [i \in DOMAIN s |-> t[i]],
           \A i \in DOMAIN s : IsEntry(t[i])
    PROVE  AreEntries(t)
BY ListMapped DEF AreEntries

(* So do two entries that change places,                                   *)
LEMMA SwappedAre ==
    ASSUME NEW s, AreEntries(s), NEW i \in DOMAIN s, NEW j \in DOMAIN s
    PROVE  AreEntries([s EXCEPT ![i] = s[j], ![j] = s[i]])
<1> DEFINE t == [s EXCEPT ![i] = s[j], ![j] = s[i]]
<1>0. PICK S : s \in Seq(S)
  BY DEF AreEntries, IsList
<1>1. t = [k \in DOMAIN s |-> t[k]]
  BY <1>0
<1>2. ASSUME NEW k \in DOMAIN s PROVE IsEntry(t[k])
  <2>1. t[k] = s[k] \/ t[k] = s[i] \/ t[k] = s[j]
    BY <1>0
  <2> HIDE DEF t
  <2> QED
    BY <2>1 DEF AreEntries
<1> HIDE DEF t
<1>3. AreEntries(t)
  BY <1>1, <1>2, EntriesPlaced
<1> QED
  BY <1>3 DEF t

(* an entry that is marked as required or not,                             *)
LEMMA RequiredAre ==
    ASSUME NEW s, AreEntries(s), NEW i, NEW required
    PROVE  AreEntries([s EXCEPT ![i].required = required])
<1> DEFINE t == [s EXCEPT ![i].required = required]
<1>0. PICK S : s \in Seq(S)
  BY DEF AreEntries, IsList
<1>1. t = [k \in DOMAIN s |-> t[k]]
  BY <1>0
<1>2. ASSUME NEW k \in DOMAIN s PROVE IsEntry(t[k])
  <2> DEFINE e == s[k]
  <2>1. t[k] = e \/ t[k] = [e EXCEPT !.required = required]
    BY <1>0
  <2>2. IsEntry(e)
    BY DEF AreEntries
  <2> HIDE DEF t, e
  <2>3. [e EXCEPT !.required = required] =
            [id |-> e.id, required |-> required, offset |-> e.offset, size |-> e.size,
             crc |-> e.crc]
    BY <2>2 DEF IsEntry
  <2> QED
    BY <2>1, <2>2, <2>3 DEF IsEntry
<1> HIDE DEF t
<1>3. AreEntries(t)
  BY <1>1, <1>2, EntriesPlaced
<1> QED
  BY <1>3 DEF t

(* and an entry that is dropped.                                           *)
LEMMA RemovedAre ==
    ASSUME NEW s, AreEntries(s), NEW i \in DOMAIN s
    PROVE  AreEntries(RemoveAt(s, i))
<1>0. PICK S : s \in Seq(S)
  BY DEF AreEntries, IsList
<1>1. Len(s) \in Nat /\ DOMAIN s = 1 .. Len(s) /\ i \in 1 .. Len(s)
  BY <1>0
<1>2. ASSUME NEW a \in 1 .. Len(s) + 1, NEW b \in 0 .. Len(s) PROVE AreEntries(SubSeq(s, a, b))
  <2> DEFINE t == SubSeq(s, a, b)
  <2>1. t \in Seq(S)
    BY <1>0, <1>1
  <2>2. ASSUME NEW k \in DOMAIN t PROVE IsEntry(t[k])
    <3>1. k + a - 1 \in DOMAIN s /\ t[k] = s[k + a - 1]
      BY <1>0, <1>1
    <3> HIDE DEF t
    <3> QED
      BY <3>1 DEF AreEntries
  <2> HIDE DEF t
  <2>3. AreEntries(t)
    BY <2>1, <2>2 DEF AreEntries, IsList
  <2> QED
    BY <2>3 DEF t
<1>3. AreEntries(SubSeq(s, 1, i - 1)) /\ AreEntries(SubSeq(s, i + 1, Len(s)))
  BY <1>1, <1>2
<1>4. RemoveAt(s, i) = SubSeq(s, 1, i - 1) \o SubSeq(s, i + 1, Len(s))
  BY DEF RemoveAt
<1> QED
  BY <1>3, <1>4, EntriesJoined

(* A forged overview section has the form of an overview section,          *)
LEMMA WovrVariants ==
    ASSUME NEW p, IsWovr(p), NEW q \in Variants(p)
    PROVE  IsWovr(q)
<1> DEFINE spans == [i \in DOMAIN p.spans |-> [p.spans[i] EXCEPT !.packed = 0]]
<1>0. p.id = "WOVR"
  BY DEF IsWovr
<1>1. q = [p EXCEPT !.state = "final"] \/ q = [p EXCEPT !.spans = spans]
  BY <1>0 DEF Variants
<1>2. CASE q = [p EXCEPT !.state = "final"]
  <2>1. q = [id |-> "WOVR", state |-> "final", columns |-> p.columns, spans |-> p.spans,
             data |-> p.data]
    BY <1>2 DEF IsWovr
  <2>2. q.spans = p.spans /\ q.data = p.data /\ q.state \in States
    BY <2>1 DEF States
  <2>3. SpansAreRight(q)
    BY <2>2 DEF IsWovr, SpansAreRight
  <2> QED
    BY <2>1, <2>2, <2>3 DEF IsWovr
<1>3. CASE q = [p EXCEPT !.spans = spans]
  <2>0. p.spans \in Seq(SpanFields) /\ SpansAreRight(p)
    BY DEF IsWovr
  <2>1. ASSUME NEW x \in SpanFields
        PROVE  /\ [x EXCEPT !.packed = 0] \in SpanFields
               /\ [x EXCEPT !.packed = 0].packed = 0
               /\ [x EXCEPT !.packed = 0].count = x.count
               /\ [x EXCEPT !.packed = 0].column = x.column
    BY DEF SpanFields
  <2>2. Len(p.spans) \in Nat /\ DOMAIN p.spans = 1 .. Len(p.spans)
    BY <2>0
  <2>3. \A i \in DOMAIN p.spans : p.spans[i] \in SpanFields
    BY <2>0
  <2>4. \A i \in DOMAIN p.spans : /\ spans[i] \in SpanFields /\ spans[i].packed = 0
                                  /\ spans[i].count = p.spans[i].count
                                  /\ spans[i].column = p.spans[i].column
    BY <2>1, <2>3
  <2>5. spans = [i \in 1 .. Len(p.spans) |-> spans[i]]
    BY <2>2
  <2> HIDE DEF spans
  <2>6. spans \in [1 .. Len(p.spans) -> SpanFields]
    BY <2>2, <2>4, <2>5
  <2>7. spans \in Seq(SpanFields) /\ Len(spans) = Len(p.spans) /\ DOMAIN spans = DOMAIN p.spans
    BY <2>2, <2>6
  <2>8. q = [id |-> "WOVR", state |-> p.state, columns |-> p.columns, spans |-> spans,
             data |-> p.data]
    BY <1>3 DEF IsWovr
  <2>9. q.spans = spans /\ q.data = p.data /\ q.state = p.state
    BY <2>8
  <2>10. spans # <<>> => spans[1].packed = 0
    BY <2>2, <2>4, <2>7
  <2>11. ASSUME ~(Len(spans) > 1), NEW i \in DOMAIN spans, NEW k \in 1 .. spans[i].count
         PROVE  p.data[spans[i].packed + k] = spans[i].column + k - 1
    <3>1. i = 1 /\ p.spans # <<>>
      BY <2>2, <2>7, <2>11
    <3>2. p.spans[1].packed = 0
      BY <2>0, <3>1 DEF SpansAreRight
    <3>3. \A j \in DOMAIN p.spans : \A l \in 1 .. p.spans[j].count :
              p.data[p.spans[j].packed + l] = p.spans[j].column + l - 1
      BY <2>0, <2>7, <2>11 DEF SpansAreRight
    <3>4. p.data[p.spans[i].packed + k] = p.spans[i].column + k - 1
      BY <3>3, <2>4, <2>7
    <3> QED
      BY <3>1, <3>2, <3>4, <2>4, <2>7
  <2>12. Len(spans) > 1 => \A i \in DOMAIN spans : spans[i].packed = 0
    BY <2>4, <2>7
  <2>13. SpansAreRight(q)
    BY <2>9, <2>10, <2>11, <2>12 DEF SpansAreRight
  <2> QED
    BY <2>7, <2>8, <2>9, <2>13 DEF IsWovr
<1> QED
  BY <1>1, <1>2, <1>3

(* and a forged detail section that of a detail section:                   *)
LEMMA WdtlVariants ==
    ASSUME NEW p, IsWdtl(p), NEW q \in Variants(p)
    PROVE  IsWdtl(q)
<1> DEFINE zero == [i \in DOMAIN p.tiles |-> [p.tiles[i] EXCEPT !.packed = 0]]
           final == [i \in DOMAIN p.tiles |-> [p.tiles[i] EXCEPT !.state = "final"]]
           back == Reverse(p.tiles)
<1>0. p.id = "WDTL"
  BY DEF IsWdtl
<1>1. \E tiles \in {zero, final, back} : q = [p EXCEPT !.tiles = tiles]
  BY <1>0 DEF Variants
<1>2. p.tiles \in Seq(TileFields) /\ Len(p.tiles) \in Nat /\ DOMAIN p.tiles = 1 .. Len(p.tiles)
  BY DEF IsWdtl
<1>3. \A x \in TileFields : /\ [x EXCEPT !.packed = 0] \in TileFields
                            /\ [x EXCEPT !.state = "final"] \in TileFields
  BY DEF TileFields, States
<1>4. \A i \in DOMAIN p.tiles : p.tiles[i] \in TileFields
  BY <1>2
<1>5. zero \in [1 .. Len(p.tiles) -> TileFields]
  BY <1>2, <1>3, <1>4
<1>6. final \in [1 .. Len(p.tiles) -> TileFields]
  BY <1>2, <1>3, <1>4
<1>7. back \in [1 .. Len(p.tiles) -> TileFields]
  <2>1. \A i \in 1 .. Len(p.tiles) : Len(p.tiles) - i + 1 \in 1 .. Len(p.tiles)
    BY <1>2
  <2>2. back = [i \in 1 .. Len(p.tiles) |-> p.tiles[(Len(p.tiles) - i) + 1]]
    BY DEF Reverse
  <2> QED
    BY <2>1, <2>2, <1>2, <1>4
<1> HIDE DEF zero, final, back
<1>8. \A tiles \in {zero, final, back} : tiles \in Seq(TileFields)
  BY <1>2, <1>5, <1>6, <1>7
<1>9. PICK tiles \in {zero, final, back} : q = [p EXCEPT !.tiles = tiles]
  BY <1>1
<1>10. q = [id |-> "WDTL", tiles |-> tiles, data |-> p.data]
  BY <1>9 DEF IsWdtl
<1> QED
  BY <1>8, <1>10 DEF IsWdtl

(* every forged payload is well formed and keeps its identifier.           *)
LEMMA VariantIs ==
    ASSUME NEW p, IsPayload(p), NEW q \in Variants(p)
    PROVE  IsPayload(q) /\ q.id = p.id
<1>1. p # None /\ p.id \in {"WOVR", "WDTL", "LGRD", "REVN"}
  BY DEF Variants
<1>2. CASE p.id = "WOVR"
  <2>1. IsWovr(q)
    BY <1>2, PayloadById, WovrVariants
  <2> QED
    BY <2>1, <1>2 DEF IsWovr, IsPayload
<1>3. CASE p.id = "WDTL"
  <2>1. IsWdtl(q)
    BY <1>3, PayloadById, WdtlVariants
  <2> QED
    BY <2>1, <1>3 DEF IsWdtl, IsPayload
<1>4. CASE p.id = "LGRD"
  <2>1. IsLgrd(p)
    BY <1>4, PayloadById
  <2>2. q = [p EXCEPT !.feature.value = p.feature.value + 1]
    BY <1>1, <1>4 DEF Variants
  <2> DEFINE x == [p.feature EXCEPT !.value = p.feature.value + 1]
  <2>3. x \in LocalGrids
    <3>1. p.feature \in LocalGrids
      BY <2>1 DEF IsLgrd
    <3> QED
      BY <3>1 DEF LocalGrids
  <2>4. q = [id |-> "LGRD", feature |-> x]
    BY <2>1, <2>2 DEF IsLgrd
  <2> HIDE DEF x
  <2>5. IsLgrd(q) /\ q.id = "LGRD"
    BY <2>3, <2>4 DEF IsLgrd
  <2> QED
    BY <2>5, <1>4 DEF IsPayload
<1>5. CASE p.id = "REVN"
  <2>1. IsRevn(p)
    BY <1>5, PayloadById
  <2>2. q = [p EXCEPT !.state = "pending"] \/ q = [p EXCEPT !.revision = p.revision + 1]
    BY <1>1, <1>5 DEF Variants
  <2>3. \/ q = [id |-> "REVN", state |-> "pending", revision |-> p.revision,
                segments |-> p.segments, beats |-> p.beats]
        \/ q = [id |-> "REVN", state |-> p.state, revision |-> p.revision + 1,
                segments |-> p.segments, beats |-> p.beats]
    BY <2>1, <2>2 DEF IsRevn
  <2>4. IsRevn(q) /\ q.id = "REVN"
    BY <2>1, <2>3 DEF IsRevn
  <2> QED
    BY <2>4, <1>5 DEF IsPayload
<1> QED
  BY <1>1, <1>2, <1>3, <1>4, <1>5

(* Every file the caller can hold is one of this form.                     *)
Filed == file # None => IsFile(file) /\ IsPublished(result)

(* No result and no part of one is None.                                   *)
LEMMA NoneIsOther ==
    /\ None \notin PublishedResults /\ None \notin Texts /\ None \notin Tempos
    /\ None \notin LocalGrids /\ None \notin GlobalGrids
BY ResultsAssumption

(* The results that are saved are published ones.                          *)
LEMMA ResultIsPublished ==
    ASSUME NEW r \in Results
    PROVE  IsPublished(r)
BY ResultsAssumption DEF IsPublished

(* A result without some of its tiles or its metadata.                     *)
LEMMA FrontIsPublished ==
    ASSUME NEW r, IsPublished(r), r.tiles # <<>>
    PROVE  /\ IsPublished([r EXCEPT !.tiles = SubSeq(@, 1, 1)])
           /\ Tail(r.tiles) \in Seq(TileParts)
<1> DEFINE g == [r EXCEPT !.tiles = SubSeq(@, 1, 1)]
<1>1. r \in PublishedResults
  BY DEF IsPublished
<1>2. r.tiles \in Seq(TileParts)
  BY <1>1 DEF PublishedResults, TileParts
<1>3. SubSeq(r.tiles, 1, 1) \in Seq(TileParts) /\ Tail(r.tiles) \in Seq(TileParts)
  BY <1>2
<1>4. g \in PublishedResults
  BY <1>1, <1>3 DEF PublishedResults, TileParts
<1>5. g.spans = r.spans /\ g.global = r.global
  BY <1>1 DEF PublishedResults
<1> HIDE DEF g
<1>6. IsPublished(g)
  BY <1>4, <1>5 DEF IsPublished
<1> QED
  BY <1>3, <1>6 DEF g

(* A published result without its metadata is one as well.                 *)
LEMMA BareIsPublished ==
    ASSUME NEW r, IsPublished(r)
    PROVE  IsPublished([r EXCEPT !.metadata = None])
<1> DEFINE g == [r EXCEPT !.metadata = None]
<1>1. r \in PublishedResults
  BY DEF IsPublished
<1>4. g \in PublishedResults
  BY <1>1 DEF PublishedResults
<1>5. g.spans = r.spans /\ g.global = r.global
  BY <1>1 DEF PublishedResults
<1> HIDE DEF g
<1>6. IsPublished(g)
  BY <1>4, <1>5 DEF IsPublished
<1> QED
  BY <1>6 DEF g

(* The edits, one at a time.                                               *)
Refiled == IsFile(file') /\ result' = result

(* Every edit leaves a well-formed file: one with entries in another       *)
(* order,                                                                  *)
LEMMA ReorderFiled ==
    ASSUME IsFile(file), Reorder
    PROVE  Refiled
<1>1. PICK i \in DOMAIN file.entries, j \in DOMAIN file.entries :
        /\ file' = [file EXCEPT !.entries =
                      [file.entries EXCEPT ![i] = file.entries[j], ![j] = file.entries[i]]]
        /\ result' = result
  BY DEF Reorder, ChangeForm, ChangeContent
<1>2. AreEntries([file.entries EXCEPT ![i] = file.entries[j], ![j] = file.entries[i]])
  BY SwappedAre DEF IsFile
<1> QED
  BY <1>1, <1>2, RelistedIsFile DEF Refiled

(* one with a vendor's section,                                            *)
LEMMA VendorFiled ==
    ASSUME IsFile(file), AddVendorSection
    PROVE  Refiled
<1> DEFINE f == Extended(file, <<[id |-> "VEND"]>>)
<1>1. PICK required \in BOOLEAN :
        /\ file' = [f EXCEPT !.entries =
                      [f.entries EXCEPT ![Len(f.entries)].required = required]]
        /\ result' = result
  BY DEF AddVendorSection, ChangeForm, ChangeContent
<1>2. IsPayload([id |-> "VEND"])
  BY DEF IsPayload, IsVend
<1>3. IsFile(f)
  BY <1>2, OnePayload, ExtendedIsFile
<1> HIDE DEF f
<1>4. AreEntries([f.entries EXCEPT ![Len(f.entries)].required = required])
  BY <1>3, RequiredAre DEF IsFile
<1> QED
  BY <1>1, <1>3, <1>4, RelistedIsFile DEF Refiled

(* one whose tiles are in two detail sections,                             *)
LEMMA RegroupFiled ==
    ASSUME IsFile(file), IsPublished(result), Regroup
    PROVE  Refiled
<1> DEFINE front == [result EXCEPT !.tiles = SubSeq(@, 1, 1)]
           f == Extended(Serialized(front), <<WdtlPayload(Tail(result.tiles))>>)
<1>1. /\ file' = [f EXCEPT !.partial = file.partial] /\ result' = result
      /\ Len(result.tiles) > 1
  BY DEF Regroup, ChangeForm
<1>2. result.tiles # <<>>
  BY <1>1
<1>3. IsPublished(front) /\ Tail(result.tiles) \in Seq(TileParts)
  BY <1>2, FrontIsPublished
<1> HIDE DEF front
<1>4. IsFile(Serialized(front))
  BY <1>3, SerializedIs
<1>5. IsPayload(WdtlPayload(Tail(result.tiles)))
  BY <1>3, WdtlIsPayload DEF IsPayload
<1>6. IsFile(f)
  BY <1>4, <1>5, OnePayload, ExtendedIsFile
<1> HIDE DEF f
<1>7. file.partial \in BOOLEAN
  BY DEF IsFile
<1> QED
  BY <1>1, <1>6, <1>7, FlaggedIsFile DEF Refiled

(* one that the metadata writer has rewritten,                             *)
LEMMA RewriteFiled ==
    ASSUME IsFile(file), IsPublished(result), RewriteMetadata
    PROVE  Refiled
<1> DEFINE bare == Serialized([result EXCEPT !.metadata = None])
           p == MetaPayload(result.metadata)
           longer == [p.items EXCEPT ![1].head = @ + 1]
           unknown == Append(p.items, [key |-> 9, size |-> 1, head |-> 1])
<1>1. /\ result' = result /\ result.metadata # None
      /\ \/ file' = Extended(bare, <<[p EXCEPT !.items = longer]>>)
         \/ file' = Extended(bare, <<[p EXCEPT !.items = unknown]>>)
  BY DEF RewriteMetadata, ChangeForm, ChangeContent
<1>2. IsFile(bare)
  BY BareIsPublished, SerializedIs
<1>3. result.metadata \in Texts
  BY <1>1 DEF IsPublished, PublishedResults
<1>4. IsMeta(p)
  BY <1>3, MetaIsPayload
<1> HIDE DEF p
<1>5. p.items \in Seq(ItemFields) /\ p = [id |-> "META", items |-> p.items]
  BY <1>4 DEF IsMeta
<1>6. unknown \in Seq(ItemFields)
  BY <1>5 DEF ItemFields
<1>7. longer \in Seq(ItemFields)
  <2>1. Len(p.items) \in Nat /\ DOMAIN p.items = 1 .. Len(p.items)
    BY <1>5
  <2>2. longer = [i \in 1 .. Len(p.items) |-> longer[i]]
    BY <2>1
  <2>3. ASSUME NEW i \in 1 .. Len(p.items) PROVE longer[i] \in ItemFields
    <3>1. p.items[i] \in ItemFields
      BY <1>5, <2>1
    <3>2. longer[i] = IF i = 1 THEN [p.items[1] EXCEPT !.head = @ + 1] ELSE p.items[i]
      BY <2>1
    <3> QED
      BY <3>1, <3>2 DEF ItemFields
  <2> HIDE DEF longer
  <2> QED
    BY <2>1, <2>2, <2>3
<1>8. ASSUME NEW items \in Seq(ItemFields) PROVE IsPayload([p EXCEPT !.items = items])
  <2>1. [p EXCEPT !.items = items] = [id |-> "META", items |-> items]
    BY <1>5
  <2> QED
    BY <2>1 DEF IsPayload, IsMeta
<1>9. ASSUME NEW q, IsPayload(q) PROVE IsFile(Extended(bare, <<q>>))
  BY <1>2, <1>9, OnePayload, ExtendedIsFile
<1> HIDE DEF longer, unknown, bare
<1> QED
  BY <1>1, <1>6, <1>7, <1>8, <1>9 DEF Refiled

(* one without a section,                                                  *)
LEMMA DropFiled ==
    ASSUME IsFile(file), DropSection
    PROVE  Refiled
<1>1. PICK i \in DOMAIN file.entries :
        file' = [file EXCEPT !.entries = RemoveAt(file.entries, i)] /\ result' = result
  BY DEF DropSection, ChangeContent
<1>2. AreEntries(RemoveAt(file.entries, i))
  BY RemovedAre DEF IsFile
<1> QED
  BY <1>1, <1>2, RelistedIsFile DEF Refiled

(* one that lists a section twice,                                         *)
LEMMA RepeatFiled ==
    ASSUME IsFile(file), RepeatSection
    PROVE  Refiled
<1>1. PICK c \in file.chunks :
        c.payload # None /\ file' = Extended(file, <<c.payload>>) /\ result' = result
  BY DEF RepeatSection, ChangeContent
<1>2. IsPayload(c.payload)
  BY <1>1 DEF IsFile, IsChunk
<1> QED
  BY <1>1, <1>2, OnePayload, ExtendedIsFile DEF Refiled

(* one that no longer says that it is partial,                             *)
LEMMA ClearFiled ==
    ASSUME IsFile(file), ClearPartial
    PROVE  Refiled
<1>1. file' = [file EXCEPT !.partial = FALSE] /\ result' = result
  BY DEF ClearPartial, ChangeContent
<1> QED
  BY <1>1, FlaggedIsFile DEF Refiled

(* one that is cut,                                                        *)
LEMMA TruncateFiled ==
    ASSUME IsFile(file), Truncate
    PROVE  Refiled
<1> DEFINE length == file.length - 8
<1>1. file' = [file EXCEPT !.length = length] /\ result' = result
  BY DEF Truncate, ChangeContent
<1> HIDE DEF length
<1> QED
  BY <1>1, CutIsFile DEF Refiled

(* one with a damaged byte,                                                *)
LEMMA DamageFiled ==
    ASSUME IsFile(file), Damage
    PROVE  Refiled
<1>1. PICK c \in file.chunks :
        /\ file' = [file EXCEPT !.chunks =
                       (file.chunks \ {c}) \cup {[c EXCEPT !.payload = None]}]
        /\ result' = result
  BY DEF Damage, ChangeContent
<1> DEFINE d == [c EXCEPT !.payload = None]
           chunks == (file.chunks \ {c}) \cup {d}
<1>2. \A b \in file.chunks : IsChunk(b)
  BY DEF IsFile
<1>3. d = [at |-> c.at, payload |-> None]
  BY <1>2 DEF IsChunk
<1>4. IsChunk(d)
  BY <1>3 DEF IsChunk
<1> HIDE DEF d
<1>5. \A b \in chunks : IsChunk(b)
  BY <1>2, <1>4
<1>6. file' = [file EXCEPT !.chunks = chunks]
  BY <1>1 DEF d
<1> HIDE DEF chunks
<1> QED
  BY <1>1, <1>5, <1>6, RefilledIsFile DEF Refiled

(* and one with a forged section.                                          *)
LEMMA ForgeFiled ==
    ASSUME IsFile(file), Forge
    PROVE  Refiled
<1> DEFINE Written(c, p) == [c EXCEPT !.payload = p]
           Filled(c, p) == (file.chunks \ {c}) \cup {Written(c, p)}
           Listed(c, p) == [i \in DOMAIN file.entries |->
                               IF file.entries[i].offset = c.at /\ file.entries[i].id = p.id
                               THEN [file.entries[i] EXCEPT !.crc = p] ELSE file.entries[i]]
<1>0. PICK c \in file.chunks : \E p \in Variants(c.payload) :
        /\ file' = [file EXCEPT !.chunks = Filled(c, p), !.entries = Listed(c, p)]
        /\ result' = result
  BY DEF Forge, ChangeContent
<1>1. PICK p \in Variants(c.payload) :
        /\ file' = [file EXCEPT !.chunks = Filled(c, p), !.entries = Listed(c, p)]
        /\ result' = result
  BY <1>0
<1>2. \A b \in file.chunks : IsChunk(b)
  BY DEF IsFile
<1>3. c.payload # None /\ IsChunk(c)
  BY <1>2 DEF Variants
<1>4. IsPayload(c.payload)
  BY <1>3 DEF IsChunk
<1>5. IsPayload(p)
  BY <1>4, VariantIs
<1>6. IsChunk(Written(c, p))
  <2>1. Written(c, p) = [at |-> c.at, payload |-> p]
    BY <1>3 DEF IsChunk
  <2> QED
    BY <2>1, <1>5 DEF IsChunk
<1> HIDE DEF Written
<1>7. \A b \in Filled(c, p) : IsChunk(b)
  BY <1>2, <1>6
<1>8. AreEntries(file.entries)
  BY DEF IsFile
<1> DEFINE t == Listed(c, p)
<1>9. t = [i \in DOMAIN file.entries |-> t[i]]
  OBVIOUS
<1>10. ASSUME NEW i \in DOMAIN file.entries PROVE IsEntry(t[i])
  <2> DEFINE e == file.entries[i]
  <2>1. IsEntry(e)
    BY <1>8 DEF AreEntries
  <2>2. t[i] = IF e.offset = c.at /\ e.id = p.id THEN [e EXCEPT !.crc = p] ELSE e
    OBVIOUS
  <2> HIDE DEF e, t
  <2>3. CASE e.offset = c.at /\ e.id = p.id
    <3>1. t[i] = [id |-> e.id, required |-> e.required, offset |-> e.offset,
                  size |-> e.size, crc |-> p]
      BY <2>1, <2>2, <2>3 DEF IsEntry
    <3> QED
      BY <3>1, <2>3, <1>5 DEF IsEntry
  <2> QED
    BY <2>1, <2>2, <2>3
<1>11. AreEntries(t)
  <2> HIDE DEF t
  <2> QED
    BY <1>8, <1>9, <1>10, EntriesPlaced
<1>12. file' = [length |-> file.length, size |-> file.size, total |-> file.total,
                unknown |-> file.unknown, partial |-> file.partial,
                entries |-> t, chunks |-> Filled(c, p)]
  <2> HIDE DEF Filled
  <2>1. file' = [file EXCEPT !.chunks = Filled(c, p), !.entries = t]
    BY <1>1
  <2> HIDE DEF t
  <2> QED
    BY <2>1 DEF IsFile
<1> HIDE DEF t, Filled
<1>13. IsFile(file')
  BY <1>7, <1>11, <1>12 DEF IsFile
<1> QED
  BY <1>1, <1>13 DEF Refiled

(* A layer that attaches a section leaves the caller's side alone.         *)
LEMMA AttachFrame ==
    ASSUME NEW additional, NEW blocks, NEW provided, NEW sound, NEW got, NEW next,
           Attach(additional, blocks, provided, sound, got, next)
    PROVE  CallerFrame
BY DEF Attach, Fail

(* The file does not change while it is parsed.                            *)
LEMMA ParseFrame == Parse => CallerFrame
<1> SUFFICES ASSUME Parse PROVE CallerFrame
  OBVIOUS
<1>1. CASE ParseWovr
  BY <1>1, AttachFrame DEF ParseWovr, Fail
<1>2. CASE HardenWovr
  BY <1>2 DEF HardenWovr, Fail, Pass
<1>3. CASE ParseDetail
  BY <1>3, AttachFrame DEF ParseDetail, Fail, Pass
<1>4. CASE ParseMetadata
  BY <1>4, AttachFrame DEF ParseMetadata, Fail, Pass
<1>5. CASE ParseTempo
  BY <1>5, AttachFrame DEF ParseTempo, Fail, Pass
<1>6. CASE ParseLocal
  BY <1>6, AttachFrame DEF ParseLocal, Fail, Pass
<1>7. CASE ParseGlobal
  BY <1>7, AttachFrame DEF ParseGlobal, Fail, Pass
<1>8. CASE ParseRevision
  BY <1>8 DEF ParseRevision, Fail, Pass
<1> QED
  BY <1>1, <1>2, <1>3, <1>4, <1>5, <1>6, <1>7, <1>8 DEF Parse

(* The file is well formed whatever the step.                              *)
LEMMA FiledStep == Filed /\ [Next]_vars => Filed'
<1> SUFFICES ASSUME Filed, [Next]_vars PROVE Filed'
  OBVIOUS
<1>1. CASE \E r \in Results : Save(r)
  <2>1. PICK r \in Results : result' = r /\ file' = Serialized(r)
    BY <1>1 DEF Save
  <2> QED
    BY <2>1, ResultIsPublished, SerializedIs DEF Filed
<1>2. CASE Edit
  <2>1. IsFile(file) /\ IsPublished(result)
    BY <1>2 DEF Edit, Filed
  <2>2. Refiled
    BY <1>2, <2>1, ReorderFiled, VendorFiled, RegroupFiled, RewriteFiled, DropFiled,
       RepeatFiled, ClearFiled, TruncateFiled, DamageFiled, ForgeFiled DEF Edit
  <2> QED
    BY <2>1, <2>2 DEF Filed, Refiled
<1>3. CASE \E bytes \in Limits : Begin(bytes)
  BY <1>3 DEF Begin, Filed
<1>4. CASE Parse
  <2>1. UNCHANGED <<file, result>>
    BY <1>4, ParseFrame DEF CallerFrame
  <2> QED
    BY <2>1 DEF Filed
<1>5. CASE Close
  BY <1>5 DEF Close, Filed
<1>6. CASE UNCHANGED vars
  BY <1>6 DEF vars, Filed
<1> QED
  BY <1>1, <1>2, <1>3, <1>4, <1>5, <1>6 DEF Next

(* The file that the readers are given is always well formed.              *)
LEMMA FiledAlways == Spec => []Filed
<1>1. Init => Filed
  BY DEF Init, Filed
<1> QED
  BY <1>1, FiledStep, PTL DEF Spec

-----------------------------------------------------------------------------
(* What the readers find in a file that has passed the checks.             *)

(* The least of some naturals is one of them.                              *)
LEMMA MinIs ==
    ASSUME NEW S, S # {}, S \subseteq Nat
    PROVE  Min(S) \in S
<1>1. \E x \in S : \A y \in S : x <= y
  BY LeastExists
<1> QED
  BY <1>1 DEF Min

(* In a file that passes the container's checks, an entry leads to a       *)
(* payload with its identifier.                                            *)
LEMMA EntryIsRead ==
    ASSUME NEW f, IsFile(f), ContainerStatus(f) = "ok", NEW i \in DOMAIN f.entries
    PROVE  /\ IsPayload(PayloadAt(f, f.entries[i]))
           /\ PayloadAt(f, f.entries[i]).id = f.entries[i].id
<1> DEFINE wrong == {j \in DOMAIN f.entries :
                       ~EntryIsSound(f, j)
                       \/ (f.entries[j].required /\ f.entries[j].id \notin Standard)}
<1>1. wrong = {}
  BY DEF ContainerStatus
<1>2. EntryIsSound(f, i)
  BY <1>1
<1>3. PayloadAt(f, f.entries[i]) = f.entries[i].crc
  BY <1>2 DEF EntryIsSound, ChecksumIsRight
<1>4. IsEntry(f.entries[i])
  BY DEF IsFile, AreEntries
<1> QED
  BY <1>3, <1>4 DEF IsEntry

(* So the first section with an identifier is a payload with it.           *)
LEMMA SectionIs ==
    ASSUME NEW f, IsFile(f), ContainerStatus(f) = "ok", NEW id, Sections(f, id) # {}
    PROVE  IsPayload(Section(f, id)) /\ Section(f, id).id = id
<1>1. DOMAIN f.entries = 1 .. Len(f.entries) /\ Len(f.entries) \in Nat
  BY ListDomain DEF IsFile, AreEntries
<1>2. Sections(f, id) \subseteq Nat /\ Sections(f, id) \subseteq DOMAIN f.entries
  BY <1>1 DEF Sections
<1>3. Min(Sections(f, id)) \in Sections(f, id)
  BY <1>2, MinIs
<1>4. Min(Sections(f, id)) \in DOMAIN f.entries /\ f.entries[Min(Sections(f, id))].id = id
  BY <1>3 DEF Sections
<1> QED
  BY <1>4, EntryIsRead DEF Section

(* A file that passes the checks has an overview.                          *)
LEMMA StatusIs ==
    ASSUME NEW f, ContainerStatus(f) = "ok"
    PROVE  Sections(f, "WOVR") # {}
BY DEF ContainerStatus

-----------------------------------------------------------------------------
(* Blocks and their bytes.                                                 *)

AreBlocks(S) == IsFiniteSet(S) /\ \A b \in S : b.bytes \in Nat

(* The laws of addition that the sums of blocks need.                      *)
LEMMA Regrouped ==
    ASSUME NEW a \in Nat, NEW b \in Nat, NEW c \in Nat
    PROVE  a + (b + c) = b + (a + c) /\ a + (b + c) = b + c + a /\ a + b = b + a
OBVIOUS

(* No blocks have no bytes.                                                *)
LEMMA NoBytes == AreBlocks({}) /\ BytesOf({}) = 0
<1>1. IsFiniteSet({})
  BY FS_EmptySet
<1>2. AreBlocks({})
  BY <1>1 DEF AreBlocks
<1> DEFINE w == [b \in {} |-> b.bytes]
<1>3. BytesOf({}) = Total({}, w)
  BY <1>1, BytesAreSum
<1> HIDE DEF w
<1>4. Total({}, w) = 0
  BY <1>1, SumAdd
<1> QED
  BY <1>2, <1>3, <1>4

(* A block that joins others adds its bytes.                               *)
LEMMA BytesAdd ==
    ASSUME NEW S, AreBlocks(S), NEW x, x \notin S, x.bytes \in Nat
    PROVE  /\ AreBlocks(S \cup {x})
           /\ BytesOf(S) \in Nat /\ BytesOf(S \cup {x}) = x.bytes + BytesOf(S)
<1> DEFINE U == S \cup {x}
           w == [b \in U |-> b.bytes]
           v == [b \in S |-> b.bytes]
<1>1. IsFiniteSet(U) /\ \A b \in U : b.bytes \in Nat
  BY FS_AddElement DEF AreBlocks
<1>2. AreBlocks(U)
  BY <1>1 DEF AreBlocks
<1>3. BytesOf(U) = Total(U, w)
  BY <1>1, BytesAreSum
<1>4. BytesOf(S) = Total(S, v)
  BY BytesAreSum DEF AreBlocks
<1>5. /\ \A b \in U : w[b] \in Nat
      /\ \A b \in S : v[b] = w[b] /\ w[b] \in Nat
      /\ w[x] = x.bytes /\ x \in U /\ U \ {x} = S /\ IsFiniteSet(S)
  BY <1>1 DEF AreBlocks
<1> HIDE DEF w, v, U
<1>6. Total(S, v) = Total(S, w) /\ Total(S, w) \in Nat
  BY <1>5, SumWeights, SumAdd
<1>7. Total(U, w) = w[x] + Total(U \ {x}, w)
  BY <1>1, <1>5, SumAdd
<1> QED
  BY <1>2, <1>3, <1>4, <1>5, <1>6, <1>7 DEF U

(* The bytes of blocks are a natural number.                               *)
LEMMA BytesType ==
    ASSUME NEW S, AreBlocks(S)
    PROVE  BytesOf(S) \in Nat
<1> DEFINE v == [b \in S |-> b.bytes]
<1>4. BytesOf(S) = Total(S, v)
  BY BytesAreSum DEF AreBlocks
<1>5. IsFiniteSet(S) /\ \A b \in S : v[b] \in Nat
  BY DEF AreBlocks
<1> HIDE DEF v
<1> QED
  BY <1>4, <1>5, SumAdd

(* Blocks that join others.                                                *)
LEMMA BytesJoin ==
    ASSUME NEW S, AreBlocks(S), NEW T, AreBlocks(T), S \cap T = {}
    PROVE  AreBlocks(S \cup T) /\ BytesOf(S \cup T) = BytesOf(S) + BytesOf(T)
<1> DEFINE n == Cardinality(T)
           Joins(s) == /\ AreBlocks(s) /\ AreBlocks(S \cup s)
                       /\ BytesOf(S \cup s) = BytesOf(S) + BytesOf(s)
           K == {k \in 0 .. n : \A s \in SUBSET T : Cardinality(s) = k => Joins(s)}
<1>0. IsFiniteSet(T) /\ n \in Nat /\ BytesOf(S) \in Nat
  BY FS_CardinalityType, BytesType DEF AreBlocks
<1>1. 0 \in K
  <2>1. ASSUME NEW s \in SUBSET T, Cardinality(s) = 0 PROVE Joins(s)
    <3>1. s = {}
      BY <1>0, <2>1, PickIs
    <3>2. S \cup {} = S
      OBVIOUS
    <3> QED
      BY <1>0, <3>1, <3>2, NoBytes
  <2> QED
    BY <1>0, <2>1
<1>2. ASSUME NEW k \in 1 .. n, k - 1 \in K PROVE k \in K
  <2>1. ASSUME NEW s \in SUBSET T, Cardinality(s) = k PROVE Joins(s)
    <3>1. s # {}
      BY <1>0, <2>1, PickIs
    <3>2. PICK x \in s : TRUE
      BY <3>1
    <3> DEFINE r == s \ {x}
    <3>3. Cardinality(r) = k - 1 /\ r \in SUBSET T
      BY <1>0, <2>1, PickIs
    <3>4. Joins(r)
      BY <1>2, <3>3
    <3>5. x \notin r /\ x \notin S \cup r /\ x.bytes \in Nat
      BY DEF AreBlocks
    <3>6. s = r \cup {x} /\ S \cup s = (S \cup r) \cup {x}
      OBVIOUS
    <3> HIDE DEF r
    <3>7. /\ AreBlocks(r \cup {x}) /\ BytesOf(r) \in Nat
          /\ BytesOf(r \cup {x}) = x.bytes + BytesOf(r)
      BY <3>4, <3>5, BytesAdd
    <3>8. AreBlocks((S \cup r) \cup {x}) /\ BytesOf((S \cup r) \cup {x}) = x.bytes + BytesOf(S \cup r)
      BY <3>4, <3>5, BytesAdd
    <3>9. BytesOf(S \cup s) = x.bytes + (BytesOf(S) + BytesOf(r))
      BY <3>4, <3>6, <3>8
    <3>10. BytesOf(s) = x.bytes + BytesOf(r)
      BY <3>6, <3>7
    <3>11. BytesOf(S \cup s) = BytesOf(S) + BytesOf(s)
      BY <1>0, <3>5, <3>7, <3>9, <3>10, Regrouped
    <3> QED
      BY <3>6, <3>7, <3>8, <3>11
  <2> QED
    BY <2>1
<1> HIDE DEF Joins
<1>3. K = 0 .. n
  BY <1>0, <1>1, <1>2, Induction
<1>4. n \in K
  BY <1>0, <1>3
<1>5. Joins(T)
  BY <1>4
<1> QED
  BY <1>5 DEF Joins

(* The bytes of one block,                                                 *)
LEMMA OneBlock ==
    ASSUME NEW x, x.bytes \in Nat
    PROVE  AreBlocks({x}) /\ BytesOf({x}) = x.bytes
<1>1. AreBlocks({} \cup {x}) /\ BytesOf({} \cup {x}) = x.bytes + 0
  BY NoBytes, BytesAdd
<1>2. {} \cup {x} = {x}
  OBVIOUS
<1> QED
  BY <1>1, <1>2

(* of two,                                                                 *)
LEMMA TwoBlocks ==
    ASSUME NEW x, x.bytes \in Nat, NEW y, y.bytes \in Nat, x # y
    PROVE  AreBlocks({x, y}) /\ BytesOf({x, y}) = x.bytes + y.bytes
<1>1. AreBlocks({x} \cup {y}) /\ BytesOf({x} \cup {y}) = y.bytes + x.bytes
  BY OneBlock, BytesAdd
<1>2. {x} \cup {y} = {x, y}
  OBVIOUS
<1>3. y.bytes + x.bytes = x.bytes + y.bytes
  BY Regrouped
<1> QED
  BY <1>1, <1>2, <1>3

(* and of three.                                                           *)
LEMMA ThreeBlocks ==
    ASSUME NEW x, x.bytes \in Nat, NEW y, y.bytes \in Nat, NEW z, z.bytes \in Nat,
           x # y, x # z, y # z
    PROVE  AreBlocks({x, y, z}) /\ BytesOf({x, y, z}) = x.bytes + y.bytes + z.bytes
<1>1. /\ AreBlocks({x, y} \cup {z})
      /\ BytesOf({x, y} \cup {z}) = z.bytes + (x.bytes + y.bytes)
  BY TwoBlocks, BytesAdd
<1>2. {x, y} \cup {z} = {x, y, z}
  OBVIOUS
<1>3. z.bytes + (x.bytes + y.bytes) = x.bytes + y.bytes + z.bytes
  BY Regrouped
<1> QED
  BY <1>1, <1>2, <1>3

(* The bytes of an array.                                                  *)
LEMMA BlockIs ==
    ASSUME NEW name, NEW count \in Nat, NEW structure \in Structures
    PROVE  /\ Block(name, count, structure).name = name
           /\ Block(name, count, structure).bytes = count * SizeOf[structure]
           /\ Block(name, count, structure).bytes \in Nat
<1>1. SizeOf[structure] \in Nat
  BY ContainerAssumption
<1>2. count * SizeOf[structure] \in Nat
  BY <1>1
<1> QED
  BY <1>2 DEF Block

-----------------------------------------------------------------------------
(* What a result takes, feature by feature.                                *)

SpanBytes(spans) == SizeOf["span"] * Len(spans) + SizeOf["column"] * Len(DataOf(spans))
TileBytes(tiles) == SizeOf["tile"] * Len(tiles) + SizeOf["column"] * Len(DataOf(tiles))
ItemBytes(items) ==
    IF items = None THEN 0 ELSE SumOver(DOMAIN items, LAMBDA i : TextBytes(items[i]))
TempoBytes(t) == IF t = None THEN 0 ELSE SizeOf["candidate"] * t.candidates
LocalBytes(g) == IF g = None THEN 0 ELSE SizeOf["range"] + SizeOf["segment"]
GlobalBytes(g) ==
    IF g = None THEN 0
    ELSE SizeOf["s6"] + SizeOf["range"] + SizeOf["segment"] * Len(g.segments)
         + SizeOf["beat"] * g.beats

(* The sizes of the structures are natural numbers.                        *)
LEMMA SizesAre == \A s \in Structures : SizeOf[s] \in Nat
BY ContainerAssumption

(* The laws of multiplication that the sizes of arrays need.               *)
LEMMA ProductIs ==
    ASSUME NEW a \in Nat, NEW b \in Nat, NEW c \in Nat
    PROVE  a * b \in Nat /\ a * (b + c) = a * b + a * c /\ a * b = b * a
OBVIOUS

(* The bytes of a result regrouped by layer.                               *)
LEMMA SumsAre ==
    ASSUME NEW a \in Nat, NEW b \in Nat, NEW c \in Nat, NEW d \in Nat, NEW e \in Nat,
           NEW f \in Nat, NEW g \in Nat, NEW h \in Nat, NEW k \in Nat
    PROVE  /\ a + b + (c + d) + e + f + g + h + k = a + (b + c) + (e + d) + f + g + h + k
           /\ a + b \in Nat /\ a + b + c \in Nat
OBVIOUS

(* The columns of spans or tiles have a length.                            *)
LEMMA DataIsList ==
    ASSUME NEW X, NEW parts \in Seq(X), \A i \in DOMAIN parts : parts[i].data \in Seq(Nat)
    PROVE  Len(DataOf(parts)) \in Nat /\ Len(parts) \in Nat
<1>1. DataOf(parts) \in Seq(Nat)
  BY PackedIs
<1> QED
  BY <1>1

(* The bytes of each part of a result are a natural number: of the spans,  *)
LEMMA SpanBytesAre ==
    ASSUME NEW spans \in Seq(SpanParts)
    PROVE  /\ Len(spans) \in Nat /\ Len(DataOf(spans)) \in Nat
           /\ SpanBytes(spans) \in Nat
<1>0. \A i \in DOMAIN spans : spans[i] \in SpanParts
  OBVIOUS
<1>1. \A i \in DOMAIN spans : spans[i].data \in Seq(Nat)
  BY <1>0 DEF SpanParts
<1>2. Len(DataOf(spans)) \in Nat /\ Len(spans) \in Nat
  BY <1>1, DataIsList
<1>3. SizeOf["span"] \in Nat /\ SizeOf["column"] \in Nat
  BY SizesAre DEF Structures
<1> QED
  BY <1>2, <1>3, ProductIs, SumsAre DEF SpanBytes

(* of the tiles,                                                           *)
LEMMA TileBytesAre ==
    ASSUME NEW tiles \in Seq(TileParts)
    PROVE  /\ Len(tiles) \in Nat /\ Len(DataOf(tiles)) \in Nat
           /\ TileBytes(tiles) \in Nat
<1>0. \A i \in DOMAIN tiles : tiles[i] \in TileParts
  OBVIOUS
<1>1. \A i \in DOMAIN tiles : tiles[i].data \in Seq(Nat)
  BY <1>0 DEF TileParts
<1>2. Len(DataOf(tiles)) \in Nat /\ Len(tiles) \in Nat
  BY <1>1, DataIsList
<1>3. SizeOf["tile"] \in Nat /\ SizeOf["column"] \in Nat
  BY SizesAre DEF Structures
<1> QED
  BY <1>2, <1>3, ProductIs, SumsAre DEF TileBytes

(* none when there are none,                                               *)
LEMMA NoTileBytes == TileBytes(<<>>) = 0
<1>1. <<>> \in Seq(TileParts) /\ Len(<<>>) = 0 /\ \A i \in DOMAIN <<>> : <<>>[i].data \in Seq(Nat)
  OBVIOUS
<1>2. PICK P, d : DataJoint(P, d, <<>>, Nat)
  BY <1>1, DataIs
<1>3. DataOf(<<>>) = P[0] /\ P[0] = <<>>
  BY <1>1, <1>2 DEF DataJoint, JointOf, IsJoint
<1>4. Len(DataOf(<<>>)) = 0
  BY <1>3
<1>5. SizeOf["tile"] \in Nat /\ SizeOf["column"] \in Nat
  BY SizesAre DEF Structures
<1> QED
  BY <1>1, <1>4, <1>5 DEF TileBytes

(* of the metadata,                                                        *)
LEMMA ItemBytesAre ==
    ASSUME NEW items \in Texts \cup {None}
    PROVE  ItemBytes(items) \in Nat
<1>1. CASE items = None
  BY <1>1 DEF ItemBytes
<1>2. CASE items # None
  <2> DEFINE R == [key : Nat, size : Nat]
  <2>1. items \in Seq(R)
    BY <1>2 DEF Texts
  <2> HIDE DEF R
  <2>2. IsFiniteSet(DOMAIN items)
    <3>1. DOMAIN items = 1 .. Len(items) /\ Len(items) \in Nat
      BY <2>1
    <3> QED
      BY <3>1, FS_Interval
  <2>3. \A i \in DOMAIN items : TextBytes(items[i]) \in Nat
    <3>1. \A i \in DOMAIN items : items[i] \in R
      BY <2>1
    <3> QED
      BY <3>1 DEF TextBytes, R
  <2> DEFINE w == [i \in DOMAIN items |-> TextBytes(items[i])]
  <2>4. ItemBytes(items) = Total(DOMAIN items, w)
    BY <1>2, <2>2, <2>3, TextsAreSum DEF ItemBytes
  <2>5. \A i \in DOMAIN items : w[i] \in Nat
    BY <2>3
  <2> HIDE DEF w
  <2> QED
    BY <2>2, <2>4, <2>5, SumAdd
<1> QED
  BY <1>1, <1>2

(* of the tempo,                                                           *)
LEMMA TempoBytesAre ==
    ASSUME NEW t \in Tempos \cup {None}
    PROVE  TempoBytes(t) \in Nat
<1>1. SizeOf["candidate"] \in Nat
  BY SizesAre DEF Structures
<1> QED
  BY <1>1, ProductIs DEF TempoBytes, Tempos

(* of the local grid,                                                      *)
LEMMA LocalBytesAre ==
    ASSUME NEW g
    PROVE  LocalBytes(g) \in Nat
<1>1. SizeOf["range"] \in Nat /\ SizeOf["segment"] \in Nat
  BY SizesAre DEF Structures
<1> QED
  BY <1>1 DEF LocalBytes

(* and of the global grid.                                                 *)
LEMMA GlobalBytesAre ==
    ASSUME NEW g \in GlobalGrids \cup {None}
    PROVE  GlobalBytes(g) \in Nat
<1>1. SizeOf["range"] \in Nat /\ SizeOf["segment"] \in Nat /\ SizeOf["s6"] \in Nat /\ SizeOf["beat"] \in Nat
  BY SizesAre DEF Structures
<1>2. CASE g = None
  BY <1>2 DEF GlobalBytes
<1>3. CASE g # None
  <2>1. g.beats \in Nat /\ Len(g.segments) \in Nat
    BY <1>3 DEF GlobalGrids
  <2> DEFINE x == SizeOf["segment"] * Len(g.segments)
             y == SizeOf["beat"] * g.beats
  <2>2. x \in Nat /\ y \in Nat
    BY <1>1, <2>1, ProductIs
  <2>3. GlobalBytes(g) = SizeOf["s6"] + SizeOf["range"] + x + y
    BY <1>3 DEF GlobalBytes
  <2> HIDE DEF x, y
  <2> QED
    BY <1>1, <2>2, <2>3
<1> QED
  BY <1>2, <1>3

(* The bytes of a result are those of its parts.                           *)
LEMMA AllocationIs ==
    ASSUME NEW r \in PublishedResults
    PROVE  /\ AllocationBytes(r) =
                SizeOf["result"] + SpanBytes(r.spans) + TileBytes(r.tiles)
                + ItemBytes(r.metadata) + TempoBytes(r.tempo) + LocalBytes(r.local)
                + GlobalBytes(r.global)
           /\ SizeOf["result"] \in Nat /\ SpanBytes(r.spans) \in Nat
           /\ TileBytes(r.tiles) \in Nat /\ ItemBytes(r.metadata) \in Nat
           /\ TempoBytes(r.tempo) \in Nat /\ LocalBytes(r.local) \in Nat
           /\ GlobalBytes(r.global) \in Nat
<1>1. /\ r.spans \in Seq(SpanParts) /\ r.tiles \in Seq(TileParts)
      /\ r.metadata \in Texts \cup {None} /\ r.tempo \in Tempos \cup {None}
      /\ r.global \in GlobalGrids \cup {None}
  BY DEF PublishedResults, SpanParts, TileParts
<1>2. /\ SizeOf["result"] \in Nat /\ SizeOf["span"] \in Nat /\ SizeOf["tile"] \in Nat
      /\ SizeOf["column"] \in Nat
  BY SizesAre DEF Structures
<1>3. /\ SpanBytes(r.spans) \in Nat /\ TileBytes(r.tiles) \in Nat
      /\ ItemBytes(r.metadata) \in Nat /\ TempoBytes(r.tempo) \in Nat
      /\ LocalBytes(r.local) \in Nat /\ GlobalBytes(r.global) \in Nat
  BY <1>1, SpanBytesAre, TileBytesAre, ItemBytesAre, TempoBytesAre, LocalBytesAre,
     GlobalBytesAre
<1>4. /\ Len(r.spans) \in Nat /\ Len(DataOf(r.spans)) \in Nat
      /\ Len(r.tiles) \in Nat /\ Len(DataOf(r.tiles)) \in Nat
  BY <1>1, SpanBytesAre, TileBytesAre
<1>5. r # None
  BY NoneIsOther
<1> DEFINE a == SizeOf["result"]
           b == SizeOf["span"] * Len(r.spans)
           c == SizeOf["column"] * Len(DataOf(r.spans))
           d == SizeOf["column"] * Len(DataOf(r.tiles))
           e == SizeOf["tile"] * Len(r.tiles)
           f == ItemBytes(r.metadata)
           g == TempoBytes(r.tempo)
           h == LocalBytes(r.local)
           k == GlobalBytes(r.global)
<1>6. /\ a \in Nat /\ b \in Nat /\ c \in Nat /\ d \in Nat /\ e \in Nat /\ f \in Nat
      /\ g \in Nat /\ h \in Nat /\ k \in Nat
  BY <1>2, <1>3, <1>4, ProductIs
<1>7. SizeOf["column"] * (Len(DataOf(r.spans)) + Len(DataOf(r.tiles))) = c + d
  BY <1>2, <1>4, ProductIs
<1>8. AllocationBytes(r) = a + b + SizeOf["column"] * (Len(DataOf(r.spans)) + Len(DataOf(r.tiles)))
                           + e + f + g + h + k
  BY <1>5, Zenon DEF AllocationBytes, ItemBytes, TempoBytes, LocalBytes, GlobalBytes
<1>9. SpanBytes(r.spans) = b + c /\ TileBytes(r.tiles) = e + d
  BY DEF SpanBytes, TileBytes
<1> HIDE DEF a, b, c, d, e, f, g, h, k
<1>10. AllocationBytes(r) = a + b + (c + d) + e + f + g + h + k
  BY <1>7, <1>8
<1>11. AllocationBytes(r) = a + (b + c) + (e + d) + f + g + h + k
  BY <1>6, <1>10, SumsAre
<1>12. AllocationBytes(r) = a + SpanBytes(r.spans) + TileBytes(r.tiles) + f + g + h + k
  BY <1>9, <1>11
<1> QED
  BY <1>2, <1>3, <1>12 DEF a, f, g, h, k

(* They are a natural number.                                              *)
LEMMA AllocationType ==
    ASSUME NEW r \in PublishedResults
    PROVE  AllocationBytes(r) \in Nat
BY AllocationIs

-----------------------------------------------------------------------------
(* The bytes held and the result they are held for.                        *)

(* Blocks and features of the layers from this one on.                     *)
Spare(layer) ==
    (IF layer \in {"harden", "detail"} THEN {"tiles", "detail_columns"} ELSE {})
    \cup (IF layer \in {"harden", "detail", "metadata"} THEN {"metadata"} ELSE {})
    \cup (IF layer \in {"harden", "detail", "metadata", "tempo"} THEN {"candidates"} ELSE {})
    \cup (IF layer \in {"harden", "detail", "metadata", "tempo", "local"}
          THEN {"coverage", "segments"} ELSE {})
    \cup (IF layer \notin {"revision", "ended"}
          THEN {"s6", "s6_coverage", "s6_segments", "s6_beats"} ELSE {})

Unread(got, layer) ==
    /\ layer \in {"harden", "detail"} => got.tiles = <<>>
    /\ layer \in {"harden", "detail", "metadata"} => got.metadata = None
    /\ layer \in {"harden", "detail", "metadata", "tempo"} => got.tempo = None
    /\ layer \in {"harden", "detail", "metadata", "tempo", "local"} => got.local = None
    /\ layer \notin {"revision", "ended"} => got.global = None
    /\ layer = "revision" => got.global # None /\ Sections(file, "REVN") # {}

Carried(got, blocks, layer) ==
    /\ got \in PublishedResults /\ Unread(got, layer)
    /\ AreBlocks(blocks) /\ \A b \in blocks : b.name \notin Spare(layer)
    /\ BytesOf(blocks) = AllocationBytes(got) /\ AllocationBytes(got) <= limit

Reading == parse.layer \notin {"idle", "wovr"} /\ parse.status = "ok"

Kept ==
    /\ limit \in Nat
    /\ parse.layer # "ended" => parse.status = "ok"
    /\ ~Reading => parse.got = None
    /\ parse.layer = "wovr" => file # None
    /\ Reading => /\ file # None /\ ContainerStatus(file) = "ok"
                  /\ Carried(parse.got, held, parse.layer)

(* What a layer may attach.                                                *)
Attachable(additional, blocks, got, next) ==
    /\ got \in PublishedResults /\ Unread(got, next)
    /\ AreBlocks(blocks) /\ held \cap blocks = {}
    /\ \A b \in held \cup blocks : b.name \notin Spare(next)
    /\ additional \in Nat /\ BytesOf(blocks) <= additional
    /\ AllocationBytes(got) = AllocationBytes(parse.got) + BytesOf(blocks)

(* A layer that fails keeps nothing.                                       *)
LEMMA FailKeeps ==
    ASSUME Kept, NEW status, status # "ok", NEW S, Fail(status, S)
    PROVE  Kept'
BY DEF Kept, Fail, CallerFrame, Reading

(* While a file is read the blocks held are those of the result so far,    *)
(* and within the limit.                                                   *)
LEMMA HeldAre ==
    ASSUME Kept, Holding
    PROVE  /\ AreBlocks(held) /\ BytesOf(held) = AllocationBytes(parse.got)
           /\ BytesOf(held) \in Nat /\ AllocationBytes(parse.got) <= limit
<1>1. CASE Reading
  BY <1>1, BytesType DEF Kept, Carried
<1>2. CASE ~Reading
  <2>1. held = {} /\ parse.got = None /\ limit \in Nat
    BY <1>2 DEF Kept, Holding, Reading
  <2>2. AllocationBytes(None) = 0
    BY DEF AllocationBytes
  <2> QED
    BY <2>1, <2>2, NoBytes
<1> QED
  BY <1>1, <1>2

(* A layer that allocates nothing keeps the account.                       *)
LEMMA PassKeeps ==
    ASSUME Kept, Reading, NEW next, NEW got, Pass(next, got), next \notin {"idle", "wovr"},
           got \in PublishedResults, Unread(got, next),
           AllocationBytes(got) = AllocationBytes(parse.got), Spare(next) \subseteq Spare(parse.layer)
    PROVE  Kept'
<1>1. /\ parse'.layer = next /\ parse'.got = got /\ parse'.status = "ok"
      /\ held' = held /\ limit' = limit /\ file' = file
  BY DEF Pass, CallerFrame
<1>2. Carried(parse.got, held, parse.layer)
  BY DEF Kept
<1>3. Carried(got, held, next)
  BY <1>2 DEF Carried
<1>4. Carried(parse.got, held, parse.layer)'
  BY <1>1, <1>3 DEF Carried, Unread, AreBlocks
<1>5. ContainerStatus(file') = ContainerStatus(file)
  BY <1>1
<1> QED
  BY <1>1, <1>4, <1>5 DEF Kept, Reading

(* A layer that adds its blocks within what the limit leaves keeps it.     *)
LEMMA AttachKeeps ==
    ASSUME Kept, Holding, NEW additional, NEW blocks, NEW provided, NEW sound, NEW got, NEW next,
           Attach(additional, blocks, provided, sound, got, next),
           next \notin {"idle", "wovr"}, file # None, ContainerStatus(file) = "ok",
           sound => Attachable(additional, blocks, got, next)
    PROVE  Kept'
<1>1. CASE ~Fits(additional)
  BY <1>1, FailKeeps DEF Attach
<1>2. CASE Fits(additional)
  <2>1. PICK have \in provided :
            IF have # blocks \/ ~sound
            THEN Fail(IF have # blocks THEN "out_of_memory" ELSE "corrupt", held \cup have)
            ELSE /\ parse' = [layer |-> next, got |-> got, status |-> "ok"]
                 /\ held' = held \cup blocks /\ CallerFrame
    BY <1>2 DEF Attach
  <2>2. CASE have # blocks \/ ~sound
    BY <2>1, <2>2, FailKeeps
  <2>3. CASE ~(have # blocks \/ ~sound)
    <3>1. /\ parse'.layer = next /\ parse'.got = got /\ parse'.status = "ok"
          /\ held' = held \cup blocks /\ limit' = limit /\ file' = file
      BY <2>1, <2>3 DEF CallerFrame
    <3>2. Attachable(additional, blocks, got, next)
      BY <2>3
    <3>3. /\ AreBlocks(held) /\ BytesOf(held) = AllocationBytes(parse.got)
          /\ BytesOf(held) \in Nat
      BY HeldAre
    <3>4. AreBlocks(held \cup blocks) /\ BytesOf(held \cup blocks) = BytesOf(held) + BytesOf(blocks)
      BY <3>2, <3>3, BytesJoin DEF Attachable
    <3>5. BytesOf(held \cup blocks) = AllocationBytes(got)
      BY <3>2, <3>3, <3>4 DEF Attachable
    <3>6. AllocationBytes(got) <= limit
      <4> DEFINE x == AllocationBytes(parse.got)
                 y == BytesOf(blocks)
      <4>1. /\ AllocationBytes(got) = x + y /\ x \in Nat /\ y \in Nat /\ additional \in Nat
            /\ y <= additional /\ x + additional <= limit /\ limit \in Nat
        BY <1>2, <3>2, <3>3, BytesType DEF Attachable, Fits, Kept
      <4> HIDE DEF x, y
      <4> QED
        BY <4>1
    <3>7. Carried(got, held \cup blocks, next)
      BY <3>2, <3>4, <3>5, <3>6 DEF Carried, Attachable
    <3>8. Carried(parse.got, held, parse.layer)'
      BY <3>1, <3>7 DEF Carried, Unread, AreBlocks
    <3>9. ContainerStatus(file') = ContainerStatus(file)
      BY <3>1
    <3> QED
      BY <3>1, <3>8, <3>9 DEF Kept, Reading
  <2> QED
    BY <2>2, <2>3
<1> QED
  BY <1>1, <1>2

(* The steps of the caller and the edits keep it.                          *)
LEMMA CallerKeeps ==
    ASSUME Kept, Holding,
           \/ \E r \in Results : Save(r)
           \/ Edit
           \/ \E bytes \in Limits : Begin(bytes)
           \/ Close
    PROVE  Kept'
<1>1. CASE \E r \in Results : Save(r)
  BY <1>1 DEF Save, Kept, Reading
<1>2. CASE Edit
  <2>1. parse.layer = "idle" /\ UNCHANGED <<parse, held, limit>>
    BY <1>2 DEF Edit, Reorder, AddVendorSection, Regroup, RewriteMetadata, DropSection,
       RepeatSection, ClearPartial, Truncate, Damage, Forge, ChangeForm, ChangeContent
  <2> QED
    BY <2>1 DEF Kept, Reading
<1>3. CASE \E bytes \in Limits : Begin(bytes)
  BY <1>3, ContainerAssumption DEF Begin, Kept, Reading, Idle
<1>4. CASE Close
  BY <1>4 DEF Close, Kept, Reading, Idle
<1> QED
  BY <1>1, <1>2, <1>3, <1>4

-----------------------------------------------------------------------------
(* The layers above the overview.                                          *)

Gains(q, r, a, b, c, d, e) ==
    /\ q.spans = r.spans
    /\ TileBytes(q.tiles) = TileBytes(r.tiles) + a
    /\ ItemBytes(q.metadata) = ItemBytes(r.metadata) + b
    /\ TempoBytes(q.tempo) = TempoBytes(r.tempo) + c
    /\ LocalBytes(q.local) = LocalBytes(r.local) + d
    /\ GlobalBytes(q.global) = GlobalBytes(r.global) + e

(* The bytes of a result grow by those of the parts that it gains.         *)
LEMMA AllocationGrows ==
    ASSUME NEW r \in PublishedResults, NEW q \in PublishedResults,
           NEW a \in Nat, NEW b \in Nat, NEW c \in Nat, NEW d \in Nat, NEW e \in Nat,
           Gains(q, r, a, b, c, d, e)
    PROVE  AllocationBytes(q) = AllocationBytes(r) + (a + b + c + d + e)
<1> DEFINE s == SizeOf["result"]
           t == SpanBytes(r.spans)
           u == TileBytes(r.tiles)
           v == ItemBytes(r.metadata)
           w == TempoBytes(r.tempo)
           x == LocalBytes(r.local)
           y == GlobalBytes(r.global)
<1>1. /\ AllocationBytes(r) = s + t + u + v + w + x + y
      /\ s \in Nat /\ t \in Nat /\ u \in Nat /\ v \in Nat /\ w \in Nat /\ x \in Nat /\ y \in Nat
  BY AllocationIs
<1>2. AllocationBytes(q) = s + t + (u + a) + (v + b) + (w + c) + (x + d) + (y + e)
  <2>1. AllocationBytes(q) = s + SpanBytes(q.spans) + TileBytes(q.tiles)
                + ItemBytes(q.metadata) + TempoBytes(q.tempo) + LocalBytes(q.local)
                + GlobalBytes(q.global)
    BY AllocationIs
  <2> QED
    BY <2>1 DEF Gains
<1> HIDE DEF s, t, u, v, w, x, y
<1>3. s + t + (u + a) + (v + b) + (w + c) + (x + d) + (y + e)
        = (s + t + u + v + w + x + y) + (a + b + c + d + e)
  BY <1>1
<1> QED
  BY <1>1, <1>2, <1>3

(* A part that stays gains nothing.                                        *)
LEMMA SameAllocation ==
    ASSUME NEW r \in PublishedResults
    PROVE  /\ TileBytes(r.tiles) = TileBytes(r.tiles) + 0
           /\ ItemBytes(r.metadata) = ItemBytes(r.metadata) + 0
           /\ TempoBytes(r.tempo) = TempoBytes(r.tempo) + 0
           /\ LocalBytes(r.local) = LocalBytes(r.local) + 0
           /\ GlobalBytes(r.global) = GlobalBytes(r.global) + 0
BY AllocationIs

(* The result that a layer hands on is a published one with the bytes of   *)
(* one more part: of its tiles,                                            *)
LEMMA WithTilesIs ==
    ASSUME NEW r \in PublishedResults, r.tiles = <<>>, NEW tiles \in Seq(TileParts)
    PROVE  /\ [r EXCEPT !.tiles = tiles] \in PublishedResults
           /\ AllocationBytes([r EXCEPT !.tiles = tiles]) = AllocationBytes(r) + TileBytes(tiles)
<1> DEFINE q == [r EXCEPT !.tiles = tiles]
           a == TileBytes(tiles)
<1>1. q \in PublishedResults
  BY DEF PublishedResults, TileParts
<1>2. /\ q.spans = r.spans /\ q.tiles = tiles /\ q.metadata = r.metadata /\ q.tempo = r.tempo
      /\ q.local = r.local /\ q.global = r.global
  BY DEF PublishedResults
<1> HIDE DEF q
<1>3. a \in Nat
  BY TileBytesAre
<1>4. TileBytes(q.tiles) = TileBytes(r.tiles) + a
  BY <1>2, <1>3, NoTileBytes
<1>5. Gains(q, r, a, 0, 0, 0, 0)
  BY <1>2, <1>4, SameAllocation DEF Gains
<1>6. AllocationBytes(q) = AllocationBytes(r) + (a + 0 + 0 + 0 + 0)
  BY <1>1, <1>3, <1>5, AllocationGrows
<1> HIDE DEF a
<1>7. a + 0 + 0 + 0 + 0 = a
  BY <1>3
<1> QED
  BY <1>1, <1>6, <1>7 DEF q, a

(* of its metadata,                                                        *)
LEMMA WithItemsIs ==
    ASSUME NEW r \in PublishedResults, r.metadata = None, NEW items \in Texts
    PROVE  /\ [r EXCEPT !.metadata = items] \in PublishedResults
           /\ AllocationBytes([r EXCEPT !.metadata = items])
                = AllocationBytes(r) + ItemBytes(items)
<1> DEFINE q == [r EXCEPT !.metadata = items]
           a == ItemBytes(items)
<1>1. q \in PublishedResults
  BY DEF PublishedResults
<1>2. /\ q.spans = r.spans /\ q.tiles = r.tiles /\ q.metadata = items /\ q.tempo = r.tempo
      /\ q.local = r.local /\ q.global = r.global
  BY DEF PublishedResults
<1> HIDE DEF q
<1>3. a \in Nat
  BY ItemBytesAre
<1>4. ItemBytes(q.metadata) = ItemBytes(r.metadata) + a
  <2>1. ItemBytes(None) = 0
    BY DEF ItemBytes
  <2> QED
    BY <1>2, <1>3, <2>1
<1>5. Gains(q, r, 0, a, 0, 0, 0)
  BY <1>2, <1>4, SameAllocation DEF Gains
<1>6. AllocationBytes(q) = AllocationBytes(r) + (0 + a + 0 + 0 + 0)
  BY <1>1, <1>3, <1>5, AllocationGrows
<1> HIDE DEF a
<1>7. 0 + a + 0 + 0 + 0 = a
  BY <1>3
<1> QED
  BY <1>1, <1>6, <1>7 DEF q, a

(* of its tempo,                                                           *)
LEMMA WithTempoBytes ==
    ASSUME NEW r \in PublishedResults, r.tempo = None, NEW t \in Tempos
    PROVE  /\ [r EXCEPT !.tempo = t] \in PublishedResults
           /\ AllocationBytes([r EXCEPT !.tempo = t]) = AllocationBytes(r) + TempoBytes(t)
<1> DEFINE q == [r EXCEPT !.tempo = t]
           a == TempoBytes(t)
<1>1. q \in PublishedResults
  BY DEF PublishedResults
<1>2. /\ q.spans = r.spans /\ q.tiles = r.tiles /\ q.metadata = r.metadata /\ q.tempo = t
      /\ q.local = r.local /\ q.global = r.global
  BY DEF PublishedResults
<1> HIDE DEF q
<1>3. a \in Nat
  BY TempoBytesAre
<1>4. TempoBytes(q.tempo) = TempoBytes(r.tempo) + a
  <2>1. TempoBytes(None) = 0
    BY DEF TempoBytes
  <2> QED
    BY <1>2, <1>3, <2>1
<1>5. Gains(q, r, 0, 0, a, 0, 0)
  BY <1>2, <1>4, SameAllocation DEF Gains
<1>6. AllocationBytes(q) = AllocationBytes(r) + (0 + 0 + a + 0 + 0)
  BY <1>1, <1>3, <1>5, AllocationGrows
<1> HIDE DEF a
<1>7. 0 + 0 + a + 0 + 0 = a
  BY <1>3
<1> QED
  BY <1>1, <1>6, <1>7 DEF q, a

(* of its local grid,                                                      *)
LEMMA WithLocalBytes ==
    ASSUME NEW r \in PublishedResults, r.local = None, NEW g \in LocalGrids
    PROVE  /\ [r EXCEPT !.local = g] \in PublishedResults
           /\ AllocationBytes([r EXCEPT !.local = g]) = AllocationBytes(r) + LocalBytes(g)
<1> DEFINE q == [r EXCEPT !.local = g]
           a == LocalBytes(g)
<1>1. q \in PublishedResults
  BY DEF PublishedResults
<1>2. /\ q.spans = r.spans /\ q.tiles = r.tiles /\ q.metadata = r.metadata
      /\ q.tempo = r.tempo /\ q.local = g /\ q.global = r.global
  BY DEF PublishedResults
<1> HIDE DEF q
<1>3. a \in Nat
  BY LocalBytesAre
<1>4. LocalBytes(q.local) = LocalBytes(r.local) + a
  <2>1. LocalBytes(None) = 0
    BY DEF LocalBytes
  <2> QED
    BY <1>2, <1>3, <2>1
<1>5. Gains(q, r, 0, 0, 0, a, 0)
  BY <1>2, <1>4, SameAllocation DEF Gains
<1>6. AllocationBytes(q) = AllocationBytes(r) + (0 + 0 + 0 + a + 0)
  BY <1>1, <1>3, <1>5, AllocationGrows
<1> HIDE DEF a
<1>7. 0 + 0 + 0 + a + 0 = a
  BY <1>3
<1> QED
  BY <1>1, <1>6, <1>7 DEF q, a

(* and of its global grid.                                                 *)
LEMMA WithGlobalBytes ==
    ASSUME NEW r \in PublishedResults, r.global = None, NEW g \in GlobalGrids
    PROVE  /\ [r EXCEPT !.global = g] \in PublishedResults
           /\ AllocationBytes([r EXCEPT !.global = g]) = AllocationBytes(r) + GlobalBytes(g)
<1> DEFINE q == [r EXCEPT !.global = g]
           a == GlobalBytes(g)
<1>1. q \in PublishedResults
  BY DEF PublishedResults
<1>2. /\ q.spans = r.spans /\ q.tiles = r.tiles /\ q.metadata = r.metadata
      /\ q.tempo = r.tempo /\ q.local = r.local /\ q.global = g
  BY DEF PublishedResults
<1> HIDE DEF q
<1>3. a \in Nat
  BY GlobalBytesAre
<1>4. GlobalBytes(q.global) = GlobalBytes(r.global) + a
  <2>1. GlobalBytes(None) = 0
    BY DEF GlobalBytes
  <2> QED
    BY <1>2, <1>3, <2>1
<1>5. Gains(q, r, 0, 0, 0, 0, a)
  BY <1>2, <1>4, SameAllocation DEF Gains
<1>6. AllocationBytes(q) = AllocationBytes(r) + (0 + 0 + 0 + 0 + a)
  BY <1>1, <1>3, <1>5, AllocationGrows
<1> HIDE DEF a
<1>7. 0 + 0 + 0 + 0 + a = a
  BY <1>3
<1> QED
  BY <1>1, <1>6, <1>7 DEF q, a

Layers == {"harden", "detail", "metadata", "tempo", "local", "global", "revision"}

(* What the invariants say of a layer that is about to run.                *)
LEMMA LayerIs ==
    ASSUME Kept, Filed, parse.layer \in Layers
    PROVE  /\ Reading /\ file # None /\ IsFile(file) /\ ContainerStatus(file) = "ok"
           /\ parse.got \in PublishedResults /\ Unread(parse.got, parse.layer)
           /\ \A b \in held : b.name \notin Spare(parse.layer)
BY DEF Kept, Filed, Layers, Reading, Carried

(* What a layer has to show before its blocks join the others.             *)
LEMMA AttachableIs ==
    ASSUME NEW additional \in Nat, NEW blocks, AreBlocks(blocks), NEW got \in PublishedResults,
           NEW next, Unread(got, next), BytesOf(blocks) <= additional,
           AllocationBytes(got) = AllocationBytes(parse.got) + BytesOf(blocks),
           \A b \in held : b.name \notin Spare(parse.layer),
           \A b \in blocks : b.name \in Spare(parse.layer) /\ b.name \notin Spare(next),
           Spare(next) \subseteq Spare(parse.layer)
    PROVE  Attachable(additional, blocks, got, next)
<1>1. held \cap blocks = {}
  OBVIOUS
<1>2. \A b \in held \cup blocks : b.name \notin Spare(next)
  OBVIOUS
<1> QED
  BY <1>1, <1>2 DEF Attachable

(* Each layer keeps the account: the second look at the overview,          *)
LEMMA HardenKeeps ==
    ASSUME Kept, Filed, HardenWovr
    PROVE  Kept'
<1>1. \/ Fail("out_of_memory", held) \/ Fail("corrupt", held) \/ Pass("detail", parse.got)
  BY DEF HardenWovr
<1>2. parse.layer = "harden"
  BY DEF HardenWovr
<1>3. /\ Reading /\ parse.got \in PublishedResults /\ Unread(parse.got, parse.layer)
  BY <1>2, LayerIs DEF Layers
<1>4. Unread(parse.got, "detail") /\ Spare("detail") \subseteq Spare(parse.layer)
  BY <1>2, <1>3 DEF Unread, Spare
<1> QED
  BY <1>1, <1>3, <1>4, FailKeeps, PassKeeps

(* the tempo layer,                                                        *)
LEMMA TempoKeeps ==
    ASSUME Kept, Filed, Holding, ParseTempo
    PROVE  Kept'
<1> DEFINE t == Section(file, "TEMP").feature
           x == Block("candidates", t.candidates, "candidate")
           got == [parse.got EXCEPT !.tempo = t]
<1>1. \/ Fail("corrupt", held)
      \/ Pass("global", parse.got)
      \/ /\ Sections(file, "TEMP") # {}
         /\ \E provided : Attach(BytesOf({x}), {x}, provided, TRUE, got, "local")
  BY DEF ParseTempo
<1>2. parse.layer = "tempo"
  BY DEF ParseTempo
<1>3. /\ Reading /\ file # None /\ IsFile(file) /\ ContainerStatus(file) = "ok"
      /\ parse.got \in PublishedResults /\ Unread(parse.got, parse.layer)
      /\ \A b \in held : b.name \notin Spare(parse.layer)
  BY <1>2, LayerIs DEF Layers
<1>4. Unread(parse.got, "global") /\ Spare("global") \subseteq Spare(parse.layer)
  BY <1>2, <1>3 DEF Unread, Spare
<1>5. CASE Fail("corrupt", held) \/ Pass("global", parse.got)
  BY <1>3, <1>4, <1>5, FailKeeps, PassKeeps
<1>6. CASE /\ Sections(file, "TEMP") # {}
           /\ \E provided : Attach(BytesOf({x}), {x}, provided, TRUE, got, "local")
  <2>1. t \in Tempos
    BY <1>3, <1>6, SectionIs, PayloadById DEF IsTemp
  <2>2. t.candidates \in Nat
    BY <2>1 DEF Tempos
  <2>3. x.name = "candidates" /\ x.bytes = t.candidates * SizeOf["candidate"] /\ x.bytes \in Nat
    BY <2>2, BlockIs DEF Structures
  <2>4. x.bytes = TempoBytes(t)
    <3>1. SizeOf["candidate"] \in Nat
      BY SizesAre DEF Structures
    <3> QED
      BY <2>1, <2>2, <2>3, <3>1, ProductIs, NoneIsOther DEF TempoBytes
  <2> HIDE DEF x, t
  <2>5. AreBlocks({x}) /\ BytesOf({x}) = x.bytes
    BY <2>3, OneBlock
  <2>6. parse.got.tempo = None
    BY <1>2, <1>3 DEF Unread
  <2>7. got \in PublishedResults /\ AllocationBytes(got) = AllocationBytes(parse.got) + BytesOf({x})
    BY <1>3, <2>1, <2>4, <2>5, <2>6, WithTempoBytes
  <2>8. Unread(got, "local")
    BY <1>2, <1>3 DEF Unread, PublishedResults
  <2> HIDE DEF got
  <2>9. /\ \A b \in {x} : b.name \in Spare(parse.layer) /\ b.name \notin Spare("local")
        /\ Spare("local") \subseteq Spare(parse.layer)
    BY <1>2, <2>3 DEF Spare
  <2>10. BytesOf({x}) \in Nat /\ BytesOf({x}) <= BytesOf({x})
    BY <2>3, <2>5
  <2>11. Attachable(BytesOf({x}), {x}, got, "local")
    BY <1>3, <2>5, <2>7, <2>8, <2>9, <2>10, AttachableIs
  <2> QED
    BY <1>3, <1>6, <2>11, AttachKeeps
<1> QED
  BY <1>1, <1>5, <1>6

(* the local grid,                                                         *)
LEMMA LocalKeeps ==
    ASSUME Kept, Filed, Holding, ParseLocal
    PROVE  Kept'
<1> DEFINE g == Section(file, "LGRD").feature
           x == Block("coverage", 1, "range")
           y == Block("segments", 1, "segment")
           got == [parse.got EXCEPT !.local = g]
<1>1. \/ Fail("corrupt", held)
      \/ Pass("global", parse.got)
      \/ /\ Sections(file, "LGRD") # {}
         /\ \E provided : Attach(BytesOf({x, y}), {x, y}, provided, TRUE, got, "global")
  BY DEF ParseLocal
<1>2. parse.layer = "local"
  BY DEF ParseLocal
<1>3. /\ Reading /\ file # None /\ IsFile(file) /\ ContainerStatus(file) = "ok"
      /\ parse.got \in PublishedResults /\ Unread(parse.got, parse.layer)
      /\ \A b \in held : b.name \notin Spare(parse.layer)
  BY <1>2, LayerIs DEF Layers
<1>4. Unread(parse.got, "global") /\ Spare("global") \subseteq Spare(parse.layer)
  BY <1>2, <1>3 DEF Unread, Spare
<1>5. CASE Fail("corrupt", held) \/ Pass("global", parse.got)
  BY <1>3, <1>4, <1>5, FailKeeps, PassKeeps
<1>6. CASE /\ Sections(file, "LGRD") # {}
           /\ \E provided : Attach(BytesOf({x, y}), {x, y}, provided, TRUE, got, "global")
  <2>1. g \in LocalGrids
    BY <1>3, <1>6, SectionIs, PayloadById DEF IsLgrd
  <2>2. SizeOf["range"] \in Nat /\ SizeOf["segment"] \in Nat
    BY SizesAre DEF Structures
  <2>3. /\ x.name = "coverage" /\ x.bytes = SizeOf["range"] /\ x.bytes \in Nat
        /\ y.name = "segments" /\ y.bytes = SizeOf["segment"] /\ y.bytes \in Nat
    BY <2>2, BlockIs DEF Structures
  <2>4. x.bytes + y.bytes = LocalBytes(g)
    BY <2>1, <2>2, <2>3, NoneIsOther DEF LocalBytes
  <2> HIDE DEF x, y, g
  <2>5. x # y
    BY <2>3
  <2>6. AreBlocks({x, y}) /\ BytesOf({x, y}) = x.bytes + y.bytes
    BY <2>3, <2>5, TwoBlocks
  <2>7. parse.got.local = None
    BY <1>2, <1>3 DEF Unread
  <2>8. got \in PublishedResults /\ AllocationBytes(got) = AllocationBytes(parse.got) + BytesOf({x, y})
    BY <1>3, <2>1, <2>4, <2>6, <2>7, WithLocalBytes
  <2>9. Unread(got, "global")
    BY <1>2, <1>3 DEF Unread, PublishedResults
  <2> HIDE DEF got
  <2>10. /\ \A b \in {x, y} : b.name \in Spare(parse.layer) /\ b.name \notin Spare("global")
         /\ Spare("global") \subseteq Spare(parse.layer)
    BY <1>2, <2>3 DEF Spare
  <2>11. BytesOf({x, y}) \in Nat /\ BytesOf({x, y}) <= BytesOf({x, y})
    BY <2>3, <2>6
  <2>12. Attachable(BytesOf({x, y}), {x, y}, got, "global")
    BY <1>3, <2>6, <2>8, <2>9, <2>10, <2>11, AttachableIs
  <2> QED
    BY <1>3, <1>6, <2>12, AttachKeeps
<1> QED
  BY <1>1, <1>5, <1>6

(* the revision of the global grid,                                        *)
LEMMA RevisionKeeps ==
    ASSUME Kept, Filed, ParseRevision
    PROVE  Kept'
<1> DEFINE p == Section(file, "REVN")
           old == parse.got
           got == [parse.got EXCEPT !.global.revision.state = p.state]
           grid == [state |-> old.global.state, segments |-> old.global.segments,
                    beats |-> old.global.beats,
                    revision |-> [state |-> p.state, id |-> old.global.revision.id]]
<1>1. Fail("corrupt", held) \/ Pass("ended", got)
  BY DEF ParseRevision
<1>2. parse.layer = "revision"
  BY DEF ParseRevision
<1>3. /\ Reading /\ file # None /\ IsFile(file) /\ ContainerStatus(file) = "ok"
      /\ parse.got \in PublishedResults /\ Unread(parse.got, parse.layer)
  BY <1>2, LayerIs DEF Layers
<1>4. Sections(file, "REVN") # {} /\ old.global # None
  BY <1>2, <1>3 DEF Unread
<1>5. p.state \in {"applied", "pending"}
  BY <1>3, <1>4, SectionIs, PayloadById DEF IsRevn
<1> HIDE DEF p
<1>6. old.global \in GlobalGrids
  BY <1>3, <1>4 DEF PublishedResults
<1>7. grid \in GlobalGrids
  BY <1>5, <1>6 DEF GlobalGrids
<1>8. got = [old EXCEPT !.global = grid]
  <2>1. got = [old EXCEPT !.global = [old.global EXCEPT !.revision.state = p.state]]
    BY Zenon
  <2>2. IsGlobal(old.global)
    BY <1>6 DEF GlobalGrids, IsGlobal
  <2>3. [old.global EXCEPT !.revision.state = p.state] = grid
    BY <2>2 DEF IsGlobal
  <2> QED
    BY <2>1, <2>3
<1>9. GlobalBytes(grid) = GlobalBytes(old.global)
  BY <1>4, <1>7, NoneIsOther DEF GlobalBytes
<1> HIDE DEF grid
<1>10. /\ got \in PublishedResults
       /\ got.spans = old.spans /\ got.tiles = old.tiles /\ got.metadata = old.metadata
       /\ got.tempo = old.tempo /\ got.local = old.local /\ got.global = grid
  BY <1>3, <1>7, <1>8 DEF PublishedResults
<1> HIDE DEF got, old
<1>11. AllocationBytes(got) = AllocationBytes(old)
  BY <1>3, <1>9, <1>10, AllocationIs DEF old
<1>12. Unread(got, "ended") /\ Spare("ended") \subseteq Spare(parse.layer)
  BY DEF Unread, Spare
<1> QED
  BY <1>1, <1>3, <1>10, <1>11, <1>12, FailKeeps, PassKeeps DEF old

(* and the global grid itself.                                             *)
LEMMA GlobalKeeps ==
    ASSUME Kept, Filed, Holding, ParseGlobal
    PROVE  Kept'
<1> DEFINE p == Section(file, "GGRD")
           s6 == Block("s6", 1, "s6")
           c == Block("s6_coverage", 1, "range")
           s == Block("s6_segments", Len(p.segments), "segment")
           b == Block("s6_beats", p.beats, "beat")
           parts == {c, s} \cup (IF p.beats = 0 THEN {} ELSE {b})
           blocks == parts \cup {s6}
           grid == [state |-> p.state, segments |-> p.segments, beats |-> p.beats,
                    revision |-> [state |-> None, id |-> p.revision]]
           got == [parse.got EXCEPT !.global = grid]
<1>1. \/ Fail("corrupt", held)
      \/ Pass("ended", parse.got)
      \/ /\ Sections(file, "GGRD") # {} /\ Sections(file, "REVN") # {}
         /\ \E provided, sound : Attach(BytesOf(blocks), blocks, provided, sound, got, "revision")
  BY DEF ParseGlobal
<1>2. parse.layer = "global"
  BY DEF ParseGlobal
<1>3. /\ Reading /\ file # None /\ IsFile(file) /\ ContainerStatus(file) = "ok"
      /\ parse.got \in PublishedResults /\ Unread(parse.got, parse.layer)
      /\ \A x \in held : x.name \notin Spare(parse.layer)
  BY <1>2, LayerIs DEF Layers
<1>4. Unread(parse.got, "ended") /\ Spare("ended") \subseteq Spare(parse.layer)
  BY <1>2, <1>3 DEF Unread, Spare
<1>5. CASE Fail("corrupt", held) \/ Pass("ended", parse.got)
  BY <1>3, <1>4, <1>5, FailKeeps, PassKeeps
<1>6. CASE /\ Sections(file, "GGRD") # {} /\ Sections(file, "REVN") # {}
           /\ \E provided, sound :
                 Attach(BytesOf(blocks), blocks, provided, sound, got, "revision")
  <2>0. IsGgrd(p)
    BY <1>3, <1>6, SectionIs, PayloadById
  <2> HIDE DEF p
  <2>1. /\ p.state \in States /\ p.segments \in Seq(States) /\ p.beats \in Nat
        /\ p.revision \in Nat /\ Len(p.segments) \in Nat
    BY <2>0 DEF IsGgrd
  <2>2. grid \in GlobalGrids
    BY <2>1 DEF GlobalGrids
  <2>3. /\ SizeOf["range"] \in Nat /\ SizeOf["segment"] \in Nat /\ SizeOf["s6"] \in Nat
        /\ SizeOf["beat"] \in Nat
    BY SizesAre DEF Structures
  <2>4. /\ s6.name = "s6" /\ s6.bytes = SizeOf["s6"] /\ s6.bytes \in Nat
        /\ c.name = "s6_coverage" /\ c.bytes = SizeOf["range"] /\ c.bytes \in Nat
    BY <2>3, BlockIs DEF Structures
  <2>5. /\ s.name = "s6_segments" /\ s.bytes = Len(p.segments) * SizeOf["segment"]
        /\ s.bytes \in Nat
    BY <2>1, BlockIs DEF Structures
  <2>6. b.name = "s6_beats" /\ b.bytes = p.beats * SizeOf["beat"] /\ b.bytes \in Nat
    BY <2>1, BlockIs DEF Structures
  <2>7. GlobalBytes(grid) = s6.bytes + c.bytes + s.bytes + b.bytes
    <3>1. /\ s.bytes = SizeOf["segment"] * Len(p.segments) /\ b.bytes = SizeOf["beat"] * p.beats
      BY <2>1, <2>3, <2>5, <2>6, ProductIs
    <3>2. grid # None
      BY <2>2, NoneIsOther
    <3> QED
      BY <2>4, <3>1, <3>2 DEF GlobalBytes
  <2> HIDE DEF s6, c, s, b
  <2>8. c # s /\ c # b /\ s # b /\ s6 \notin {c, s} /\ s6 \notin {c, s, b}
    BY <2>4, <2>5, <2>6
  <2>9. AreBlocks(blocks) /\ BytesOf(blocks) = GlobalBytes(grid)
    <3> DEFINE h == s6.bytes
               i == c.bytes
               j == s.bytes
               k == b.bytes
    <3>1. h \in Nat /\ i \in Nat /\ j \in Nat /\ k \in Nat /\ GlobalBytes(grid) = h + i + j + k
      BY <2>4, <2>5, <2>6, <2>7
    <3>2. CASE p.beats = 0
      <4>1. blocks = {c, s} \cup {s6}
        BY <3>2
      <4>2. AreBlocks({c, s}) /\ BytesOf({c, s}) = i + j
        BY <2>4, <2>5, <2>8, TwoBlocks
      <4>3. AreBlocks({c, s} \cup {s6}) /\ BytesOf({c, s} \cup {s6}) = h + (i + j)
        BY <2>4, <2>8, <4>2, BytesAdd
      <4>4. k = 0
        BY <2>3, <2>6, <3>2
      <4> HIDE DEF h, i, j, k
      <4>5. h + (i + j) = h + i + j + k
        BY <3>1, <4>4
      <4> QED
        BY <3>1, <4>1, <4>3, <4>5
    <3>3. CASE p.beats # 0
      <4>1. blocks = {c, s, b} \cup {s6}
        BY <3>3
      <4>2. AreBlocks({c, s, b}) /\ BytesOf({c, s, b}) = i + j + k
        BY <2>4, <2>5, <2>6, <2>8, ThreeBlocks
      <4>3. AreBlocks({c, s, b} \cup {s6}) /\ BytesOf({c, s, b} \cup {s6}) = h + (i + j + k)
        BY <2>4, <2>8, <4>2, BytesAdd
      <4> HIDE DEF h, i, j, k
      <4>5. h + (i + j + k) = h + i + j + k
        BY <3>1
      <4> QED
        BY <3>1, <4>1, <4>3, <4>5
    <3> QED
      BY <3>2, <3>3
  <2>10. parse.got.global = None
    BY <1>2, <1>3 DEF Unread
  <2>11. blocks \subseteq {c, s, b, s6}
    OBVIOUS
  <2> HIDE DEF blocks, grid
  <2>12. got \in PublishedResults /\ AllocationBytes(got) = AllocationBytes(parse.got) + BytesOf(blocks)
    BY <1>3, <2>2, <2>9, <2>10, WithGlobalBytes
  <2>13. got.global = grid /\ grid # None
    BY <1>3, <2>2, NoneIsOther DEF PublishedResults
  <2> HIDE DEF got
  <2>14. Unread(got, "revision")
    BY <1>6, <2>13 DEF Unread
  <2>15. /\ \A x \in blocks : x.name \in Spare(parse.layer) /\ x.name \notin Spare("revision")
         /\ Spare("revision") \subseteq Spare(parse.layer)
    BY <1>2, <2>4, <2>5, <2>6, <2>11 DEF Spare
  <2>16. BytesOf(blocks) \in Nat /\ BytesOf(blocks) <= BytesOf(blocks)
    BY <2>9, BytesType
  <2>17. Attachable(BytesOf(blocks), blocks, got, "revision")
    BY <1>3, <2>9, <2>12, <2>14, <2>15, <2>16, AttachableIs
  <2> QED
    BY <1>3, <1>6, <2>17, AttachKeeps
<1> QED
  BY <1>1, <1>5, <1>6

(* The metadata that is read is some of the texts a result may have.       *)
LEMMA ItemsAreRead ==
    ASSUME NEW p, IsMeta(p)
    PROVE  ReadItems(p) \in Texts
<1> DEFINE known == {i \in DOMAIN p.items : p.items[i].key \in 1 .. 7}
           R == {e \in known \X known : e[1] < e[2]}
           order == Arranged(known, R)
           T == [key : Nat, size : Nat]
<1>1. p.items \in Seq(ItemFields)
  BY DEF IsMeta
<1>2. DOMAIN p.items = 1 .. Len(p.items) /\ Len(p.items) \in Nat
  BY <1>1
<1>3. known \subseteq DOMAIN p.items /\ known \subseteq Nat /\ IsFiniteSet(known)
  <2>1. IsFiniteSet(DOMAIN p.items)
    BY <1>2, FS_Interval
  <2>2. known \subseteq DOMAIN p.items
    OBVIOUS
  <2> HIDE DEF known
  <2> QED
    BY <1>2, <2>1, <2>2, FS_Subset
<1>4. Orders(R, known)
  <2> HIDE DEF known
  <2>1. \A a, b \in known : <<a, b>> \in R <=> a < b
    OBVIOUS
  <2> HIDE DEF R
  <2> QED
    BY <1>3, <2>1 DEF Orders
<1>5. ReadItems(p) = [k \in DOMAIN order |-> [key |-> p.items[order[k]].key,
                                             size |-> p.items[order[k]].size]]
  BY DEF ReadItems
<1> DEFINE n == Cardinality(known)
<1>6. DOMAIN order = 1 .. n /\ n \in Nat /\ \A k \in 1 .. n : order[k] \in known
  BY <1>3, <1>4, ArrangedIs
<1> HIDE DEF order, known, n
<1>7. ASSUME NEW k \in 1 .. n
      PROVE  [key |-> p.items[order[k]].key, size |-> p.items[order[k]].size] \in T
  <2>1. p.items[order[k]] \in ItemFields
    BY <1>1, <1>3, <1>6
  <2> QED
    BY <2>1 DEF ItemFields
<1> HIDE DEF T
<1>8. ReadItems(p) \in [1 .. n -> T]
  BY <1>5, <1>6, <1>7
<1>9. ReadItems(p) \in Seq(T)
  BY <1>6, <1>8
<1> QED
  BY <1>9 DEF Texts, T

(* The metadata layer keeps the account.                                   *)
LEMMA MetadataKeeps ==
    ASSUME Kept, Filed, Holding, ParseMetadata
    PROVE  Kept'
<1> DEFINE items == ReadItems(Section(file, "META"))
           bytes == SumOver(DOMAIN items, LAMBDA i : TextBytes(items[i]))
           x == [name |-> "metadata", bytes |-> bytes]
           blocks == IF bytes = 0 THEN {} ELSE {x}
           got == [parse.got EXCEPT !.metadata = items]
<1>1. \/ Fail("corrupt", held)
      \/ Pass("tempo", parse.got)
      \/ /\ Sections(file, "META") # {}
         /\ \E provided : Attach(bytes, blocks, provided, TRUE, got, "tempo")
  BY Zenon DEF ParseMetadata
<1>2. parse.layer = "metadata"
  BY DEF ParseMetadata
<1>3. /\ Reading /\ file # None /\ IsFile(file) /\ ContainerStatus(file) = "ok"
      /\ parse.got \in PublishedResults /\ Unread(parse.got, parse.layer)
      /\ \A b \in held : b.name \notin Spare(parse.layer)
  BY <1>2, LayerIs DEF Layers
<1>4. Unread(parse.got, "tempo") /\ Spare("tempo") \subseteq Spare(parse.layer)
  BY <1>2, <1>3 DEF Unread, Spare
<1>5. CASE Fail("corrupt", held) \/ Pass("tempo", parse.got)
  BY <1>3, <1>4, <1>5, FailKeeps, PassKeeps
<1>6. CASE /\ Sections(file, "META") # {}
           /\ \E provided : Attach(bytes, blocks, provided, TRUE, got, "tempo")
  <2>1. items \in Texts
    BY <1>3, <1>6, SectionIs, PayloadById, ItemsAreRead
  <2> HIDE DEF items
  <2>2. items # None
    BY <2>1, NoneIsOther
  <2>3. bytes = ItemBytes(items)
    BY <2>2, Zenon DEF ItemBytes
  <2>4. bytes \in Nat
    BY <2>1, <2>3, ItemBytesAre
  <2> HIDE DEF bytes
  <2>5. AreBlocks(blocks) /\ BytesOf(blocks) = bytes
    <3>1. CASE bytes = 0
      BY <3>1, NoBytes
    <3>2. CASE bytes # 0
      <4>1. x.bytes = bytes
        OBVIOUS
      <4> HIDE DEF x
      <4> QED
        BY <2>4, <3>2, <4>1, OneBlock
    <3> QED
      BY <3>1, <3>2
  <2>6. \A b \in blocks : b.name = "metadata"
    OBVIOUS
  <2> HIDE DEF blocks
  <2>7. parse.got.metadata = None
    BY <1>2, <1>3 DEF Unread
  <2>8. got \in PublishedResults /\ AllocationBytes(got) = AllocationBytes(parse.got) + BytesOf(blocks)
    BY <1>3, <2>1, <2>3, <2>5, <2>7, WithItemsIs
  <2>9. Unread(got, "tempo")
    BY <1>2, <1>3 DEF Unread, PublishedResults
  <2> HIDE DEF got
  <2>10. /\ \A b \in blocks : b.name \in Spare(parse.layer) /\ b.name \notin Spare("tempo")
         /\ Spare("tempo") \subseteq Spare(parse.layer)
    BY <1>2, <2>6 DEF Spare
  <2>11. BytesOf(blocks) <= bytes
    BY <2>4, <2>5
  <2>12. Attachable(bytes, blocks, got, "tempo")
    BY <1>3, <2>4, <2>5, <2>8, <2>9, <2>10, <2>11, AttachableIs
  <2> QED
    BY <1>3, <1>6, <2>12, AttachKeeps
<1> QED
  BY <1>1, <1>5, <1>6

-----------------------------------------------------------------------------
(* The overview and the detail.                                            *)

(* The columns a descriptor points at, when they are within the section's. *)
LEMMA PackedPart ==
    ASSUME NEW p, p.data \in Seq(Nat), NEW part, part.packed \in Nat, part.count \in Nat,
           part.packed + part.count <= Len(p.data)
    PROVE  /\ Packed(p, part) \in Seq(Nat) /\ Len(Packed(p, part)) = part.count
           /\ \A k \in 1 .. part.count : Packed(p, part)[k] = p.data[part.packed + k]
<1> DEFINE d == p.data
           a == part.packed
           n == part.count
<1>1. d \in Seq(Nat) /\ a \in Nat /\ n \in Nat /\ a + n <= Len(d) /\ Len(d) \in Nat
  OBVIOUS
<1>2. Packed(p, part) = SubSeq(d, a + 1, a + n)
  BY DEF Packed
<1> HIDE DEF d, a, n
<1>3. /\ SubSeq(d, a + 1, a + n) \in Seq(Nat) /\ Len(SubSeq(d, a + 1, a + n)) = n
      /\ \A k \in 1 .. n : SubSeq(d, a + 1, a + n)[k] = d[a + k]
  BY <1>1
<1> QED
  BY <1>2, <1>3 DEF d, a, n

SpansFit(p) == \A i \in DOMAIN p.spans : p.spans[i].packed + p.spans[i].count <= Len(p.data)

(* Spans that fit their section are read with the columns they claim.      *)
LEMMA SpansAreRead ==
    ASSUME NEW p, IsWovr(p), SpansFit(p)
    PROVE  /\ ReadSpans(p) \in Seq(SpanParts)
           /\ Len(ReadSpans(p)) = Len(p.spans) /\ Len(p.spans) \in Nat
           /\ DOMAIN ReadSpans(p) = DOMAIN p.spans
           /\ \A i \in DOMAIN p.spans : /\ Len(ReadSpans(p)[i].data) = p.spans[i].count
                                        /\ ReadSpans(p)[i].data = Packed(p, p.spans[i])
<1> DEFINE r == ReadSpans(p)
           n == Len(p.spans)
<1>1. p.spans \in Seq(SpanFields) /\ p.data \in Seq(Nat)
  BY DEF IsWovr
<1>2. DOMAIN p.spans = 1 .. n /\ n \in Nat
  BY <1>1
<1>3. DOMAIN r = 1 .. n
  BY <1>2 DEF ReadSpans
<1>4. ASSUME NEW i \in 1 .. n
      PROVE  /\ r[i] \in SpanParts /\ Len(r[i].data) = p.spans[i].count
             /\ r[i].data = Packed(p, p.spans[i])
  <2> DEFINE s == p.spans[i]
  <2>1. s \in SpanFields
    BY <1>1, <1>2
  <2>2. s.packed \in Nat /\ s.count \in Nat /\ s.column \in Nat /\ s.end \in Nat
    BY <2>1 DEF SpanFields
  <2>3. s.packed + s.count <= Len(p.data)
    BY <1>2 DEF SpansFit
  <2>4. r[i] = [column |-> s.column, end |-> s.end, data |-> Packed(p, s)]
    BY <1>2 DEF ReadSpans
  <2> HIDE DEF s, r
  <2>5. Packed(p, s) \in Seq(Nat) /\ Len(Packed(p, s)) = s.count
    BY <1>1, <2>2, <2>3, PackedPart
  <2>6. r[i] \in SpanParts /\ r[i].data = Packed(p, s)
    BY <2>2, <2>4, <2>5 DEF SpanParts
  <2> QED
    BY <2>5, <2>6 DEF s
<1>5. r = [i \in 1 .. n |-> r[i]]
  BY <1>2 DEF ReadSpans
<1> HIDE DEF r
<1>6. r \in [1 .. n -> SpanParts]
  BY <1>4, <1>5
<1>7. r \in Seq(SpanParts) /\ Len(r) = n
  BY <1>2, <1>6
<1> QED
  BY <1>2, <1>3, <1>4, <1>7 DEF r

(* The columns the reader asks for are those it reads.                     *)
LEMMA ColumnsAre ==
    ASSUME NEW p, IsWovr(p), SpansFit(p)
    PROVE  SumOver(DOMAIN p.spans, LAMBDA i : p.spans[i].count) = Len(DataOf(ReadSpans(p)))
<1> DEFINE r == ReadSpans(p)
           n == Len(p.spans)
           v == [i \in DOMAIN p.spans |-> p.spans[i].count]
<1>1. /\ r \in Seq(SpanParts) /\ Len(r) = n /\ n \in Nat /\ DOMAIN r = DOMAIN p.spans
      /\ \A i \in DOMAIN p.spans : Len(r[i].data) = p.spans[i].count
  BY SpansAreRead
<1>2. DOMAIN p.spans = 1 .. n /\ IsFiniteSet(DOMAIN p.spans)
  <2>1. p.spans \in Seq(SpanFields)
    BY DEF IsWovr
  <2>2. DOMAIN p.spans = 1 .. n
    BY <2>1
  <2> QED
    BY <1>1, <2>2, FS_Interval
<1>3. \A i \in DOMAIN p.spans : p.spans[i].count \in Nat
  <2>1. p.spans \in Seq(SpanFields)
    BY DEF IsWovr
  <2>2. \A i \in DOMAIN p.spans : p.spans[i] \in SpanFields
    BY <2>1
  <2> QED
    BY <2>2 DEF SpanFields
<1>4. SumOver(DOMAIN p.spans, LAMBDA i : p.spans[i].count) = Total(DOMAIN p.spans, v)
  BY <1>2, <1>3, CountsAreSum
<1> HIDE DEF r
<1>5. \A i \in DOMAIN r : r[i].data \in Seq(Nat)
  <2>1. \A i \in DOMAIN r : r[i] \in SpanParts
    BY <1>1
  <2> QED
    BY <2>1 DEF SpanParts
<1>6. PICK P, d : DataJoint(P, d, r, Nat)
  BY <1>1, <1>5, DataIs
<1>7. JointOf(P, d, n, Nat) /\ DataOf(r) = P[n] /\ \A i \in DOMAIN r : d[i] = r[i].data
  BY <1>1, <1>6 DEF DataJoint
<1> DEFINE w == [i \in 1 .. n |-> Len(d[i])]
<1>8. Len(P[n]) = Total(1 .. n, w)
  BY <1>1, <1>7, JointLength
<1>9. \A i \in 1 .. n : w[i] = v[i] /\ v[i] \in Nat
  BY <1>1, <1>2, <1>3, <1>7
<1> HIDE DEF w, v
<1>10. Total(1 .. n, w) = Total(1 .. n, v)
  BY <1>2, <1>9, SumWeights
<1> QED
  BY <1>2, <1>4, <1>7, <1>8, <1>10 DEF r

(* The checked geometry makes them fit.                                    *)
LEMMA GeometryFits ==
    ASSUME NEW f, NEW p, GeometryIsValid(f, p)
    PROVE  SpansFit(p)
BY DEF GeometryIsValid, SpansFit

(* The elements of three,                                                  *)
LEMMA ThreeRange ==
    ASSUME NEW x, NEW y, NEW z
    PROVE  Range(<<x, y, z>>) = {x, y, z}
BY DEF Range

(* and of two.                                                             *)
LEMMA TwoRange ==
    ASSUME NEW x, NEW y
    PROVE  Range(<<x, y>>) = {x, y}
BY DEF Range

(* The lowest layer opens the account with its own blocks.                 *)
LEMMA WovrKeeps ==
    ASSUME Kept, Filed, Holding, ParseWovr
    PROVE  Kept'
<1> DEFINE p == Section(file, "WOVR")
           columns == SumOver(DOMAIN p.spans, LAMBDA i : p.spans[i].count)
           u == Block("result", 1, "result")
           v == Block("spans", Len(p.spans), "span")
           w == Block("columns", columns, "column")
           blocks == Range(<<u, v, w>>)
           spans == ReadSpans(p)
           got == [total |-> file.total, completed |-> ~file.partial,
                   spans |-> spans, overview |-> p.state, tiles |-> <<>>,
                   metadata |-> None, tempo |-> None, local |-> None, global |-> None]
<1>0. parse.layer = "wovr" /\ file # None /\ parse.got = None /\ held = {} /\ IsFile(file)
  BY DEF ParseWovr, Kept, Reading, Holding, Filed
<1>1. \/ \E status : status # "ok" /\ Fail(status, held)
      \/ /\ ContainerStatus(file) = "ok" /\ GeometryIsValid(file, p)
         /\ \E provided : Attach(BytesOf(blocks), blocks, provided, TRUE, got, "harden")
  BY Zenon DEF ParseWovr
<1>2. ASSUME ContainerStatus(file) = "ok", GeometryIsValid(file, p)
      PROVE  Attachable(BytesOf(blocks), blocks, got, "harden")
  <2>1. IsWovr(p) /\ SpansFit(p)
    BY <1>0, <1>2, StatusIs, SectionIs, PayloadById, GeometryFits
  <2>2. /\ spans \in Seq(SpanParts) /\ Len(spans) = Len(p.spans) /\ Len(p.spans) \in Nat
        /\ columns = Len(DataOf(spans)) /\ p.state \in States
    BY <2>1, SpansAreRead, ColumnsAre DEF IsWovr
  <2>3. Len(DataOf(spans)) \in Nat
    BY <2>2, SpanBytesAre
  <2>4. file.total \in Nat \cup {Unknown} /\ file.partial \in BOOLEAN
    BY <1>0 DEF IsFile
  <2> HIDE DEF spans, columns, p
  <2>5. got \in PublishedResults
    BY <2>2, <2>4 DEF PublishedResults, SpanParts
  <2>6. /\ got.spans = spans /\ got.tiles = <<>> /\ got.metadata = None /\ got.tempo = None
        /\ got.local = None /\ got.global = None
    OBVIOUS
  <2> HIDE DEF got
  <2>7. /\ SizeOf["result"] \in Nat /\ SizeOf["span"] \in Nat /\ SizeOf["column"] \in Nat
    BY SizesAre DEF Structures
  <2>8. /\ u.name = "result" /\ u.bytes = SizeOf["result"] /\ u.bytes \in Nat
        /\ v.name = "spans" /\ v.bytes = Len(p.spans) * SizeOf["span"] /\ v.bytes \in Nat
        /\ w.name = "columns" /\ w.bytes = columns * SizeOf["column"] /\ w.bytes \in Nat
    BY <2>2, <2>3, <2>7, BlockIs DEF Structures
  <2>9. v.bytes + w.bytes = SpanBytes(spans)
    <3>1. v.bytes = SizeOf["span"] * Len(spans) /\ w.bytes = SizeOf["column"] * Len(DataOf(spans))
      BY <2>2, <2>3, <2>7, <2>8, ProductIs
    <3> QED
      BY <3>1 DEF SpanBytes
  <2> HIDE DEF u, v, w
  <2>10. u # v /\ u # w /\ v # w
    BY <2>8
  <2>12. blocks = {u, v, w}
    BY ThreeRange
  <2> HIDE DEF blocks
  <2>11. AreBlocks({u, v, w}) /\ BytesOf({u, v, w}) = u.bytes + v.bytes + w.bytes
    <3>1. AreBlocks({u, v}) /\ BytesOf({u, v}) = u.bytes + v.bytes
      BY <2>8, <2>10, TwoBlocks
    <3>2. w \notin {u, v}
      BY <2>10
    <3>3. /\ AreBlocks({u, v} \cup {w})
          /\ BytesOf({u, v} \cup {w}) = w.bytes + BytesOf({u, v})
      BY <2>8, <3>1, <3>2, BytesAdd
    <3>4. {u, v} \cup {w} = {u, v, w}
      OBVIOUS
    <3> DEFINE a == u.bytes
               b == v.bytes
               c == w.bytes
    <3>5. a \in Nat /\ b \in Nat /\ c \in Nat
      BY <2>8
    <3> HIDE DEF a, b, c
    <3>6. c + (a + b) = a + b + c
      BY <3>5
    <3>7. c + (a + b) = w.bytes + (u.bytes + v.bytes) /\ a + b + c = u.bytes + v.bytes + w.bytes
      BY DEF a, b, c
    <3> QED
      BY <3>1, <3>3, <3>4, <3>6, <3>7
  <2>13. AllocationBytes(got) = u.bytes + v.bytes + w.bytes
    <3>1. /\ TileBytes(got.tiles) = 0 /\ ItemBytes(got.metadata) = 0 /\ TempoBytes(got.tempo) = 0
          /\ LocalBytes(got.local) = 0 /\ GlobalBytes(got.global) = 0
      BY <2>6, NoTileBytes DEF ItemBytes, TempoBytes, LocalBytes, GlobalBytes
    <3>2. AllocationBytes(got) = u.bytes + SpanBytes(spans) + 0 + 0 + 0 + 0 + 0
      BY <2>5, <2>6, <2>8, <3>1, AllocationIs
    <3> DEFINE a == u.bytes
               b == v.bytes
               c == w.bytes
    <3>3. a \in Nat /\ b \in Nat /\ c \in Nat /\ AllocationBytes(got) = a + (b + c) + 0 + 0 + 0 + 0 + 0
      BY <2>8, <2>9, <3>2
    <3> HIDE DEF a, b, c
    <3>4. a + (b + c) + 0 + 0 + 0 + 0 + 0 = a + b + c
      BY <3>3
    <3> QED
      BY <3>3, <3>4 DEF a, b, c
  <2>14. BytesOf(blocks) \in Nat /\ BytesOf(blocks) <= BytesOf(blocks) /\ AreBlocks(blocks)
    BY <2>11, <2>12, BytesType
  <2>15. AllocationBytes(got) = AllocationBytes(parse.got) + BytesOf(blocks)
    <3>1. AllocationBytes(parse.got) = 0 /\ AllocationBytes(got) = BytesOf(blocks)
      BY <1>0, <2>11, <2>12, <2>13 DEF AllocationBytes
    <3> QED
      BY <2>14, <3>1
  <2>16. Unread(got, "harden")
    BY <2>6 DEF Unread
  <2>17. \A b \in held \cup blocks : b.name \notin Spare("harden")
    BY <1>0, <2>8, <2>12 DEF Spare
  <2> QED
    BY <1>0, <2>5, <2>14, <2>15, <2>16, <2>17 DEF Attachable
<1> HIDE DEF blocks, got, p, columns, spans, u, v, w
<1>3. CASE \E status : status # "ok" /\ Fail(status, held)
  BY <1>3, FailKeeps
<1>4. CASE /\ ContainerStatus(file) = "ok" /\ GeometryIsValid(file, p)
           /\ \E provided : Attach(BytesOf(blocks), blocks, provided, TRUE, got, "harden")
  <2>1. PICK provided : Attach(BytesOf(blocks), blocks, provided, TRUE, got, "harden")
    BY <1>4
  <2>2. Attachable(BytesOf(blocks), blocks, got, "harden")
    BY <1>2, <1>4
  <2>3. file # None /\ ContainerStatus(file) = "ok" /\ "harden" \notin {"idle", "wovr"}
    BY <1>0, <1>4
  <2> QED
    BY <2>1, <2>2, <2>3, AttachKeeps, Zenon
<1> QED
  BY <1>1, <1>3, <1>4

(* The columns of a tile lie within it and end where the source does.      *)
IsPlaced(f, t) ==
    /\ t.data # <<>> /\ t.index * TileColumns <= t.column
    /\ t.column + Len(t.data) <= (t.index + 1) * TileColumns
    /\ t.end = EndFrame(t.column, Len(t.data), DetailFrames, f.total)
    /\ f.total # Unknown => t.end <= f.total

(* The tiles a reader may accept from such a file.                         *)
TilesAllowed(f) ==
    {t \in TileParts : StateIsAllowed(t.state, f.partial) /\ IsPlaced(f, t)}

(* A run of columns ends within the source.                                *)
LEMMA EndIsWithin ==
    ASSUME NEW column \in Nat, NEW count \in Nat, NEW size \in Nat, NEW total \in Nat \cup {Unknown}
    PROVE  total # Unknown => EndFrame(column, count, size, total) <= total
<1> DEFINE end == (column + count) * size
<1>1. column + count \in Nat
  OBVIOUS
<1>2. end \in Nat
  BY <1>1, ProductIs
<1>3. EndFrame(column, count, size, total) = IF total # Unknown /\ end > total THEN total ELSE end
  BY DEF EndFrame
<1> HIDE DEF end
<1> QED
  BY <1>2, <1>3

TilesAreValid(f) ==
    \A i \in Sections(f, "WDTL") : \A t \in Range(PayloadAt(f, f.entries[i]).tiles) :
        DescriptorIsValid(f, PayloadAt(f, f.entries[i]), t)

(* Tiles with valid descriptors are read as tiles of the right form,       *)
LEMMA TilesAreRead ==
    ASSUME NEW f, IsFile(f), NEW p, IsWdtl(p), \A t \in Range(p.tiles) : DescriptorIsValid(f, p, t)
    PROVE  ReadTiles(p) \in Seq(TilesAllowed(f))
<1> DEFINE r == ReadTiles(p)
           n == Len(p.tiles)
<1>1. p.tiles \in Seq(TileFields) /\ p.data \in Seq(Nat)
  BY DEF IsWdtl
<1>2. DOMAIN p.tiles = 1 .. n /\ n \in Nat
  BY <1>1
<1>3. DOMAIN r = 1 .. n
  BY <1>2 DEF ReadTiles
<1>4. ASSUME NEW i \in 1 .. n PROVE r[i] \in TilesAllowed(f)
  <2> DEFINE s == p.tiles[i]
  <2>1. s \in TileFields
    BY <1>1, <1>2
  <2>2. /\ s.packed \in Nat /\ s.count \in Nat /\ s.column \in Nat /\ s.end \in Nat
        /\ s.index \in Nat /\ s.state \in States
    BY <2>1 DEF TileFields
  <2>0. s \in Range(p.tiles)
    BY <1>2 DEF Range
  <2>3. s.packed + s.count <= Len(p.data) /\ StateIsAllowed(s.state, f.partial)
    BY <2>0 DEF DescriptorIsValid
  <2>7. /\ s.count > 0 /\ s.index * TileColumns <= s.column
        /\ s.column + s.count <= (s.index + 1) * TileColumns
        /\ s.end = EndFrame(s.column, s.count, DetailFrames, f.total)
    BY <2>0 DEF DescriptorIsValid
  <2>8. f.total # Unknown => s.end <= f.total
    <3>1. f.total \in Nat \cup {Unknown} /\ DetailFrames \in Nat
      BY ContainerAssumption DEF IsFile
    <3>2. f.total # Unknown => EndFrame(s.column, s.count, DetailFrames, f.total) <= f.total
      BY <2>2, <3>1, EndIsWithin
    <3> QED
      BY <2>7, <3>2
  <2>4. r[i] = [index |-> s.index, column |-> s.column, end |-> s.end, data |-> Packed(p, s),
                state |-> s.state]
    BY <1>2 DEF ReadTiles
  <2> HIDE DEF s, r
  <2>5. Packed(p, s) \in Seq(Nat) /\ Len(Packed(p, s)) = s.count
    BY <1>1, <2>2, <2>3, PackedPart
  <2>6. r[i] \in TileParts /\ r[i].state = s.state
    BY <2>2, <2>4, <2>5 DEF TileParts
  <2>9. /\ r[i].index = s.index /\ r[i].column = s.column /\ r[i].end = s.end
        /\ Len(r[i].data) = s.count
    BY <2>4, <2>5
  <2>10. r[i].data # <<>>
    BY <2>2, <2>7, <2>9
  <2>11. IsPlaced(f, r[i])
    BY <2>7, <2>8, <2>9, <2>10 DEF IsPlaced
  <2> QED
    BY <2>3, <2>6, <2>11 DEF TilesAllowed
<1>5. r = [i \in 1 .. n |-> r[i]]
  BY <1>2 DEF ReadTiles
<1> HIDE DEF r
<1>6. r \in [1 .. n -> TilesAllowed(f)]
  BY <1>4, <1>5
<1>7. r \in Seq(TilesAllowed(f))
  BY <1>2, <1>6
<1> QED
  BY <1>7 DEF r

(* those of all detail sections,                                           *)
LEMMA AllTilesAre ==
    ASSUME NEW f, IsFile(f), ContainerStatus(f) = "ok", TilesAreValid(f)
    PROVE  AllTiles(f) \in Seq(TilesAllowed(f))
<1> DEFINE S == TilesAllowed(f)
           n == Len(f.entries)
           d == [i \in DOMAIN f.entries |->
                   IF f.entries[i].id = "WDTL" THEN ReadTiles(PayloadAt(f, f.entries[i]))
                   ELSE <<>>]
<1>1. DOMAIN f.entries = 1 .. n /\ n \in Nat
  BY ListDomain DEF IsFile, AreEntries
<1>2. ASSUME NEW i \in 1 .. n PROVE d[i] \in Seq(S)
  <2>1. CASE f.entries[i].id = "WDTL"
    <3>1. IsWdtl(PayloadAt(f, f.entries[i]))
      BY <1>1, <2>1, EntryIsRead, PayloadById
    <3>2. i \in Sections(f, "WDTL")
      BY <1>1, <2>1 DEF Sections
    <3>3. ReadTiles(PayloadAt(f, f.entries[i])) \in Seq(S)
      BY <3>1, <3>2, TilesAreRead DEF TilesAreValid
    <3> QED
      BY <1>1, <2>1, <3>3
  <2>2. CASE f.entries[i].id # "WDTL"
    <3>1. d[i] = <<>>
      BY <1>1, <2>2
    <3> HIDE DEF d, S
    <3> QED
      BY <3>1
  <2> QED
    BY <2>1, <2>2
<1>3. AllTiles(f) = FlattenSeq(d)
  BY Zenon DEF AllTiles
<1>4. d = [i \in 1 .. n |-> d[i]]
  BY <1>1
<1> HIDE DEF d, S
<1>5. PICK P \in [0 .. n -> Seq(S)] : IsJoint(P, d, n)
  BY <1>1, <1>2, JointExists
<1>6. JointOf(P, d, n, S)
  BY <1>2, <1>5 DEF JointOf
<1>7. FirstOf(d, d, n, S)
  BY <1>2, <1>4 DEF FirstOf
<1>8. n \in 0 .. n
  BY <1>1
<1>9. FlattenSeq(d) = P[n]
  BY <1>1, <1>6, <1>7, <1>8, FlattenIs, SMT
<1>10. P[n] \in Seq(S)
  BY <1>5, <1>8
<1> QED
  BY <1>3, <1>9, <1>10 DEF S

(* Sorting rearranges the tiles and puts them in order.                    *)
LEMMA SortedIs ==
    ASSUME NEW f, NEW S, AllTiles(f) \in Seq(S), \A t \in S : t.index \in Nat
    PROVE  /\ SortedTiles(f) \in Seq(S)
           /\ \A k \in 2 .. Len(SortedTiles(f)) :
                 SortedTiles(f)[k - 1].index <= SortedTiles(f)[k].index
<1> DEFINE tiles == AllTiles(f)
           D == DOMAIN tiles
           R == {e \in D \X D : \/ tiles[e[1]].index < tiles[e[2]].index
                                \/ tiles[e[1]].index = tiles[e[2]].index /\ e[1] < e[2]}
           order == Arranged(D, R)
<1>0. SortedTiles(f) = [k \in DOMAIN order |-> tiles[order[k]]]
  BY DEF SortedTiles
<1> HIDE DEF tiles
<1>1. tiles \in Seq(S)
  BY DEF tiles
<1>2. D = 1 .. Len(tiles) /\ Len(tiles) \in Nat
  BY <1>1
<1>3. IsFiniteSet(D) /\ D \subseteq Nat
  BY <1>2, FS_Interval
<1>4. \A i \in D : tiles[i] \in S
  BY <1>1
<1>5. \A i \in D : tiles[i].index \in Nat
  BY <1>4
<1> HIDE DEF D
<1>6. \A a, b \in D : <<a, b>> \in R <=> \/ tiles[a].index < tiles[b].index
                                         \/ tiles[a].index = tiles[b].index /\ a < b
  OBVIOUS
<1> HIDE DEF R
<1>7. Orders(R, D)
  <2> DEFINE x(i) == tiles[i].index
  <2>1. \A a, b \in D : <<a, b>> \in R <=> x(a) < x(b) \/ (x(a) = x(b) /\ a < b)
    BY <1>6
  <2>2. \A a \in D : x(a) \in Nat /\ a \in Nat
    BY <1>3, <1>5
  <2> HIDE DEF x
  <2> QED
    BY <2>1, <2>2 DEF Orders
<1> DEFINE n == Cardinality(D)
<1>8. DOMAIN order = 1 .. n /\ n \in Nat /\ \A k \in 1 .. n : order[k] \in D
  BY <1>3, <1>7, ArrangedIs
<1>9. \A l \in 2 .. n : <<order[l - 1], order[l]>> \in R
  BY <1>3, <1>7, ArrangedInOrder
<1> HIDE DEF order, n
<1> DEFINE s == SortedTiles(f)
<1>10. s = [l \in 1 .. n |-> tiles[order[l]]]
  BY <1>0, <1>8
<1> HIDE DEF s
<1>11. s \in [1 .. n -> S]
  BY <1>4, <1>8, <1>10
<1>12. s \in Seq(S) /\ Len(s) = n
  BY <1>8, <1>11
<1>13. ASSUME NEW k \in 2 .. n PROVE s[k - 1].index <= s[k].index
  <2> DEFINE a == order[k - 1]
             b == order[k]
  <2>1. k \in 1 .. n /\ k - 1 \in 1 .. n
    BY <1>8
  <2>2. s[k - 1] = tiles[a] /\ s[k] = tiles[b] /\ a \in D /\ b \in D /\ <<a, b>> \in R
    BY <1>8, <1>9, <1>10, <2>1
  <2> HIDE DEF a, b
  <2>3. tiles[a].index < tiles[b].index \/ tiles[a].index = tiles[b].index
    BY <1>6, <2>2
  <2>4. tiles[a].index \in Nat /\ tiles[b].index \in Nat
    BY <1>5, <2>2
  <2>5. tiles[a].index <= tiles[b].index
    BY <2>3, <2>4
  <2> QED
    BY <2>2, <2>5
<1> QED
  BY <1>12, <1>13 DEF s

(* and sorted they are in the order of their indices.                      *)
LEMMA SortedTilesAre ==
    ASSUME NEW f, IsFile(f), ContainerStatus(f) = "ok", TilesAreValid(f)
    PROVE  /\ SortedTiles(f) \in Seq(TilesAllowed(f)) /\ SortedTiles(f) \in Seq(TileParts)
           /\ \A k \in 2 .. Len(SortedTiles(f)) :
                 SortedTiles(f)[k - 1].index <= SortedTiles(f)[k].index
<1> DEFINE S == TilesAllowed(f)
           s == SortedTiles(f)
<1>1. \A t \in S : t.index \in Nat /\ t \in TileParts
  BY DEF TilesAllowed, TileParts
<1>2. s \in Seq(S) /\ \A k \in 2 .. Len(s) : s[k - 1].index <= s[k].index
  <2>1. AllTiles(f) \in Seq(S)
    BY AllTilesAre
  <2> HIDE DEF S
  <2> QED
    BY <1>1, <2>1, SortedIs
<1> HIDE DEF S, s
<1>3. s \in Seq(TileParts)
  BY <1>1, <1>2
<1> QED
  BY <1>2, <1>3 DEF S, s

(* The detail layer keeps the account.                                     *)
LEMMA DetailKeeps ==
    ASSUME Kept, Filed, Holding, ParseDetail
    PROVE  Kept'
<1> DEFINE payloads == {PayloadAt(file, file.entries[i]) : i \in Sections(file, "WDTL")}
           tiles == SortedTiles(file)
           columns == Len(DataOf(tiles))
           u == Block("tiles", Len(tiles), "tile")
           v == Block("detail_columns", columns, "column")
           w == Block("intervals", Len(tiles), "interval")
           blocks == Range(<<u, v>>)
           got == [parse.got EXCEPT !.tiles = tiles]
<1>0. parse.layer = "detail"
  BY DEF ParseDetail
<1>1. \/ Fail("corrupt", held) \/ Fail("out_of_memory", held)
      \/ Pass("metadata", parse.got)
      \/ /\ \A p \in payloads : \A t \in Range(p.tiles) : DescriptorIsValid(file, p, t)
         /\ \E provided, sound : Attach(BytesOf(blocks \cup {w}), blocks, provided, sound, got, "metadata")
  BY Zenon DEF ParseDetail
<1>3. /\ Reading /\ file # None /\ IsFile(file) /\ ContainerStatus(file) = "ok"
      /\ parse.got \in PublishedResults /\ Unread(parse.got, parse.layer)
      /\ \A b \in held : b.name \notin Spare(parse.layer)
  BY <1>0, LayerIs DEF Layers
<1>4. Unread(parse.got, "metadata") /\ Spare("metadata") \subseteq Spare(parse.layer)
  BY <1>0, <1>3 DEF Unread, Spare
<1>5. CASE Fail("corrupt", held) \/ Fail("out_of_memory", held) \/ Pass("metadata", parse.got)
  BY <1>3, <1>4, <1>5, FailKeeps, PassKeeps
<1>6. CASE /\ \A p \in payloads : \A t \in Range(p.tiles) : DescriptorIsValid(file, p, t)
           /\ \E provided, sound : Attach(BytesOf(blocks \cup {w}), blocks, provided, sound, got, "metadata")
  <2>0. TilesAreValid(file)
    BY <1>6 DEF TilesAreValid
  <2>1. tiles \in Seq(TileParts)
    BY <1>3, <2>0, SortedTilesAre
  <2> HIDE DEF tiles, payloads
  <2>2. Len(tiles) \in Nat /\ columns \in Nat
    BY <2>1, TileBytesAre
  <2>3. SizeOf["tile"] \in Nat /\ SizeOf["column"] \in Nat
    BY SizesAre DEF Structures
  <2>4. /\ u.name = "tiles" /\ u.bytes = Len(tiles) * SizeOf["tile"] /\ u.bytes \in Nat
    BY <2>2, BlockIs DEF Structures
  <2>5. /\ v.name = "detail_columns" /\ v.bytes = columns * SizeOf["column"] /\ v.bytes \in Nat
    BY <2>2, BlockIs DEF Structures
  <2>6. w.name = "intervals" /\ w.bytes \in Nat
    BY <2>2, BlockIs DEF Structures
  <2>7. u.bytes + v.bytes = TileBytes(tiles)
    <3>1. u.bytes = SizeOf["tile"] * Len(tiles) /\ v.bytes = SizeOf["column"] * Len(DataOf(tiles))
      BY <2>2, <2>3, <2>4, <2>5, ProductIs
    <3> QED
      BY <3>1 DEF TileBytes
  <2> HIDE DEF u, v, w
  <2>8. u # v /\ w \notin {u, v}
    BY <2>4, <2>5, <2>6
  <2>9. AreBlocks({u, v}) /\ BytesOf({u, v}) = u.bytes + v.bytes
    BY <2>4, <2>5, <2>8, TwoBlocks
  <2>10. blocks = {u, v}
    BY TwoRange
  <2> HIDE DEF blocks
  <2>11. AreBlocks(blocks) /\ BytesOf(blocks) = TileBytes(tiles) /\ BytesOf(blocks) \in Nat
    BY <2>7, <2>9, <2>10, BytesType
  <2>12. BytesOf(blocks \cup {w}) = w.bytes + BytesOf(blocks)
    BY <2>6, <2>8, <2>10, <2>11, BytesAdd
  <2>13. BytesOf(blocks \cup {w}) \in Nat /\ BytesOf(blocks) <= BytesOf(blocks \cup {w})
    <3> DEFINE a == w.bytes
               b == BytesOf(blocks)
               c == BytesOf(blocks \cup {w})
    <3>1. a \in Nat /\ b \in Nat /\ c = a + b
      BY <2>6, <2>11, <2>12
    <3> HIDE DEF a, b, c
    <3>2. c \in Nat /\ b <= c
      BY <3>1
    <3> QED
      BY <3>2 DEF b, c
  <2>14. parse.got.tiles = <<>>
    BY <1>0, <1>3 DEF Unread
  <2>15. got \in PublishedResults /\ AllocationBytes(got) = AllocationBytes(parse.got) + BytesOf(blocks)
    BY <1>3, <2>1, <2>11, <2>14, WithTilesIs
  <2>16. Unread(got, "metadata")
    BY <1>0, <1>3 DEF Unread, PublishedResults
  <2> HIDE DEF got
  <2>17. \A b \in blocks : b.name \in Spare(parse.layer) /\ b.name \notin Spare("metadata")
    BY <1>0, <2>4, <2>5, <2>10 DEF Spare
  <2>18. Attachable(BytesOf(blocks \cup {w}), blocks, got, "metadata")
    BY <1>3, <1>4, <2>11, <2>13, <2>15, <2>16, <2>17, AttachableIs
  <2>19. "metadata" \notin {"idle", "wovr"}
    OBVIOUS
  <2> QED
    BY <1>3, <1>6, <2>18, <2>19, AttachKeeps, Zenon
<1> QED
  BY <1>1, <1>5, <1>6

-----------------------------------------------------------------------------
(* The bytes held are accounted for whatever the step.                     *)
LEMMA KeptStep == Kept /\ Filed /\ Holding /\ [Next]_vars => Kept'
<1> SUFFICES ASSUME Kept, Filed, Holding, [Next]_vars PROVE Kept'
  OBVIOUS
<1>1. CASE Parse
  BY <1>1, WovrKeeps, HardenKeeps, DetailKeeps, MetadataKeeps, TempoKeeps, LocalKeeps,
     GlobalKeeps, RevisionKeeps DEF Parse
<1>2. CASE UNCHANGED vars
  BY <1>2 DEF vars, Kept, Reading, Carried, Unread, AreBlocks
<1>3. CASE \/ \E r \in Results : Save(r)
           \/ Edit
           \/ \E bytes \in Limits : Begin(bytes)
           \/ Close
  BY <1>3, CallerKeeps
<1> QED
  BY <1>1, <1>2, <1>3 DEF Next

(* The blocks of a parsed result stay within the limit of the call and are *)
(* what the next layer takes them to be.                                   *)
THEOREM AllocationStaysBounded == Spec => []AllocationIsBounded
<1>1. Init => Kept
  BY DEF Init, Kept, Reading, Idle
<1>2. Kept /\ Holding => AllocationIsBounded
  BY HeldAre DEF AllocationIsBounded
<1> QED
  BY <1>1, <1>2, KeptStep, FiledAlways, HoldingAlways, PTL DEF Spec

-----------------------------------------------------------------------------
(* A completed overview is whole.                                          *)

Numbers(s, m) == Len(s) = m /\ \A j \in 1 .. m : s[j] = j - 1

(* Columns that continue the numbering of others.                          *)
LEMMA NumbersJoin ==
    ASSUME NEW s \in Seq(Nat), NEW t \in Seq(Nat), NEW m \in Nat, NEW n \in Nat, Numbers(s, m),
           Len(t) = n, \A k \in 1 .. n : t[k] = m + k - 1
    PROVE  Numbers(s \o t, m + n)
<1>1. Len(s) = m /\ \A j \in 1 .. m : s[j] = j - 1
  BY DEF Numbers
<1>0. Len(s \o t) = Len(s) + Len(t)
  OBVIOUS
<1>2. Len(s \o t) = m + n
  BY <1>0, <1>1
<1>3. ASSUME NEW j \in 1 .. m + n PROVE (s \o t)[j] = j - 1
  <2>1. CASE j <= m
    <3>1. (s \o t)[j] = s[j]
      BY <1>1, <2>1
    <3> QED
      BY <1>1, <2>1, <3>1
  <2>2. CASE j > m
    <3>1. (s \o t)[j] = t[j - m] /\ j - m \in 1 .. n
      BY <1>1, <2>2
    <3>2. t[j - m] = m + (j - m) - 1
      BY <3>1
    <3>3. m + (j - m) - 1 = j - 1
      OBVIOUS
    <3> QED
      BY <3>1, <3>2, <3>3
  <2>3. j <= m \/ j > m
    OBVIOUS
  <2> QED
    BY <2>1, <2>2, <2>3
<1> QED
  BY <1>2, <1>3 DEF Numbers

(* The end of each span, the start of the next.                            *)
EndsAt(p, i) == IF i = 0 THEN 0 ELSE p.spans[i].column + p.spans[i].count

(* The spans of a final overview of known length are all its columns in    *)
(* order, by induction on the spans.                                       *)
LEMMA OverviewIsWhole ==
    ASSUME NEW f, NEW p, IsWovr(p), GeometryIsValid(f, p), Hardened(f, p), p.state = "final",
           f.total # Unknown
    PROVE  Numbers(DataOf(ReadSpans(p)), Ceiling(f.total, FramesPerColumn))
           /\ DataOf(ReadSpans(p)) \in Seq(Nat)
<1> DEFINE n == Len(p.spans)
           r == ReadSpans(p)
           E(i) == EndsAt(p, i)
<1>1. p.spans \in Seq(SpanFields) /\ p.data \in Seq(Nat) /\ SpansAreRight(p)
  BY DEF IsWovr
<1>2. DOMAIN p.spans = 1 .. n /\ n \in Nat /\ \A i \in 1 .. n : p.spans[i] \in SpanFields
  BY <1>1
<1>3. \A i \in 1 .. n : /\ p.spans[i].packed \in Nat /\ p.spans[i].count \in Nat
                        /\ p.spans[i].column \in Nat
  BY <1>2 DEF SpanFields
<1>4. n > 0 /\ p.spans[1].column = 0 /\ p.columns = Ceiling(f.total, FramesPerColumn)
  <2>1. p.spans # <<>> /\ p.spans[1].column = 0 /\ p.columns = Ceiling(f.total, FramesPerColumn)
    BY DEF GeometryIsValid
  <2> QED
    BY <1>1, <1>2, <2>1
<1>5. /\ p.spans[n].column + p.spans[n].count = p.columns
      /\ \A i \in 1 .. n : p.spans[i].count > 0
      /\ \A i \in 1 .. n : p.spans[i].packed + p.spans[i].count <= Len(p.data)
  BY <1>2 DEF GeometryIsValid
<1>6. /\ \A i \in 2 .. n : p.spans[i].column = p.spans[i - 1].column + p.spans[i - 1].count
      /\ PackedApart(p.spans)
  BY DEF Hardened
<1>7. \A i \in 1 .. n : \A k \in 1 .. p.spans[i].count :
          p.data[p.spans[i].packed + k] = p.spans[i].column + k - 1
  <2>1. ASSUME n > 1, \A i \in DOMAIN p.spans : p.spans[i].packed = 0 PROVE FALSE
    <3>1. 1 \in 1 .. n /\ 2 \in 1 .. n
      BY <1>2, <2>1
    <3>2. p.spans[1].packed = 0 /\ p.spans[2].packed = 0
      BY <1>2, <2>1, <3>1
    <3>3. \/ p.spans[1].packed + p.spans[1].count <= p.spans[2].packed
          \/ p.spans[2].packed + p.spans[2].count <= p.spans[1].packed
      BY <1>2, <1>6, <3>1 DEF PackedApart
    <3>4. p.spans[1].count > 0 /\ p.spans[2].count > 0 /\ p.spans[1].count \in Nat
          /\ p.spans[2].count \in Nat
      BY <1>3, <1>5, <3>1
    <3> QED
      BY <3>2, <3>3, <3>4
  <2> QED
    BY <1>1, <1>2, <2>1 DEF SpansAreRight
<1>8. /\ r \in Seq(SpanParts) /\ Len(r) = n /\ DOMAIN r = DOMAIN p.spans
      /\ \A i \in DOMAIN p.spans : /\ Len(r[i].data) = p.spans[i].count
                                   /\ r[i].data = Packed(p, p.spans[i])
  BY SpansAreRead, GeometryFits
<1>9. ASSUME NEW i \in 1 .. n, NEW k \in 1 .. p.spans[i].count
      PROVE  r[i].data[k] = p.spans[i].column + k - 1
  <2>1. Packed(p, p.spans[i])[k] = p.data[p.spans[i].packed + k]
    BY <1>1, <1>3, <1>5, PackedPart
  <2>2. r[i].data = Packed(p, p.spans[i])
    BY <1>2, <1>8
  <2> HIDE DEF r
  <2> QED
    BY <1>7, <2>1, <2>2
<1> HIDE DEF r
<1>10. \A i \in DOMAIN r : r[i].data \in Seq(Nat)
  <2>1. \A i \in DOMAIN r : r[i] \in SpanParts
    BY <1>8
  <2> QED
    BY <2>1 DEF SpanParts
<1>11. PICK P, d : DataJoint(P, d, r, Nat)
  BY <1>8, <1>10, DataIs
<1>12. /\ JointOf(P, d, n, Nat) /\ DataOf(r) = P[n]
       /\ \A i \in 1 .. n : d[i] = r[i].data
  BY <1>2, <1>8, <1>11 DEF DataJoint
<1>13. /\ P[0] = <<>> /\ \A k \in 0 .. n : P[k] \in Seq(Nat)
       /\ \A k \in 1 .. n : StepOf(P, d, k, Nat)
  BY <1>2, <1>12, JointStep
<1>14. E(0) = 0 /\ \A i \in 0 .. n : E(i) \in Nat
  BY <1>3 DEF EndsAt
<1>15. ASSUME NEW i \in 1 .. n
       PROVE  p.spans[i].column = E(i - 1) /\ E(i) = E(i - 1) + p.spans[i].count
  <2>1. E(i) = p.spans[i].column + p.spans[i].count
    BY DEF EndsAt
  <2>2. p.spans[i].column = E(i - 1)
    <3>1. CASE i = 1
      BY <1>4, <3>1 DEF EndsAt
    <3>2. CASE i # 1
      <4>1. i \in 2 .. n /\ i - 1 # 0
        BY <3>2
      <4>2. E(i - 1) = p.spans[i - 1].column + p.spans[i - 1].count
        BY <4>1 DEF EndsAt
      <4> QED
        BY <1>6, <4>1, <4>2
    <3> QED
      BY <3>1, <3>2
  <2> QED
    BY <2>1, <2>2
<1>16. E(n) = Ceiling(f.total, FramesPerColumn)
  BY <1>2, <1>4, <1>5 DEF EndsAt
<1> HIDE DEF E
<1> DEFINE T == {i \in 0 .. n : Numbers(P[i], E(i))}
<1>17. 0 \in T
  <2>1. Numbers(<<>>, 0)
    BY DEF Numbers
  <2> QED
    BY <1>2, <1>13, <1>14, <2>1
<1>18. ASSUME NEW i \in 1 .. n, i - 1 \in T PROVE i \in T
  <2> DEFINE m == E(i - 1)
             c == p.spans[i].count
             s == P[i - 1]
             t == d[i]
  <2>1. Numbers(s, m) /\ s \in Seq(Nat) /\ t \in Seq(Nat) /\ P[i] = s \o t
    BY <1>13, <1>18 DEF StepOf
  <2>2. m \in Nat /\ c \in Nat /\ E(i) = m + c
    BY <1>3, <1>14, <1>15
  <2>3. Len(t) = c
    BY <1>2, <1>8, <1>12
  <2>4. \A k \in 1 .. c : t[k] = m + k - 1
    BY <1>9, <1>12, <1>15
  <2> HIDE DEF m, c, s, t
  <2>5. Numbers(s \o t, m + c)
    BY <2>1, <2>2, <2>3, <2>4, NumbersJoin
  <2>6. Numbers(P[i], E(i)) /\ i \in 0 .. n
    BY <1>2, <2>1, <2>2, <2>5
  <2> QED
    BY <2>6
<1> HIDE DEF T
<1>19. T = 0 .. n
  <2>1. T \in SUBSET (0 .. n)
    BY DEF T
  <2> QED
    BY <1>2, <1>17, <1>18, <2>1, Induction
<1>20. Numbers(P[n], E(n))
  <2>1. n \in T
    BY <1>2, <1>19
  <2> QED
    BY <2>1 DEF T
<1>21. P[n] \in Seq(Nat)
  BY <1>2, <1>13
<1> QED
  BY <1>12, <1>16, <1>20, <1>21 DEF r

TileFits(tiles, i) ==
    /\ StateIsAllowed(tiles[i].state, file.partial) /\ IsPlaced(file, tiles[i])
    /\ i > 1 => tiles[i].index > tiles[i - 1].index

(* What the sections of tempo and grids have to do with each other.        *)
Linked(got, layer) ==
    /\ got.local # None => got.tempo # None
    /\ got.global # None => got.tempo # None
    /\ layer = "local" => got.tempo # None
    /\ layer = "revision" => got.global.state = Section(file, "GGRD").state
    /\ layer = "ended" => ~Contradictory(got)

(* The overview a result holds is the one whose section has been checked,  *)
(* and its tiles are in order and in states the container may have.        *)
Sound(got, layer) ==
    /\ GeometryIsValid(file, Section(file, "WOVR"))
    /\ layer # "harden" => Hardened(file, Section(file, "WOVR"))
    /\ got.spans = ReadSpans(Section(file, "WOVR"))
    /\ got.overview = Section(file, "WOVR").state /\ got.total = file.total
    /\ \A i \in DOMAIN got.tiles : TileFits(got.tiles, i)
    /\ Linked(got, layer)

Checked == Reading => Sound(parse.got, parse.layer)

(* A layer that fails hands nothing on.                                    *)
LEMMA FailIsChecked ==
    ASSUME NEW status, status # "ok", NEW S, Fail(status, S)
    PROVE  Checked'
BY DEF Fail, Checked, Reading

(* A layer that adds no block hands on what it has checked,                *)
LEMMA PassIsChecked ==
    ASSUME NEW next, NEW got, Sound(got, next), Pass(next, got)
    PROVE  Checked'
<1>1. parse'.got = got /\ parse'.layer = next /\ file' = file
  BY DEF Pass, CallerFrame
<1> QED
  BY <1>1 DEF Checked, Sound, TileFits, Linked

(* and so does one that does.                                              *)
LEMMA AttachIsChecked ==
    ASSUME NEW additional, NEW blocks, NEW provided, NEW sound, NEW got, NEW next,
           Attach(additional, blocks, provided, sound, got, next),
           sound => Sound(got, next)
    PROVE  Checked'
<1>1. CASE ~Fits(additional)
  BY <1>1, FailIsChecked DEF Attach
<1>2. CASE Fits(additional)
  <2>1. PICK have \in provided :
            IF have # blocks \/ ~sound
            THEN Fail(IF have # blocks THEN "out_of_memory" ELSE "corrupt", held \cup have)
            ELSE /\ parse' = [layer |-> next, got |-> got, status |-> "ok"]
                 /\ held' = held \cup blocks /\ CallerFrame
    BY <1>2 DEF Attach
  <2>2. CASE have # blocks \/ ~sound
    BY <2>1, <2>2, FailIsChecked
  <2>3. CASE ~(have # blocks \/ ~sound)
    <3>1. parse'.got = got /\ parse'.layer = next /\ file' = file
      BY <2>1, <2>3 DEF CallerFrame
    <3>2. Sound(got, next)
      BY <2>3
    <3> QED
      BY <3>1, <3>2 DEF Checked, Sound, TileFits, Linked
  <2> QED
    BY <2>2, <2>3
<1> QED
  BY <1>1, <1>2

(* A layer that leaves the overview and the tiles alone.                   *)
Agrees(q, r) ==
    q.spans = r.spans /\ q.overview = r.overview /\ q.total = r.total /\ q.tiles = r.tiles

(* What was checked of a result stays true when a higher layer adds a      *)
(* part.                                                                   *)
LEMMA AgreesIsSound ==
    ASSUME NEW r, NEW layer, layer # "harden", Sound(r, layer), NEW q, Agrees(q, r), NEW next,
           Linked(q, next)
    PROVE  Sound(q, next)
BY DEF Sound, Agrees

(* What a layer may rely on when it runs.                                  *)
LEMMA LayerIsChecked ==
    ASSUME Kept, Filed, Checked, parse.layer \in Layers
    PROVE  /\ Sound(parse.got, parse.layer) /\ parse.got \in PublishedResults
           /\ Agrees(parse.got, parse.got) /\ Linked(parse.got, parse.layer)
           /\ Unread(parse.got, parse.layer)
BY LayerIs DEF Checked, Agrees, Sound

(* Each layer hands on a checked result: the lowest,                       *)
LEMMA WovrIsChecked ==
    ASSUME ParseWovr
    PROVE  Checked'
<1> DEFINE p == Section(file, "WOVR")
           got == [total |-> file.total, completed |-> ~file.partial,
                   spans |-> ReadSpans(p), overview |-> p.state, tiles |-> <<>>,
                   metadata |-> None, tempo |-> None, local |-> None, global |-> None]
<1>1. \/ \E status : status # "ok" /\ Fail(status, held)
      \/ /\ GeometryIsValid(file, p)
         /\ \E additional, blocks, provided, sound :
                Attach(additional, blocks, provided, sound, got, "harden")
  BY DEF ParseWovr
<1>2. ASSUME GeometryIsValid(file, p) PROVE Sound(got, "harden")
  BY <1>2 DEF Sound, Linked, Contradictory
<1> HIDE DEF got, p
<1> QED
  BY <1>1, <1>2, FailIsChecked, AttachIsChecked

(* the second look at the overview,                                        *)
LEMMA HardenIsChecked ==
    ASSUME Kept, Filed, Checked, HardenWovr
    PROVE  Checked'
<1>1. \/ Fail("out_of_memory", held) \/ Fail("corrupt", held)
      \/ Hardened(file, Section(file, "WOVR")) /\ Pass("detail", parse.got)
  BY DEF HardenWovr
<1>2. parse.layer = "harden"
  BY DEF HardenWovr
<1>3. Sound(parse.got, parse.layer)
  BY <1>2, LayerIsChecked DEF Layers
<1>4. Hardened(file, Section(file, "WOVR")) => Sound(parse.got, "detail")
  BY <1>2, <1>3 DEF Sound, Linked
<1> QED
  BY <1>1, <1>4, FailIsChecked, PassIsChecked

(* the detail tiles,                                                       *)
LEMMA DetailIsChecked ==
    ASSUME Kept, Filed, Checked, ParseDetail
    PROVE  Checked'
<1> DEFINE payloads == {PayloadAt(file, file.entries[i]) : i \in Sections(file, "WDTL")}
           tiles == SortedTiles(file)
           unique == \A i \in 2 .. Len(tiles) : tiles[i].index # tiles[i - 1].index
           got == [parse.got EXCEPT !.tiles = tiles]
<1>1. \/ Fail("corrupt", held) \/ Fail("out_of_memory", held)
      \/ Pass("metadata", parse.got)
      \/ /\ \A p \in payloads : \A t \in Range(p.tiles) : DescriptorIsValid(file, p, t)
         /\ \E additional, blocks, provided :
                Attach(additional, blocks, provided, unique, got, "metadata")
  BY Zenon DEF ParseDetail
<1>2. parse.layer = "detail"
  BY DEF ParseDetail
<1>3. /\ Sound(parse.got, parse.layer) /\ parse.got \in PublishedResults
      /\ Agrees(parse.got, parse.got)
  BY <1>2, LayerIsChecked DEF Layers
<1>4. Sound(parse.got, "metadata")
  <2>1. Linked(parse.got, "metadata")
    BY <1>3 DEF Sound, Linked
  <2> QED
    BY <1>2, <1>3, <2>1, AgreesIsSound
<1>5. IsFile(file) /\ ContainerStatus(file) = "ok"
  BY <1>2, LayerIs DEF Layers
<1>6. ASSUME \A p \in payloads : \A t \in Range(p.tiles) : DescriptorIsValid(file, p, t), unique
      PROVE  Sound(got, "metadata")
  <2>1. TilesAreValid(file)
    BY <1>6 DEF TilesAreValid
  <2>2. /\ tiles \in Seq(TilesAllowed(file)) /\ tiles \in Seq(TileParts)
        /\ \A k \in 2 .. Len(tiles) : tiles[k - 1].index <= tiles[k].index
    BY <1>5, <2>1, SortedTilesAre
  <2>3. /\ got.spans = parse.got.spans /\ got.overview = parse.got.overview
        /\ got.total = parse.got.total /\ got.tiles = tiles /\ got.tempo = parse.got.tempo
        /\ got.local = parse.got.local /\ got.global = parse.got.global
    BY <1>3 DEF PublishedResults
  <2> HIDE DEF tiles, got
  <2>4. \A i \in DOMAIN tiles : tiles[i] \in TilesAllowed(file)
    BY <2>2
  <2>5. ASSUME NEW i \in DOMAIN tiles PROVE TileFits(tiles, i)
    <3>1. StateIsAllowed(tiles[i].state, file.partial) /\ IsPlaced(file, tiles[i])
      BY <2>4 DEF TilesAllowed
    <3>2. ASSUME i > 1 PROVE tiles[i].index > tiles[i - 1].index
      <4>1. i \in 1 .. Len(tiles) /\ Len(tiles) \in Nat
        BY <2>2
      <4>2. i \in 2 .. Len(tiles) /\ i - 1 \in 1 .. Len(tiles)
        BY <3>2, <4>1
      <4>3. tiles[i] \in TileParts /\ tiles[i - 1] \in TileParts
        BY <2>2, <4>1, <4>2
      <4>4. tiles[i].index \in Nat /\ tiles[i - 1].index \in Nat
        BY <4>3 DEF TileParts
      <4>5. tiles[i - 1].index <= tiles[i].index /\ tiles[i].index # tiles[i - 1].index
        BY <1>6, <2>2, <4>2
      <4> QED
        BY <4>4, <4>5
    <3> QED
      BY <3>1, <3>2 DEF TileFits
  <2>6. Linked(got, "metadata")
    BY <1>3, <2>3 DEF Sound, Linked
  <2> QED
    BY <1>4, <2>3, <2>5, <2>6 DEF Sound
<1> HIDE DEF got, payloads, unique
<1>7. CASE Fail("corrupt", held) \/ Fail("out_of_memory", held) \/ Pass("metadata", parse.got)
  BY <1>4, <1>7, FailIsChecked, PassIsChecked
<1>8. CASE /\ \A p \in payloads : \A t \in Range(p.tiles) : DescriptorIsValid(file, p, t)
           /\ \E additional, blocks, provided :
                  Attach(additional, blocks, provided, unique, got, "metadata")
  BY <1>6, <1>8, AttachIsChecked
<1> QED
  BY <1>1, <1>7, <1>8

(* The layers above the detail.                                            *)
LEMMA UpperIsChecked ==
    ASSUME Kept, Filed, Checked, parse.layer \in Layers, parse.layer # "harden",
           NEW got, Agrees(got, parse.got), NEW next, Linked(got, next),
           \/ \E status : status # "ok" /\ Fail(status, held)
           \/ Pass(next, got)
           \/ \E additional, blocks, provided, sound :
                  Attach(additional, blocks, provided, sound, got, next)
    PROVE  Checked'
<1>1. Sound(parse.got, parse.layer)
  BY LayerIsChecked
<1>2. Sound(got, next)
  BY <1>1, AgreesIsSound
<1> QED
  BY <1>2, FailIsChecked, PassIsChecked, AttachIsChecked

(* the metadata,                                                           *)
LEMMA MetadataIsChecked ==
    ASSUME Kept, Filed, Checked, ParseMetadata
    PROVE  Checked'
<1> DEFINE got == [parse.got EXCEPT !.metadata = ReadItems(Section(file, "META"))]
<1>1. \/ Fail("corrupt", held)
      \/ Pass("tempo", parse.got)
      \/ \E additional, blocks, provided, sound :
            Attach(additional, blocks, provided, sound, got, "tempo")
  BY DEF ParseMetadata
<1>2. parse.layer \in Layers /\ parse.layer # "harden"
  BY DEF ParseMetadata, Layers
<1>3. /\ parse.got \in PublishedResults /\ Agrees(parse.got, parse.got)
      /\ Linked(parse.got, parse.layer)
  BY <1>2, LayerIsChecked
<1>4. Agrees(got, parse.got)
  BY <1>3 DEF PublishedResults, Agrees
<1>5. Linked(parse.got, "tempo") /\ Linked(got, "tempo")
  BY <1>3 DEF PublishedResults, Linked
<1> HIDE DEF got
<1>6. "corrupt" # "ok"
  OBVIOUS
<1> QED
  BY <1>1, <1>2, <1>3, <1>4, <1>5, <1>6, UpperIsChecked

(* the tempo,                                                              *)
LEMMA TempoIsChecked ==
    ASSUME Kept, Filed, Checked, ParseTempo
    PROVE  Checked'
<1> DEFINE t == Section(file, "TEMP").feature
           got == [parse.got EXCEPT !.tempo = t]
<1>1. \/ Fail("corrupt", held)
      \/ Pass("global", parse.got)
      \/ /\ Sections(file, "TEMP") # {}
         /\ \E additional, blocks, provided, sound :
               Attach(additional, blocks, provided, sound, got, "local")
  BY DEF ParseTempo
<1>2. parse.layer \in Layers /\ parse.layer # "harden"
  BY DEF ParseTempo, Layers
<1>3. /\ parse.got \in PublishedResults /\ Agrees(parse.got, parse.got)
      /\ Linked(parse.got, parse.layer)
  BY <1>2, LayerIsChecked
<1>4. Agrees(got, parse.got)
  BY <1>3 DEF PublishedResults, Agrees
<1>5. Linked(parse.got, "global")
  BY <1>3 DEF Linked
<1>6. ASSUME Sections(file, "TEMP") # {} PROVE Linked(got, "local")
  <2>1. t \in Tempos
    BY <1>2, <1>6, LayerIs, SectionIs, PayloadById DEF IsTemp
  <2>2. t # None
    BY <2>1, NoneIsOther
  <2>3. got.tempo = t
    BY <1>3 DEF PublishedResults
  <2> HIDE DEF got
  <2> QED
    BY <2>2, <2>3 DEF Linked
<1> HIDE DEF got
<1>7. "corrupt" # "ok"
  OBVIOUS
<1> QED
  BY <1>1, <1>2, <1>3, <1>4, <1>5, <1>6, <1>7, UpperIsChecked

(* the local grid,                                                         *)
LEMMA LocalIsChecked ==
    ASSUME Kept, Filed, Checked, ParseLocal
    PROVE  Checked'
<1> DEFINE got == [parse.got EXCEPT !.local = Section(file, "LGRD").feature]
<1>1. \/ Fail("corrupt", held)
      \/ Pass("global", parse.got)
      \/ \E additional, blocks, provided, sound :
            Attach(additional, blocks, provided, sound, got, "global")
  BY DEF ParseLocal
<1>2. parse.layer = "local" /\ parse.layer \in Layers /\ parse.layer # "harden"
  BY DEF ParseLocal, Layers
<1>3. /\ parse.got \in PublishedResults /\ Agrees(parse.got, parse.got)
      /\ Linked(parse.got, parse.layer)
  BY <1>2, LayerIsChecked
<1>4. Agrees(got, parse.got)
  BY <1>3 DEF PublishedResults, Agrees
<1>5. Linked(parse.got, "global") /\ Linked(got, "global")
  BY <1>2, <1>3 DEF PublishedResults, Linked
<1> HIDE DEF got
<1>6. "corrupt" # "ok"
  OBVIOUS
<1> QED
  BY <1>1, <1>2, <1>3, <1>4, <1>5, <1>6, UpperIsChecked

(* the global grid,                                                        *)
LEMMA GlobalIsChecked ==
    ASSUME Kept, Filed, Checked, ParseGlobal
    PROVE  Checked'
<1> DEFINE p == Section(file, "GGRD")
           grid == [state |-> p.state, segments |-> p.segments, beats |-> p.beats,
                    revision |-> [state |-> None, id |-> p.revision]]
           got == [parse.got EXCEPT !.global = grid]
<1>1. \/ Fail("corrupt", held)
      \/ Pass("ended", parse.got)
      \/ /\ parse.got.tempo # None
         /\ \E additional, blocks, provided, sound :
               Attach(additional, blocks, provided, sound, got, "revision")
  BY DEF ParseGlobal
<1>2. parse.layer = "global" /\ parse.layer \in Layers /\ parse.layer # "harden"
  BY DEF ParseGlobal, Layers
<1>3. /\ parse.got \in PublishedResults /\ Agrees(parse.got, parse.got)
      /\ Linked(parse.got, parse.layer) /\ Unread(parse.got, parse.layer)
  BY <1>2, LayerIsChecked
<1>4. Agrees(got, parse.got)
  BY <1>3 DEF PublishedResults, Agrees
<1>5. Linked(parse.got, "ended")
  BY <1>2, <1>3 DEF Linked, Unread, Contradictory
<1>6. ASSUME parse.got.tempo # None PROVE Linked(got, "revision")
  <2>1. got.global = grid /\ got.tempo = parse.got.tempo
    BY <1>3 DEF PublishedResults
  <2>2. grid.state = p.state
    OBVIOUS
  <2> HIDE DEF got, grid
  <2> QED
    BY <1>6, <2>1, <2>2 DEF Linked
<1> HIDE DEF got
<1>7. "corrupt" # "ok"
  OBVIOUS
<1> QED
  BY <1>1, <1>2, <1>3, <1>4, <1>5, <1>6, <1>7, UpperIsChecked

(* and its revision.                                                       *)
LEMMA RevisionIsChecked ==
    ASSUME Kept, Filed, Checked, ParseRevision
    PROVE  Checked'
<1> DEFINE p == Section(file, "REVN")
           got == [parse.got EXCEPT !.global.revision.state = p.state]
           grid == [parse.got.global EXCEPT !.revision.state = p.state]
<1>1. \/ Fail("corrupt", held)
      \/ RevisionIsValid(file, p, Section(file, "GGRD")) /\ Pass("ended", got)
  BY DEF ParseRevision
<1>2. parse.layer = "revision" /\ parse.layer \in Layers /\ parse.layer # "harden"
  BY DEF ParseRevision, Layers
<1>3. /\ parse.got \in PublishedResults /\ Agrees(parse.got, parse.got)
      /\ Linked(parse.got, parse.layer) /\ Unread(parse.got, parse.layer)
  BY <1>2, LayerIsChecked
<1>4. parse.got.global \in GlobalGrids
  BY <1>2, <1>3 DEF Unread, PublishedResults
<1>5. grid.state = parse.got.global.state /\ grid.revision.state = p.state
  <2>1. IsGlobal(parse.got.global)
    BY <1>4 DEF GlobalGrids, IsGlobal
  <2>2. grid = [state |-> parse.got.global.state, segments |-> parse.got.global.segments,
                beats |-> parse.got.global.beats,
                revision |-> [state |-> p.state, id |-> parse.got.global.revision.id]]
    BY <2>1 DEF IsGlobal
  <2> QED
    BY <2>2
<1>6. got = [parse.got EXCEPT !.global = grid]
  BY Zenon
<1> HIDE DEF grid, got
<1>7. Agrees(got, parse.got)
  BY <1>3, <1>6 DEF PublishedResults, Agrees
<1>8. /\ got.global = grid /\ got.tempo = parse.got.tempo /\ got.local = parse.got.local
      /\ parse.got.global # None
  BY <1>2, <1>3, <1>6 DEF PublishedResults, Unread
<1>9. ASSUME RevisionIsValid(file, p, Section(file, "GGRD")) PROVE Linked(got, "ended")
  <2>1. p.state = "applied" \/ grid.state # "final"
    BY <1>2, <1>3, <1>5, <1>9 DEF RevisionIsValid, Linked
  <2>2. ~Contradictory(got)
    BY <1>5, <1>8, <2>1 DEF Contradictory
  <2> QED
    BY <1>3, <1>8, <2>2 DEF Linked
<1>10. "corrupt" # "ok"
  OBVIOUS
<1> QED
  BY <1>1, <1>2, <1>3, <1>7, <1>9, <1>10, UpperIsChecked

(* What is handed from layer to layer is checked whatever the step.        *)
LEMMA CheckedStep == Kept /\ Filed /\ Checked /\ [Next]_vars => Checked'
<1> SUFFICES ASSUME Kept, Filed, Checked, [Next]_vars PROVE Checked'
  OBVIOUS
<1>1. CASE Parse
  BY <1>1, WovrIsChecked, HardenIsChecked, DetailIsChecked, MetadataIsChecked,
     TempoIsChecked, LocalIsChecked, GlobalIsChecked, RevisionIsChecked DEF Parse
<1>2. CASE \E r \in Results : Save(r)
  BY <1>2 DEF Save, Checked, Reading
<1>3. CASE Edit
  <2>1. parse.layer = "idle" /\ UNCHANGED parse
    BY <1>3, EditFrame DEF Edit
  <2> QED
    BY <2>1 DEF Checked, Reading
<1>4. CASE \E bytes \in Limits : Begin(bytes)
  BY <1>4 DEF Begin, Checked, Reading, Idle
<1>5. CASE Close
  BY <1>5 DEF Close, Checked, Reading, Idle
<1>6. CASE UNCHANGED vars
  BY <1>6 DEF vars, Checked, Reading, Sound, TileFits, Linked
<1> QED
  BY <1>1, <1>2, <1>3, <1>4, <1>5, <1>6 DEF Next

(* A result that is read as completed has nothing in it that may still     *)
(* change: every feature is final and the revision applied, and the        *)
(* columns of the overview are all there, each in its place, whatever      *)
(* another producer or a fault has made of the file.                       *)
THEOREM CompletedIsAlwaysFinal == Spec => []CompletedIsFinal
<1>1. Kept /\ Filed /\ Checked /\ Finality => CompletedIsFinal
  <2> SUFFICES ASSUME Kept, Filed, Checked, Finality, Accepted, parse.got.completed
               PROVE  /\ AllFinal(parse.got) /\ parse.got.total # Unknown
                      /\ DataOf(parse.got.spans) =
                            [i \in 1..Ceiling(parse.got.total, FramesPerColumn) |-> i - 1]
    BY DEF CompletedIsFinal
  <2> DEFINE got == parse.got
             p == Section(file, "WOVR")
  <2>1. Reading /\ parse.layer = "ended" /\ parse.status = "ok"
    BY DEF Accepted, Reading
  <2>2. Sound(got, "ended") /\ Handed(got, "ended")
    BY <2>1 DEF Checked, Finality
  <2>3. IsFile(file) /\ ContainerStatus(file) = "ok"
    BY <2>1 DEF Kept, Filed
  <2>4. ~file.partial /\ FeaturesAreFinal(got)
    BY <2>2 DEF Handed
  <2>5. got.global # None => got.global.revision.state = "applied"
    BY <2>2 DEF Handed
  <2>6. \A i \in DOMAIN got.tiles : got.tiles[i].state = "final"
    BY <2>2, <2>4 DEF Sound, TileFits, StateIsAllowed
  <2>7. AllFinal(got) /\ got.total # Unknown
    BY <2>4, <2>5, <2>6 DEF AllFinal, FeaturesAreFinal, GridIsFinal
  <2>8. IsWovr(p)
    BY <2>3, StatusIs, SectionIs, PayloadById
  <2>9. /\ GeometryIsValid(file, p) /\ Hardened(file, p) /\ p.state = "final"
        /\ file.total # Unknown /\ got.spans = ReadSpans(p) /\ got.total = file.total
    BY <2>2, <2>4 DEF Sound, FeaturesAreFinal
  <2> DEFINE s == DataOf(got.spans)
             m == Ceiling(got.total, FramesPerColumn)
  <2>10. Numbers(s, m) /\ s \in Seq(Nat)
    BY <2>8, <2>9, OverviewIsWhole
  <2> HIDE DEF s, m
  <2>11. s = [i \in 1 .. m |-> i - 1]
    <3>1. Len(s) = m /\ \A j \in 1 .. m : s[j] = j - 1
      BY <2>10 DEF Numbers
    <3> QED
      BY <2>10, <3>1
  <2> QED
    BY <2>7, <2>11 DEF s, m
<1>2. Init => Kept /\ Checked
  BY DEF Init, Kept, Checked, Reading, Idle
<1> QED
  BY <1>1, <1>2, KeptStep, CheckedStep, FiledAlways, HoldingAlways, InitFinality,
     FinalityStep, PTL DEF Spec

(* Whatever the readers accept the writers can write again.                *)
THEOREM ReadIsAlwaysWritable == Spec => []ReadIsWritable
<1>1. Kept /\ Filed /\ Checked => ReadIsWritable
  <2> SUFFICES ASSUME Kept, Filed, Checked, Accepted,
                      ~(/\ parse.got.total = Unknown
                        /\ \E i \in DOMAIN parse.got.tiles : parse.got.tiles[i].state = "final")
               PROVE  Refusal(parse.got) = "ok"
    BY DEF ReadIsWritable
  <2> DEFINE r == parse.got
             p == Section(file, "WOVR")
  <2>1. Reading /\ parse.layer = "ended" /\ parse.status = "ok"
    BY DEF Accepted, Reading
  <2>2. Sound(r, "ended")
    BY <2>1 DEF Checked
  <2>3. IsFile(file) /\ ContainerStatus(file) = "ok"
    BY <2>1 DEF Kept, Filed
  <2>4. IsWovr(p)
    BY <2>3, StatusIs, SectionIs, PayloadById
  <2>5. r.spans # <<>>
    <3>1. p.spans # <<>> /\ r.spans = ReadSpans(p) /\ SpansFit(p)
      BY <2>2, GeometryFits DEF Sound, GeometryIsValid
    <3>2. p.spans \in Seq(SpanFields)
      BY <2>4 DEF IsWovr
    <3>3. Len(p.spans) # 0
      BY <3>1, <3>2
    <3>4. Len(r.spans) = Len(p.spans)
      BY <2>4, <3>1, SpansAreRead
    <3>5. Len(<<>>) = 0
      OBVIOUS
    <3> QED
      BY <3>3, <3>4, <3>5
  <2>6. ASSUME NEW i \in DOMAIN r.tiles PROVE TileIsWritable(r, i)
    <3>1. TileFits(r.tiles, i) /\ r.total = file.total
      BY <2>2 DEF Sound
    <3>2. r.tiles[i].state = "final" => r.total # Unknown
      OBVIOUS
    <3> QED
      BY <3>1, <3>2 DEF TileFits, IsPlaced, TileIsWritable
  <2>7. /\ ~Contradictory(r)
        /\ r.local # None => r.tempo # None
        /\ r.global # None => r.tempo # None
    BY <2>2 DEF Sound, Linked
  <2> HIDE DEF r
  <2>8. Refusal(r) = IF \E i \in DOMAIN r.tiles : ~TileIsWritable(r, i) THEN "internal"
                     ELSE IF r.local # None /\ r.tempo = None THEN "internal"
                     ELSE IF r.global # None /\ r.tempo = None THEN "invalid_state"
                     ELSE "ok"
    BY <2>5, <2>7 DEF Refusal
  <2>9. Refusal(r) = "ok"
    BY <2>6, <2>7, <2>8
  <2> QED
    BY <2>9 DEF r
<1>2. Init => Kept /\ Checked
  BY DEF Init, Kept, Checked, Reading, Idle
<1> QED
  BY <1>1, <1>2, KeptStep, CheckedStep, FiledAlways, HoldingAlways, PTL DEF Spec

=============================================================================
