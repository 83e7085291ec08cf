------------------------------ MODULE Container ------------------------------
(* The container of a result: the layers of apta_result_serialize, each of *)
(* which takes the file of the layer below and inserts its sections, and   *)
(* the layers of apta_result_parse, each of which attaches the feature of  *)
(* its section to the result of the layer below or releases it.            *)
(*                                                                         *)
(* Offsets, sizes and the order of the sections are those of the format;   *)
(* the contents of a payload are the fields the readers check and the      *)
(* identities of its columns.  A checksum is the payload it was computed   *)
(* from.  Parsing is strict, and the count limits of the parse options are *)
(* not reached.                                                            *)
EXTENDS Integers, Sequences, FiniteSets, SequencesExt, FiniteSetsExt

CONSTANTS
    FramesPerColumn,    \* of the overview
    DetailFrames,       \* frames per column of a detail tile
    TileColumns,        \* columns of a detail tile
    SizeOf,             \* sizeof the structures a parsed result is made of
    Unknown,            \* APTA_TOTAL_FRAMES_UNKNOWN
    None,               \* a feature, a file or a result that is absent
    Results,            \* results that sessions have published
    Limits,             \* maximum_allocation_bytes of the parse calls
    MaxEdits            \* changes another producer or a fault makes to a file

Structures == {"result", "span", "column", "tile", "interval", "candidate", "range",
               "segment", "s6", "beat"}

ASSUME ContainerAssumption ==
    /\ FramesPerColumn \in Nat \ {0} /\ DetailFrames \in Nat \ {0}
    /\ TileColumns \in Nat \ {0} /\ SizeOf \in [Structures -> Nat \ {0}]
    /\ Limits \subseteq Nat /\ MaxEdits \in Nat

VARIABLES
    result,     \* the result the file was written from
    file,       \* the container in the caller's buffer
    meaning,    \* history: what a reader is to make of the file, None when open
    edits,      \* changes made to the file since it was written
    limit,      \* maximum_allocation_bytes of the parse in progress
    parse,      \* the layer the parse has reached, the result so far, its status
    held        \* blocks allocated in the context for the parsed result

vars == <<result, file, meaning, edits, limit, parse, held>>

-----------------------------------------------------------------------------
(* Results.  A span is [column, end, data] and a tile [index, column, end, *)
(* data, state]: the first column, the end frame, and the column values.   *)

States == {"partial", "provisional", "stable", "final"}

Texts == Seq([key : Nat, size : Nat])
Tempos == [state : States, value : Nat, candidates : Nat]
LocalGrids == [state : States, value : Nat]
GlobalGrids == [state : States, segments : Seq(States), beats : Nat,
                revision : [state : {"applied", "pending", None}, id : Nat]]

PublishedResults ==
    [total : Nat \cup {Unknown}, completed : BOOLEAN,
     spans : Seq([column : Nat, end : Nat, data : Seq(Nat)]), overview : States,
     tiles : Seq([index : Nat, column : Nat, end : Nat, data : Seq(Nat), state : States]),
     metadata : Texts \cup {None}, tempo : Tempos \cup {None},
     local : LocalGrids \cup {None}, global : GlobalGrids \cup {None}]

(* The value of an overview column is its number.                          *)
IsNumbered(span) == span.data = [k \in 1..Len(span.data) |-> span.column + k - 1]

(* The state of a revision is open only while a result is being read.      *)
ASSUME ResultsAssumption ==
    /\ Results \subseteq PublishedResults
    /\ \A r \in Results : /\ \A i \in DOMAIN r.spans : IsNumbered(r.spans[i])
                          /\ r.global # None => r.global.revision.state # None
    /\ None \notin PublishedResults \cup Texts \cup Tempos \cup LocalGrids \cup GlobalGrids

SumOver(S, Op(_)) == FoldSet(LAMBDA x, total : Op(x) + total, 0, S)
DataOf(parts) == FlattenSeq([i \in DOMAIN parts |-> parts[i].data])
Ceiling(a, b) == (a + b - 1) \div b

(* The end frame of a run of columns: the last column may be short.        *)
EndFrame(column, count, size, total) ==
    LET end == (column + count) * size
    IN IF total # Unknown /\ end > total THEN total ELSE end

(* One span for each maximal run of complete columns.                      *)
SpansOf(columns, total) ==
    LET starts == SetToSortSeq({c \in columns : c - 1 \notin columns},
                               LAMBDA a, b : a < b)
        count(c) == Min({n \in 1..Cardinality(columns) : c + n \notin columns})
    IN [i \in DOMAIN starts |->
            [column |-> starts[i],
             end |-> EndFrame(starts[i], count(starts[i]), FramesPerColumn, total),
             data |-> [k \in 1..count(starts[i]) |-> starts[i] + k - 1]]]

(* The view of a detail tile whose columns from first on are complete.     *)
TileOf(index, first, count, ended, total) ==
    LET column == index * TileColumns + first
        expected == IF ended /\ total < (index + 1) * TileColumns * DetailFrames
                    THEN Ceiling(total - index * TileColumns * DetailFrames, DetailFrames)
                    ELSE TileColumns
    IN [index |-> index, column |-> column,
        end |-> EndFrame(column, count, DetailFrames, total),
        data |-> [k \in 1..count |-> column + k - 1],
        state |-> IF first = 0 /\ count = expected
                  THEN IF ended THEN "final" ELSE "stable"
                  ELSE "partial"]

(* A published result.  The features of a completed session are final.     *)
Snapshot(session, total, columns, runs, metadata, tempo, local, global) ==
    LET ended == session # "active"
        completed == session = "completed"
        spans == SpansOf(columns, total)
        whole == ended /\ Len(spans) = 1 /\ spans[1].column = 0 /\ spans[1].end = total
        finalized(x) == IF completed /\ x # None THEN [x EXCEPT !.state = "final"] ELSE x
    IN [total |-> total, completed |-> completed, spans |-> spans,
        overview |-> IF whole THEN IF completed THEN "final" ELSE "stable" ELSE "partial",
        tiles |-> [i \in DOMAIN runs |->
                      TileOf(runs[i][1], runs[i][2], runs[i][3], ended, total)],
        metadata |-> metadata, tempo |-> finalized(tempo), local |-> finalized(local),
        global |-> IF completed /\ global # None
                   THEN [global EXCEPT !.state = "final",
                                       !.segments = [i \in DOMAIN @ |-> "final"]]
                   ELSE global]

-----------------------------------------------------------------------------
(* Payloads.                                                               *)

LogicalColumns(r) ==
    IF r.total # Unknown THEN Ceiling(r.total, FramesPerColumn)
    ELSE Max({r.spans[i].column + Len(r.spans[i].data) : i \in DOMAIN r.spans})

(* Columns are packed one span or tile after the other.                    *)
PackedBefore(parts, i) == Len(DataOf(SubSeq(parts, 1, i - 1)))

WovrPayload(r) ==
    [id |-> "WOVR", state |-> r.overview, columns |-> LogicalColumns(r),
     spans |-> [i \in DOMAIN r.spans |->
        [column |-> r.spans[i].column, end |-> r.spans[i].end,
         count |-> Len(r.spans[i].data), packed |-> PackedBefore(r.spans, i)]],
     data |-> DataOf(r.spans)]

WdtlPayload(tiles) ==
    [id |-> "WDTL",
     tiles |-> [i \in DOMAIN tiles |->
        [index |-> tiles[i].index, column |-> tiles[i].column, end |-> tiles[i].end,
         count |-> Len(tiles[i].data), packed |-> PackedBefore(tiles, i),
         state |-> tiles[i].state]],
     data |-> DataOf(tiles)]

(* The bytes of a CBOR head in its shortest form.                          *)
HeadSize(value) == IF value < 24 THEN 1 ELSE IF value <= 255 THEN 2 ELSE 3

(* Item 5, the creation time, is a number; the others are texts or bytes.  *)
TextBytes(item) == IF item.key = 5 THEN 0 ELSE item.size

MetaPayload(items) ==
    [id |-> "META",
     items |-> [i \in DOMAIN items |-> [key |-> items[i].key, size |-> items[i].size,
                                        head |-> HeadSize(items[i].size)]]]

TempPayload(t) == [id |-> "TEMP", feature |-> t]
LgrdPayload(g) == [id |-> "LGRD", feature |-> g]
GgrdPayload(g) == [id |-> "GGRD", state |-> g.state, segments |-> g.segments,
                   beats |-> g.beats, revision |-> g.revision.id]
RevnPayload(g) == [id |-> "REVN", state |-> g.revision.state, revision |-> g.revision.id,
                   segments |-> Len(g.segments), beats |-> g.beats]

PayloadSize(p) ==
    CASE p.id = "WOVR" -> 48 + 32 * Len(p.spans) + 10 * Len(p.data)
      [] p.id = "WDTL" -> 16 + 48 * Len(p.tiles) + 10 * Len(p.data)
      [] p.id = "META" -> HeadSize(Len(p.items))
                          + SumOver(DOMAIN p.items, LAMBDA i :
                                1 + p.items[i].head + TextBytes(p.items[i]))
      [] p.id = "TEMP" -> 56 + 16 * p.feature.candidates
      [] p.id = "LGRD" -> 144
      [] p.id = "GGRD" -> 96 + 80 * Len(p.segments) + 40 * p.beats
      [] p.id = "REVN" -> 80
      [] OTHER -> 8


-----------------------------------------------------------------------------
(* Writing.  An entry of the directory is [id, required, offset, size,     *)
(* crc]; chunks are the payloads where they lie in the buffer.             *)

HeaderSize == 96
EntrySize == 40
Align8(n) == Ceiling(n, 8) * 8

Entry(at, p) == [id |-> p.id, required |-> p.id = "WOVR", offset |-> at,
                 size |-> PayloadSize(p), crc |-> p]

(* The innermost layer: a container of one section.                        *)
WovrFile(r) ==
    LET p == WovrPayload(r)
        at == HeaderSize + EntrySize
    IN [length |-> at + PayloadSize(p), size |-> at + PayloadSize(p),
        total |-> r.total, unknown |-> r.total = Unknown,
        partial |-> r.overview # "final" \/ ~r.completed \/ r.total = Unknown,
        entries |-> <<Entry(at, p)>>, chunks |-> {[at |-> at, payload |-> p]}]

SectionOffsets(f, payloads) ==
    LET at[i \in DOMAIN payloads] ==
            Align8(IF i = 1 THEN f.size + EntrySize * Len(payloads)
                   ELSE at[i - 1] + PayloadSize(payloads[i - 1]))
    IN at

MutantMovedEntries(entries, shift) == entries
MovedEntries(entries, shift) ==
    [i \in DOMAIN entries |-> [entries[i] EXCEPT !.offset = @ + shift]]

(* An outer layer makes room in the directory, moves the payloads, corrects *)
(* the offsets of the entries and appends its own sections, each aligned.  *)
Extended(f, payloads) ==
    LET shift == EntrySize * Len(payloads)
        at == SectionOffsets(f, payloads)
        size == at[Len(payloads)] + PayloadSize(payloads[Len(payloads)])
    IN [f EXCEPT
          !.size = size, !.length = size,
          !.entries = MovedEntries(@, shift)
                      \o [i \in DOMAIN payloads |-> Entry(at[i], payloads[i])],
          !.chunks = {[c EXCEPT !.at = @ + shift] : c \in @}
                     \cup {[at |-> at[i], payload |-> payloads[i]] : i \in DOMAIN payloads}]

WithDetail(f, r) ==
    IF r.tiles = <<>> THEN f
    ELSE [Extended(f, <<WdtlPayload(r.tiles)>>) EXCEPT
            !.partial = @ \/ \E i \in DOMAIN r.tiles : r.tiles[i].state # "final"]

WithMetadata(f, r) ==
    IF r.metadata = None THEN f ELSE Extended(f, <<MetaPayload(r.metadata)>>)

WithTempo(f, r) ==
    CASE r.tempo = None -> f
      [] r.tempo # None /\ r.local = None -> Extended(f, <<TempPayload(r.tempo)>>)
      [] OTHER -> Extended(f, <<TempPayload(r.tempo), LgrdPayload(r.local)>>)

WithGlobal(f, r) ==
    IF r.global = None THEN f
    ELSE Extended(f, <<GgrdPayload(r.global), RevnPayload(r.global)>>)

(* Does a payload oblige the container to be flagged partial?              *)
Unfinished(p) ==
    CASE p.id \in {"WOVR", "REVN"} -> p.state \in {"partial", "provisional", "stable", "pending"}
      [] p.id = "WDTL" -> \E i \in DOMAIN p.tiles : p.tiles[i].state # "final"
      [] p.id \in {"TEMP", "LGRD"} -> p.feature.state # "final"
      [] p.id = "GGRD" -> p.state # "final"
                          \/ \E i \in DOMAIN p.segments : p.segments[i] # "final"
      [] OTHER -> FALSE

PatchAggregateState(f) ==
    [f EXCEPT !.partial = @ \/ \E c \in f.chunks : Unfinished(c.payload)]

(* apta_result_serialize, when Refusal(r) is "ok".                         *)
Serialized(r) ==
    PatchAggregateState(
        WithGlobal(WithTempo(WithMetadata(WithDetail(WovrFile(r), r), r), r), r))

TileIsWritable(r, i) ==
    LET t == r.tiles[i]
    IN /\ i > 1 => t.index > r.tiles[i - 1].index
       /\ t.data # <<>>
       /\ t.index * TileColumns <= t.column
       /\ t.column + Len(t.data) <= (t.index + 1) * TileColumns
       /\ t.end = EndFrame(t.column, Len(t.data), DetailFrames, r.total)
       /\ r.total # Unknown => t.end <= r.total
       /\ t.state = "final" => r.total # Unknown

(* A final grid with a revision still to be applied has no container form. *)
Contradictory(r) ==
    r.global # None /\ r.global.state = "final" /\ r.global.revision.state = "pending"

(* The answer of the layers, outermost first, then from the innermost out. *)
Refusal(r) ==
    CASE Contradictory(r) -> "invalid_state"
      [] ~Contradictory(r) /\ r.spans = <<>> -> "not_available"
      [] OTHER -> IF \E i \in DOMAIN r.tiles : ~TileIsWritable(r, i) THEN "internal"
                  ELSE IF r.local # None /\ r.tempo = None THEN "internal"
                  ELSE IF r.global # None /\ r.tempo = None THEN "invalid_state"
                  ELSE "ok"

-----------------------------------------------------------------------------
(* Reading: the checks of each layer.                                      *)

Standard == {"META", "WOVR", "WDTL", "TEMP", "LGRD", "GGRD", "REVN"}

(* The payload an entry points at; None when it covers other bytes.        *)
PayloadAt(f, e) ==
    LET found == {c \in f.chunks : c.at = e.offset}
    IN IF found = {} THEN None ELSE (CHOOSE c \in found : TRUE).payload

Sections(f, id) == {i \in DOMAIN f.entries : f.entries[i].id = id}
Section(f, id) == PayloadAt(f, f.entries[Min(Sections(f, id))])

ChecksumIsRight(f, e) == PayloadAt(f, e) = e.crc

EntryIsSound(f, i) ==
    LET e == f.entries[i]
    IN /\ e.id \in Standard => (e.required <=> e.id = "WOVR")
       /\ e.offset % 8 = 0 /\ e.offset + e.size <= f.length
       /\ e.offset >= HeaderSize + EntrySize * Len(f.entries)
       /\ \A j \in 1..(i - 1) : \/ f.entries[j].offset + f.entries[j].size <= e.offset
                                \/ e.offset + e.size <= f.entries[j].offset
       /\ ChecksumIsRight(f, e)
       /\ e.id = "WOVR" => i = Min(Sections(f, "WOVR"))

ContainerStatus(f) ==
    LET wrong == {i \in DOMAIN f.entries :
                    ~EntryIsSound(f, i)
                    \/ (f.entries[i].required /\ f.entries[i].id \notin Standard)}
    IN IF f.size # f.length \/ (f.unknown /\ ~f.partial) THEN "corrupt"
       ELSE IF wrong # {}
       THEN IF EntryIsSound(f, Min(wrong)) THEN "unsupported" ELSE "corrupt"
       ELSE IF Sections(f, "WOVR") = {} THEN "corrupt" ELSE "ok"

(* May a feature be in this state in a container flagged so?               *)
StateIsAllowed(state, partial) == partial \/ state = "final"

GeometryIsValid(f, p) ==
    LET last == Len(p.spans)
        end(i) == p.spans[i].column + p.spans[i].count
    IN /\ p.spans # <<>> /\ StateIsAllowed(p.state, f.partial)
       /\ p.state = "final" => f.total # Unknown
       /\ f.total # Unknown => p.columns = Ceiling(f.total, FramesPerColumn)
       /\ \A i \in DOMAIN p.spans :
            /\ p.spans[i].count > 0 /\ end(i) <= p.columns
            /\ p.spans[i].column * FramesPerColumn < p.spans[i].end
            /\ i > 1 => p.spans[i].column >= end(i - 1)
            /\ p.spans[i].end = EndFrame(p.spans[i].column, p.spans[i].count,
                                         FramesPerColumn, f.total)
            /\ p.spans[i].packed + p.spans[i].count <= Len(p.data)
       /\ p.state = "final" => end(last) = p.columns /\ p.spans[1].column = 0

(* Do the parts of a section claim disjoint columns of its data?           *)
PackedApart(parts) ==
    \A i, j \in DOMAIN parts :
        i # j => \/ parts[i].packed + parts[i].count <= parts[j].packed
                 \/ parts[j].packed + parts[j].count <= parts[i].packed

MutantHardened(f, p) == PackedApart(p.spans)
Hardened(f, p) ==
    /\ p.state = "final" =>
         /\ \A i \in 2..Len(p.spans) :
                p.spans[i].column = p.spans[i - 1].column + p.spans[i - 1].count
         /\ p.spans[Len(p.spans)].end = f.total
    /\ PackedApart(p.spans)

DescriptorIsValid(f, p, t) ==
    /\ t.count > 0 /\ StateIsAllowed(t.state, f.partial)
    /\ t.index * TileColumns <= t.column
    /\ t.column + t.count <= (t.index + 1) * TileColumns
    /\ t.column * DetailFrames < t.end
    /\ t.end = EndFrame(t.column, t.count, DetailFrames, f.total)
    /\ t.packed + t.count <= Len(p.data)

(* Items in ascending order of key, every head in its shortest form.       *)
ItemsAreValid(items) ==
    \A i \in DOMAIN items : /\ i > 1 => items[i].key > items[i - 1].key
                            /\ items[i].head = HeadSize(items[i].size)

GridIsAllowed(f, p) ==
    /\ StateIsAllowed(p.state, f.partial)
    /\ \A i \in DOMAIN p.segments : StateIsAllowed(p.segments[i], f.partial)

RevisionIsValid(f, p, grid) ==
    /\ p.state = "applied" \/ (f.partial /\ grid.state # "final")
    /\ p.segments = Len(grid.segments) /\ p.beats = grid.beats
    /\ p.revision = grid.revision

-----------------------------------------------------------------------------
(* Parts of a result as they are read from a payload.                      *)

Packed(p, part) == SubSeq(p.data, part.packed + 1, part.packed + part.count)

ReadSpans(p) ==
    [i \in DOMAIN p.spans |-> [column |-> p.spans[i].column, end |-> p.spans[i].end,
                               data |-> Packed(p, p.spans[i])]]

ReadTiles(p) ==
    [i \in DOMAIN p.tiles |->
        [index |-> p.tiles[i].index, column |-> p.tiles[i].column, end |-> p.tiles[i].end,
         data |-> Packed(p, p.tiles[i]), state |-> p.tiles[i].state]]

(* Tiles of all the sections in the order of the directory.                *)
AllTiles(f) ==
    FlattenSeq([i \in DOMAIN f.entries |->
        IF f.entries[i].id = "WDTL" THEN ReadTiles(PayloadAt(f, f.entries[i])) ELSE <<>>])

(* The members of S in the order R.                                        *)
Arranged(S, R) ==
    [k \in 1..Cardinality(S) |->
        CHOOSE i \in S : Cardinality({j \in S : <<j, i>> \in R}) = k - 1]

(* qsort leaves the order of equal indices open; they are refused anyway.  *)
SortedTiles(f) ==
    LET tiles == AllTiles(f)
        before == {e \in (DOMAIN tiles) \X (DOMAIN tiles) :
                      \/ tiles[e[1]].index < tiles[e[2]].index
                      \/ tiles[e[1]].index = tiles[e[2]].index /\ e[1] < e[2]}
        order == Arranged(DOMAIN tiles, before)
    IN [k \in DOMAIN order |-> tiles[order[k]]]

(* The items a reader knows.                                               *)
ReadItems(p) ==
    LET known == {i \in DOMAIN p.items : p.items[i].key \in 1..7}
        order == Arranged(known, {e \in known \X known : e[1] < e[2]})
    IN [k \in DOMAIN order |-> [key |-> p.items[order[k]].key,
                                size |-> p.items[order[k]].size]]

MutantAllocationBytes(r) ==
    IF r = None THEN 0
    ELSE SizeOf["result"] + SizeOf["span"] * Len(r.spans)
         + SizeOf["column"] * Len(DataOf(r.spans)) + SizeOf["tile"] * Len(r.tiles)

(* apta_internal_result_allocation_bytes: recomputed from the result.      *)
AllocationBytes(r) ==
    IF r = None THEN 0
    ELSE SizeOf["result"] + SizeOf["span"] * Len(r.spans)
         + SizeOf["column"] * (Len(DataOf(r.spans)) + Len(DataOf(r.tiles)))
         + SizeOf["tile"] * Len(r.tiles)
         + (IF r.metadata = None THEN 0
            ELSE SumOver(DOMAIN r.metadata, LAMBDA i : TextBytes(r.metadata[i])))
         + (IF r.tempo = None THEN 0 ELSE SizeOf["candidate"] * r.tempo.candidates)
         + (IF r.local = None THEN 0 ELSE SizeOf["range"] + SizeOf["segment"])
         + (IF r.global = None THEN 0
            ELSE SizeOf["s6"] + SizeOf["range"] + SizeOf["segment"] * Len(r.global.segments)
                 + SizeOf["beat"] * r.global.beats)

Fits(additional) == AllocationBytes(parse.got) + additional <= limit

Block(name, count, structure) == [name |-> name, bytes |-> count * SizeOf[structure]]
BytesOf(blocks) == SumOver(blocks, LAMBDA b : b.bytes)

MutantReachable == {"result", "spans", "columns", "tiles", "metadata", "candidates",
                    "coverage", "segments", "s6"}

(* Blocks apta_result_release finds from the result, and through s6.       *)
Reachable == {"result", "spans", "columns", "tiles", "detail_columns", "metadata",
              "candidates", "coverage", "segments", "s6"}
ReachableFromS6 == {"s6_coverage", "s6_segments", "s6_beats"}

(* The blocks that are left when the result made of them is released.      *)
Released(blocks) ==
    {b \in blocks : /\ b.name \notin Reachable
                    /\ b.name \in ReachableFromS6 => \A c \in blocks : c.name # "s6"}

-----------------------------------------------------------------------------
(* The life of a container.                                                *)

Idle == [layer |-> "idle", got |-> None, status |-> "ok"]

Init ==
    /\ result = None /\ file = None /\ meaning = None /\ edits = 0
    /\ limit = 0 /\ parse = Idle /\ held = {}

AllFinal(r) ==
    /\ r.overview = "final" /\ \A i \in DOMAIN r.tiles : r.tiles[i].state = "final"
    /\ r.tempo # None => r.tempo.state = "final"
    /\ r.local # None => r.local.state = "final"
    /\ r.global # None => /\ r.global.state = "final" /\ r.global.revision.state = "applied"
                          /\ \A i \in DOMAIN r.global.segments : r.global.segments[i] = "final"

(* What a reader is to make of the container of r: it has no session left, *)
(* and is complete only if every feature is final.                         *)
Meaning(r) == [r EXCEPT !.completed = r.completed /\ AllFinal(r) /\ r.total # Unknown]

(* apta_result_serialize                                                   *)
Save(r) ==
    /\ parse.layer = "idle" /\ file = None /\ Refusal(r) = "ok"
    /\ result' = r /\ file' = Serialized(r) /\ meaning' = Meaning(r)
    /\ UNCHANGED <<edits, limit, parse, held>>

(* A change that leaves the container valid and its contents the same.     *)
ChangeForm(f) ==
    /\ parse.layer = "idle" /\ file # None /\ edits < MaxEdits
    /\ file' = f /\ edits' = edits + 1
    /\ UNCHANGED <<result, meaning, limit, parse, held>>

(* A change that does not: what the readers make of it is open.            *)
ChangeContent(f) ==
    /\ parse.layer = "idle" /\ file # None /\ edits < MaxEdits
    /\ file' = f /\ edits' = edits + 1 /\ meaning' = None
    /\ UNCHANGED <<result, limit, parse, held>>

(* Other orders of the directory; GGRD and REVN stay side by side.         *)
Reorder ==
    \E i, j \in DOMAIN file.entries :
        LET swapped == [file.entries EXCEPT ![i] = file.entries[j], ![j] = file.entries[i]]
            f == [file EXCEPT !.entries = swapped]
            paired == \A k \in Sections(f, "GGRD") : k + 1 \in Sections(f, "REVN")
        IN i < j /\ (IF paired THEN ChangeForm(f) ELSE ChangeContent(f))

(* A section of another vendor.                                            *)
AddVendorSection ==
    \E required \in BOOLEAN :
        LET f == Extended(file, <<[id |-> "VEND"]>>)
            entries == [f.entries EXCEPT ![Len(f.entries)].required = required]
            flagged == [f EXCEPT !.entries = entries]
        IN IF required THEN ChangeContent(flagged) ELSE ChangeForm(flagged)

(* The tiles grouped in two sections.                                      *)
Regroup ==
    /\ edits = 0 /\ Len(result.tiles) > 1
    /\ LET front == [result EXCEPT !.tiles = SubSeq(@, 1, 1)]
           f == Extended(Serialized(front), <<WdtlPayload(Tail(result.tiles))>>)
       IN ChangeForm([f EXCEPT !.partial = file.partial])

(* A length of the metadata in a longer form, an item unknown to readers.  *)
RewriteMetadata ==
    /\ edits = 0 /\ result.metadata # None
    /\ LET bare == Serialized([result EXCEPT !.metadata = None])
           p == MetaPayload(result.metadata)
           longer == [p.items EXCEPT ![1].head = @ + 1]
           unknown == Append(p.items, [key |-> 9, size |-> 1, head |-> 1])
       IN \/ ChangeContent(Extended(bare, <<[p EXCEPT !.items = longer]>>))
          \/ ChangeForm(Extended(bare, <<[p EXCEPT !.items = unknown]>>))

DropSection ==
    \E i \in DOMAIN file.entries : ChangeContent([file EXCEPT !.entries = RemoveAt(@, i)])

RepeatSection ==
    \E c \in file.chunks : c.payload # None /\ ChangeContent(Extended(file, <<c.payload>>))

ClearPartial == file.partial /\ ChangeContent([file EXCEPT !.partial = FALSE])
Truncate == ChangeContent([file EXCEPT !.length = @ - 8])
Damage == \E c \in file.chunks :
    ChangeContent([file EXCEPT !.chunks = (@ \ {c}) \cup {[c EXCEPT !.payload = None]}])

(* Contents another producer may have written in the place of p.           *)
Variants(p) ==
    IF p = None THEN {}
    ELSE CASE p.id = "WOVR" ->
                {[p EXCEPT !.state = "final"],
                 [p EXCEPT !.spans = [i \in DOMAIN @ |-> [@[i] EXCEPT !.packed = 0]]]}
           [] p.id = "WDTL" ->
                {[p EXCEPT !.tiles = [i \in DOMAIN @ |-> [@[i] EXCEPT !.packed = 0]]],
                 [p EXCEPT !.tiles = [i \in DOMAIN @ |-> [@[i] EXCEPT !.state = "final"]]],
                 [p EXCEPT !.tiles = Reverse(@)]}
           [] p.id = "LGRD" -> {[p EXCEPT !.feature.value = @ + 1]}
           [] p.id = "REVN" -> {[p EXCEPT !.state = "pending"], [p EXCEPT !.revision = @ + 1]}
           [] OTHER -> {}

Forge ==
    \E c \in file.chunks : \E p \in Variants(c.payload) :
        /\ p # c.payload
        /\ ChangeContent([file EXCEPT
              !.chunks = (@ \ {c}) \cup {[c EXCEPT !.payload = p]},
              !.entries = [i \in DOMAIN @ |-> IF @[i].offset = c.at /\ @[i].id = p.id
                                              THEN [@[i] EXCEPT !.crc = p] ELSE @[i]]])

Edit ==
    /\ parse.layer = "idle" /\ file # None /\ edits < MaxEdits
    /\ \/ Reorder \/ AddVendorSection \/ Regroup \/ RewriteMetadata \/ DropSection
       \/ RepeatSection \/ ClearPartial \/ Truncate \/ Damage \/ Forge

(* apta_result_parse                                                       *)
Begin(bytes) ==
    /\ parse.layer = "idle" /\ file # None
    /\ limit' = bytes /\ parse' = [Idle EXCEPT !.layer = "wovr"]
    /\ UNCHANGED <<result, file, meaning, edits, held>>

CallerFrame == UNCHANGED <<result, file, meaning, edits, limit>>

Pass(next, got) ==
    /\ parse' = [layer |-> next, got |-> got, status |-> "ok"]
    /\ UNCHANGED held /\ CallerFrame

(* A layer that fails releases the result of the layer below.              *)
Fail(status, blocks) ==
    /\ parse' = [layer |-> "ended", got |-> None, status |-> status]
    /\ held' = Released(blocks) /\ CallerFrame

(* A layer checks the limit, allocates its blocks, of which it gets those  *)
(* in have, and reads the section, which it may still find corrupt.        *)
Attach(additional, blocks, provided, sound, got, next) ==
    IF ~Fits(additional) THEN Fail("limit", held)
    ELSE \E have \in provided :
            IF have # blocks \/ ~sound
            THEN Fail(IF have # blocks THEN "out_of_memory" ELSE "corrupt", held \cup have)
            ELSE /\ parse' = [layer |-> next, got |-> got, status |-> "ok"]
                 /\ held' = held \cup blocks /\ CallerFrame

(* Allocations that stop at the first failure.                             *)
InOrder(blocks) == {Range(SubSeq(blocks, 1, n)) : n \in 0..Len(blocks)}

ParseWovr ==
    /\ parse.layer = "wovr"
    /\ IF ContainerStatus(file) # "ok" THEN Fail(ContainerStatus(file), held)
       ELSE LET p == Section(file, "WOVR")
                columns == SumOver(DOMAIN p.spans, LAMBDA i : p.spans[i].count)
                blocks == <<Block("result", 1, "result"),
                            Block("spans", Len(p.spans), "span"),
                            Block("columns", columns, "column")>>
                got == [total |-> file.total, completed |-> ~file.partial,
                        spans |-> ReadSpans(p), overview |-> p.state, tiles |-> <<>>,
                        metadata |-> None, tempo |-> None, local |-> None, global |-> None]
            IN IF ~GeometryIsValid(file, p) THEN Fail("corrupt", held)
               ELSE Attach(BytesOf(Range(blocks)), Range(blocks), InOrder(blocks), TRUE,
                           got, "harden")

(* The intervals it sorts are a temporary block of their own.              *)
HardenWovr ==
    /\ parse.layer = "harden"
    /\ \/ Fail("out_of_memory", held)
       \/ IF Hardened(file, Section(file, "WOVR")) THEN Pass("detail", parse.got)
          ELSE Fail("corrupt", held)

(* The descriptors first, then the limit, then the packed columns apart,   *)
(* for which it sorts intervals in a temporary block that counts.          *)
ParseDetail ==
    /\ parse.layer = "detail"
    /\ LET payloads == {PayloadAt(file, file.entries[i]) : i \in Sections(file, "WDTL")}
           tiles == SortedTiles(file)
           columns == Len(DataOf(tiles))
           blocks == <<Block("tiles", Len(tiles), "tile"),
                       Block("detail_columns", columns, "column")>>
           intervals == Block("intervals", Len(tiles), "interval")
           unique == \A i \in 2..Len(tiles) : tiles[i].index # tiles[i - 1].index
           additional == BytesOf(Range(blocks) \cup {intervals})
       IN IF payloads = {} THEN Pass("metadata", parse.got)
          ELSE IF \E p \in payloads : \E t \in Range(p.tiles) : ~DescriptorIsValid(file, p, t)
          THEN Fail("corrupt", held)
          ELSE \/ Fits(additional) /\ Fail("out_of_memory", held)
               \/ IF Fits(additional) /\ \E p \in payloads : ~PackedApart(p.tiles)
                  THEN Fail("corrupt", held)
                  ELSE Attach(additional, Range(blocks), InOrder(blocks), unique,
                              [parse.got EXCEPT !.tiles = tiles], "metadata")

ParseMetadata ==
    /\ parse.layer = "metadata"
    /\ IF Sections(file, "META") = {} THEN Pass("tempo", parse.got)
       ELSE IF \/ Cardinality(Sections(file, "META")) > 1
               \/ ~ItemsAreValid(Section(file, "META").items)
       THEN Fail("corrupt", held)
       ELSE LET items == ReadItems(Section(file, "META"))
                bytes == SumOver(DOMAIN items, LAMBDA i : TextBytes(items[i]))
                blocks == IF bytes = 0 THEN {} ELSE {[name |-> "metadata", bytes |-> bytes]}
            IN Attach(bytes, blocks, {{}, blocks}, TRUE,
                      [parse.got EXCEPT !.metadata = items], "tempo")

ParseTempo ==
    /\ parse.layer = "tempo"
    /\ LET temp == Sections(file, "TEMP")
           grid == Sections(file, "LGRD")
           t == Section(file, "TEMP").feature
           blocks == {Block("candidates", t.candidates, "candidate")}
       IN IF Cardinality(temp) > 1 \/ Cardinality(grid) > 1 \/ (grid # {} /\ temp = {})
          THEN Fail("corrupt", held)
          ELSE IF temp = {} THEN Pass("global", parse.got)
          ELSE IF ~StateIsAllowed(t.state, file.partial) THEN Fail("corrupt", held)
          ELSE Attach(BytesOf(blocks), blocks, {{}, blocks}, TRUE,
                      [parse.got EXCEPT !.tempo = t], "local")

(* Both blocks are asked for before either is examined.                    *)
ParseLocal ==
    /\ parse.layer = "local"
    /\ LET g == Section(file, "LGRD").feature
           blocks == {Block("coverage", 1, "range"), Block("segments", 1, "segment")}
       IN IF Sections(file, "LGRD") = {} THEN Pass("global", parse.got)
          ELSE IF \/ ~StateIsAllowed(g.state, file.partial)
                  \/ (Fits(BytesOf(blocks)) /\ g.value # parse.got.tempo.value)
          THEN Fail("corrupt", held)
          ELSE Attach(BytesOf(blocks), blocks, SUBSET blocks, TRUE,
                      [parse.got EXCEPT !.local = g], "global")

ParseGlobal ==
    /\ parse.layer = "global"
    /\ LET grids == Sections(file, "GGRD")
           p == Section(file, "GGRD")
           s6 == Block("s6", 1, "s6")
           parts == {Block("s6_coverage", 1, "range"),
                     Block("s6_segments", Len(p.segments), "segment")}
                    \cup (IF p.beats = 0 THEN {} ELSE {Block("s6_beats", p.beats, "beat")})
           blocks == parts \cup {s6}
           got == [parse.got EXCEPT !.global =
                      [state |-> p.state, segments |-> p.segments, beats |-> p.beats,
                       revision |-> [state |-> None, id |-> p.revision]]]
       IN IF \/ Cardinality(grids) > 1 \/ Sections(file, "REVN") # {i + 1 : i \in grids}
             \/ (grids # {} /\ parse.got.tempo = None)
          THEN Fail("corrupt", held)
          ELSE IF grids = {} THEN Pass("ended", parse.got)
          ELSE IF ~StateIsAllowed(p.state, file.partial) THEN Fail("corrupt", held)
          ELSE Attach(BytesOf(blocks), blocks,
                      {{}} \cup {have \cup {s6} : have \in SUBSET parts},
                      GridIsAllowed(file, p), got, "revision")

ParseRevision ==
    /\ parse.layer = "revision"
    /\ LET p == Section(file, "REVN")
       IN IF RevisionIsValid(file, p, Section(file, "GGRD"))
          THEN Pass("ended", [parse.got EXCEPT !.global.revision.state = p.state])
          ELSE Fail("corrupt", held)

Close ==
    /\ parse.layer = "ended"
    /\ held' = (IF parse.status # "ok" THEN held ELSE Released(held))
    /\ result' = None /\ file' = None /\ meaning' = None /\ edits' = 0
    /\ limit' = 0 /\ parse' = Idle

Parse ==
    \/ ParseWovr \/ HardenWovr \/ ParseDetail \/ ParseMetadata
    \/ ParseTempo \/ ParseLocal \/ ParseGlobal \/ ParseRevision

Next ==
    \/ \E r \in Results : Save(r)
    \/ Edit
    \/ \E bytes \in Limits : Begin(bytes)
    \/ Parse
    \/ Close

Spec == Init /\ [][Next]_vars

-----------------------------------------------------------------------------
(* Properties.                                                             *)

Accepted == parse.layer = "ended" /\ parse.status = "ok"

(* A container written by the library, its directory reordered, its tiles  *)
(* regrouped or sections of other vendors added, is read back as what was  *)
(* saved: through six layers of writers that move each other's sections    *)
(* and six of readers that find them, only memory can make it fail.  From  *)
(* what was read the writers write the canonical container again.          *)
ValidIsRead ==
    (parse.layer = "ended" /\ meaning # None) =>
        /\ parse.status \in {"ok", "limit", "out_of_memory"}
        /\ parse.status = "ok" => /\ parse.got = meaning
                                  /\ Serialized(parse.got) = Serialized(result)

(* Whatever the readers accept the writers can write again: tiles of any   *)
(* sections in any order come out sorted, apart and in place, and no grid  *)
(* without its tempo.  The exception is a final tile of a source of unknown *)
(* length, which only the writer refuses.                                  *)
ReadIsWritable ==
    Accepted => \/ Refusal(parse.got) = "ok"
                \/ /\ parse.got.total = Unknown
                   /\ \E i \in DOMAIN parse.got.tiles : parse.got.tiles[i].state = "final"

(* A result read as completed has nothing in it that may still change:     *)
(* every feature is final, the overview whole, no revision pending.        *)
CompletedIsFinal ==
    (Accepted /\ parse.got.completed) =>
        /\ AllFinal(parse.got) /\ parse.got.total # Unknown
        /\ DataOf(parse.got.spans) =
              [i \in 1..Ceiling(parse.got.total, FramesPerColumn) |-> i - 1]

(* A parse that fails, in whichever layer and with whatever allocated, and *)
(* a result that is released leave no block behind in the context.         *)
NothingLeaks == (parse.layer \in {"idle", "wovr"} \/ parse.status # "ok") => held = {}

(* The blocks of a parsed result stay within the limit of the call, and    *)
(* are what the next layer takes them to be when it recomputes their size. *)
AllocationIsBounded ==
    BytesOf(held) <= limit /\ BytesOf(held) = AllocationBytes(parse.got)
=============================================================================
