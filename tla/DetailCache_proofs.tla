--------------------------- MODULE DetailCache_proofs ---------------------------
(***************************************************************************)
(* Proofs about DetailCache, for any number of slots, columns and frames.  *)
(* First the geometry of tiles and the order of use, then what one sample  *)
(* does to a well formed cache, then the blocks of samples that a push and *)
(* a replay feed, the runs a refresh selects, and the theorems.            *)
(***************************************************************************)
EXTENDS DetailCache, RequestScheduler_proofs

---------------------------------------------------------------------------
(* The inductive invariant.                                                *)

(* A resident tile: its run is an interval of its complete columns.        *)
IsTile(t) ==
    /\ t = [index |-> t.index, sample_count |-> t.sample_count, complete |-> t.complete,
            run |-> t.run, heard |-> t.heard]
    /\ t.index \in {TileOf(f) : f \in Frames}
    /\ t.sample_count \in [TileColumns -> Nat]
    /\ t.complete \subseteq TileColumns
    /\ t.run = {} \/ t.run \in RunsWithin(t.complete)
    /\ t.heard \subseteq Frames

Occupied(slots) == {s \in Slots : slots[s] # NoTile}

(* The slots hold distinct tiles.                                          *)
SlotsOK(slots) ==
    /\ slots = [s \in Slots |-> slots[s]]
    /\ \A s \in Slots : slots[s] = NoTile \/ IsTile(slots[s])
    /\ \A r, s \in Occupied(slots) : slots[r].index = slots[s].index => r = s

(* The order of use lists every occupied slot once.                        *)
OrderOK(order, S) ==
    /\ order \in Seq(S)
    /\ \A s \in S : \E k \in DOMAIN order : order[k] = s
    /\ \A k, l \in DOMAIN order : order[k] = order[l] => k = l

CacheOK(cache) == SlotsOK(cache.tiles) /\ OrderOK(cache.recency, Occupied(cache.tiles))

HeardOf(t, c) == t.heard \cap ColumnFrames(t.index, c)
Full(t, c) == ColumnFrames(t.index, c) \subseteq t.heard

(* The count of a column is the number of its frames heard, all of them    *)
(* accepted, until the column is full.                                     *)
Exact(t, c, got) ==
    t.sample_count[c] = Cardinality(HeardOf(t, c)) /\ HeardOf(t, c) \subseteq got

ColumnOK(t, c, got) ==
    /\ t.sample_count[c] = 0 <=> HeardOf(t, c) = {}
    /\ Full(t, c) \/ Exact(t, c, got)

CountsOK(slots, got) ==
    \A s \in Occupied(slots) :
        /\ \A c \in TileColumns : ColumnOK(slots[s], c, got)
        /\ \A c \in slots[s].complete : Full(slots[s], c)

IsRow(r) ==
    /\ r = [first |-> r.first, end |-> r.end, priority |-> r.priority,
            deadline |-> r.deadline, state |-> r.state, skips |-> r.skips]
    /\ r.first \in Nat /\ r.end \in Nat /\ r.priority \in Nat

RowsOK(rows) ==
    /\ \E n \in Nat : rows = [i \in 1 .. n |-> rows[i]]
    /\ \A i \in DOMAIN rows : IsRow(rows[i])

SteeringOK == RowsOK(requests) /\ focus \in Foci \cup {NoFocus}

Inv ==
    /\ state \in {"ACTIVE", "DRAINING", "COMPLETED"}
    /\ total_frames \in {Unknown, TrackFrames}
    /\ final_end_frame \in {Unknown, TrackFrames}
    /\ accepted \subseteq Frames
    /\ detail_due \in BOOLEAN
    /\ failures \in 0 .. MaxFailures
    /\ SteeringOK
    /\ CacheOK(ThisCache)
    /\ CountsOK(tiles, accepted)

---------------------------------------------------------------------------
(* The geometry of tiles.                                                  *)

LEMMA Sizes ==
    /\ TrackFrames \in Nat \ {0} /\ FramesPerColumn \in Nat \ {0}
    /\ ColumnsPerTile \in Nat \ {0} /\ MaxTiles \in Nat \ {0}
    /\ TileFrames \in Nat \ {0} /\ MaxPush \in Nat \ {0}
<1>1. /\ TrackFrames \in Nat \ {0} /\ FramesPerColumn \in Nat \ {0}
      /\ ColumnsPerTile \in Nat \ {0} /\ MaxTiles \in Nat \ {0} /\ MaxPush \in Nat \ {0}
  BY DetailAssumption, SchedulerAssumption
<1>2. ASSUME NEW a \in Nat \ {0}, NEW b \in Nat \ {0} PROVE a * b \in Nat \ {0}
  OBVIOUS
<1> QED
  BY <1>1, <1>2 DEF TileFrames

LEMMA DivisionIs ==
    ASSUME NEW x \in Nat, NEW d \in Nat \ {0}
    PROVE  /\ x \div d \in Nat /\ x % d \in 0 .. d - 1
           /\ x = (x \div d) * d + (x % d)
OBVIOUS

LEMMA DivisionIsUnique ==
    ASSUME NEW q \in Nat, NEW d \in Nat \ {0}, NEW r \in 0 .. d - 1
    PROVE  (q * d + r) \div d = q /\ (q * d + r) % d = r
<1> DEFINE x == q * d + r
           p == x \div d
           t == x % d
<1>1. x \in Nat
  OBVIOUS
<1>2. p \in Nat /\ t \in 0 .. d - 1 /\ x = p * d + t
  BY <1>1, DivisionIs
<1>3. ASSUME NEW a \in Nat, NEW b \in Nat, a < b PROVE a * d + d <= b * d
  <2>1. \E k \in Nat : b = a + 1 + k
    BY <1>3
  <2>2. PICK k \in Nat : b = a + 1 + k
    BY <2>1
  <2>3. b * d = a * d + d + k * d /\ k * d \in Nat /\ a * d \in Nat
    BY <2>2
  <2> QED
    BY <2>3
<1> HIDE DEF x, p, t
<1>4. p * d \in Nat /\ q * d \in Nat
  BY <1>2
<1>5. ~(p < q)
  <2> SUFFICES ASSUME p < q PROVE FALSE
    OBVIOUS
  <2>1. p * d + d <= q * d
    BY <1>2, <1>3
  <2> QED
    BY <2>1, <1>2, <1>4 DEF x
<1>6. ~(q < p)
  <2> SUFFICES ASSUME q < p PROVE FALSE
    OBVIOUS
  <2>1. q * d + d <= p * d
    BY <1>2, <1>3
  <2> QED
    BY <2>1, <1>2, <1>4 DEF x
<1>7. p = q
  BY <1>2, <1>5, <1>6
<1>8. t = r
  BY <1>2, <1>4, <1>7 DEF x
<1> QED
  BY <1>7, <1>8 DEF p, t, x

(* A column of a tile, counted from the start of the source.               *)
Wide(index, column) == index * ColumnsPerTile + column

LEMMA WideColumn ==
    ASSUME NEW i \in Nat, NEW c \in TileColumns
    PROVE  /\ Wide(i, c) \in Nat
           /\ Wide(i, c) \div ColumnsPerTile = i /\ Wide(i, c) % ColumnsPerTile = c
           /\ ColumnFirst(i, c) = Wide(i, c) * FramesPerColumn
           /\ ColumnFirst(i, c) \in Nat
<1>1. FramesPerColumn \in Nat \ {0} /\ ColumnsPerTile \in Nat \ {0}
  BY Sizes
<1>2. c \in 0 .. ColumnsPerTile - 1 /\ c \in Nat
  BY <1>1 DEF TileColumns
<1>3. Wide(i, c) \in Nat
  BY <1>1, <1>2 DEF Wide
<1>4. Wide(i, c) \div ColumnsPerTile = i /\ Wide(i, c) % ColumnsPerTile = c
  BY <1>1, <1>2, DivisionIsUnique DEF Wide
<1>5. ASSUME NEW a \in Nat, NEW b \in Nat PROVE i * (a * b) + c * a = (i * b + c) * a
  BY <1>2
<1>6. ColumnFirst(i, c) = Wide(i, c) * FramesPerColumn
  BY <1>1, <1>5 DEF ColumnFirst, Wide, TileFrames
<1>7. ASSUME NEW a \in Nat, NEW b \in Nat PROVE a * b \in Nat
  OBVIOUS
<1> QED
  BY <1>1, <1>3, <1>4, <1>6, <1>7

(* A frame lies in the column that its tile and column numbers name.       *)
LEMMA FrameColumn ==
    ASSUME NEW f \in Nat
    PROVE  /\ TileOf(f) \in Nat /\ ColumnOf(f) \in TileColumns
           /\ Wide(TileOf(f), ColumnOf(f)) = f \div FramesPerColumn
<1> DEFINE q == TileOf(f)
           m == f % TileFrames
           c == ColumnOf(f)
           r == m % FramesPerColumn
<1>1. FramesPerColumn \in Nat \ {0} /\ ColumnsPerTile \in Nat \ {0} /\ TileFrames \in Nat \ {0}
  BY Sizes
<1>2. q \in Nat /\ m \in 0 .. TileFrames - 1 /\ f = q * TileFrames + m
  BY <1>1, DivisionIs DEF TileOf
<1>3. m \in Nat
  BY <1>1, <1>2
<1>4. c \in Nat /\ r \in 0 .. FramesPerColumn - 1 /\ m = c * FramesPerColumn + r
  BY <1>1, <1>3, DivisionIs DEF ColumnOf
<1> HIDE DEF q, m, c, r
<1>5. c \in TileColumns
  <2> SUFFICES ASSUME c >= ColumnsPerTile PROVE FALSE
    BY <1>1, <1>4 DEF TileColumns
  <2>1. ASSUME NEW a \in Nat, NEW b \in Nat, NEW k \in Nat, a >= b PROVE a * k >= k * b
    <3>1. PICK j \in Nat : a = b + j
      <4>1. a - b \in Nat /\ a = b + (a - b)
        BY <2>1
      <4> QED
        BY <4>1
    <3>2. a * k = k * b + j * k /\ j * k \in Nat /\ k * b \in Nat
      BY <3>1
    <3> QED
      BY <3>2
  <2>2. c * FramesPerColumn >= FramesPerColumn * ColumnsPerTile
    BY <2>1, <1>1, <1>4
  <2>3. c * FramesPerColumn \in Nat
    BY <1>1, <1>4
  <2> QED
    BY <2>2, <2>3, <1>2, <1>4, <1>1 DEF TileFrames
<1>6. f = Wide(q, c) * FramesPerColumn + r
  <2>1. ASSUME NEW a \in Nat, NEW b \in Nat PROVE q * (a * b) + (c * a + r) = (q * b + c) * a + r
    BY <1>2, <1>4
  <2> QED
    BY <2>1, <1>1, <1>2, <1>4 DEF Wide, TileFrames
<1>7. Wide(q, c) \in Nat
  BY <1>2, <1>5, WideColumn
<1>8. Wide(q, c) = f \div FramesPerColumn
  BY <1>1, <1>4, <1>6, <1>7, DivisionIsUnique
<1> QED
  BY <1>2, <1>5, <1>8 DEF q, c

(* The frames of a column are an interval.                                 *)
LEMMA ColumnIsInterval ==
    ASSUME NEW i \in Nat, NEW c \in TileColumns, NEW f \in Nat
    PROVE  (TileOf(f) = i /\ ColumnOf(f) = c) <=>
               ColumnFirst(i, c) <= f /\ f < ColumnFirst(i, c) + FramesPerColumn
<1> DEFINE g == f \div FramesPerColumn
           r == f % FramesPerColumn
           w == Wide(i, c)
<1>1. FramesPerColumn \in Nat \ {0} /\ ColumnsPerTile \in Nat \ {0}
  BY Sizes
<1>2. g \in Nat /\ r \in 0 .. FramesPerColumn - 1 /\ f = g * FramesPerColumn + r
  BY <1>1, DivisionIs
<1>3. /\ w \in Nat /\ w \div ColumnsPerTile = i /\ w % ColumnsPerTile = c
      /\ ColumnFirst(i, c) = w * FramesPerColumn /\ w * FramesPerColumn \in Nat
  BY WideColumn
<1>4. TileOf(f) \in Nat /\ ColumnOf(f) \in TileColumns /\ Wide(TileOf(f), ColumnOf(f)) = g
  BY FrameColumn
<1>5. g \div ColumnsPerTile = TileOf(f) /\ g % ColumnsPerTile = ColumnOf(f)
  BY <1>4, WideColumn
<1> HIDE DEF g, w
<1>6. (TileOf(f) = i /\ ColumnOf(f) = c) <=> g = w
  BY <1>3, <1>4, <1>5 DEF w
<1>7. ASSUME g = w
      PROVE  w * FramesPerColumn <= f /\ f < w * FramesPerColumn + FramesPerColumn
  BY <1>1, <1>2, <1>3, <1>7
<1>8. ASSUME w * FramesPerColumn <= f, f < w * FramesPerColumn + FramesPerColumn
      PROVE  g = w
  <2>1. f - w * FramesPerColumn \in 0 .. FramesPerColumn - 1
        /\ f = w * FramesPerColumn + (f - w * FramesPerColumn)
    BY <1>1, <1>3, <1>8
  <2>2. (w * FramesPerColumn + (f - w * FramesPerColumn)) \div FramesPerColumn = w
    BY <2>1, <1>1, <1>3, DivisionIsUnique
  <2> QED
    BY <2>1, <2>2 DEF g
<1> QED
  BY <1>3, <1>6, <1>7, <1>8

LEMMA ColumnFramesAre ==
    ASSUME NEW i \in Nat, NEW c \in TileColumns
    PROVE  /\ ColumnFrames(i, c) = {f \in Frames : /\ ColumnFirst(i, c) <= f
                                                   /\ f < ColumnFirst(i, c) + FramesPerColumn}
           /\ IsFiniteSet(ColumnFrames(i, c)) /\ Cardinality(ColumnFrames(i, c)) \in Nat
<1>1. Frames \subseteq Nat /\ IsFiniteSet(Frames)
  <2>1. IsFiniteSet(0 .. TrackFrames - 1)
    BY Sizes, FS_Interval
  <2> QED
    BY <2>1 DEF Frames
<1>2. ColumnFrames(i, c) = {f \in Frames : /\ ColumnFirst(i, c) <= f
                                           /\ f < ColumnFirst(i, c) + FramesPerColumn}
  BY <1>1, ColumnIsInterval DEF ColumnFrames
<1>3. IsFiniteSet(ColumnFrames(i, c))
  <2>1. ColumnFrames(i, c) \in SUBSET Frames
    BY DEF ColumnFrames
  <2> QED
    BY <1>1, <2>1, FS_Subset
<1> QED
  BY <1>2, <1>3, FS_CardinalityType

(* The number of samples that completes a column is at least the number of *)
(* frames of the source in it.                                             *)
LEMMA ExpectedIsEnough ==
    ASSUME NEW i \in Nat, NEW c \in TileColumns, NEW end \in {Unknown, TrackFrames}
    PROVE  Cardinality(ColumnFrames(i, c)) <= ExpectedColumnFrames(i, c, end)
<1> DEFINE first == ColumnFirst(i, c)
           C == ColumnFrames(i, c)
           E == {f \in 0 .. FramesPerColumn - 1 : end = Unknown \/ first + f < end}
           shift == [f \in C |-> f - first]
<1>1. first \in Nat
  BY WideColumn
<1>2. C = {f \in Frames : first <= f /\ f < first + FramesPerColumn}
  BY ColumnFramesAre
<1>3. IsFiniteSet(0 .. FramesPerColumn - 1)
      /\ Cardinality(0 .. FramesPerColumn - 1) = FramesPerColumn
  <2>1. 0 \in Int /\ FramesPerColumn - 1 \in Int /\ ~(0 > FramesPerColumn - 1)
        /\ (FramesPerColumn - 1) - 0 + 1 = FramesPerColumn
    BY Sizes
  <2> QED
    BY <2>1, FS_Interval
<1>4. IsFiniteSet(E)
  <2>1. E \in SUBSET (0 .. FramesPerColumn - 1)
    OBVIOUS
  <2> QED
    BY <1>3, <2>1, FS_Subset
<1>5. shift \in Injection(C, E)
  <2>1. ASSUME NEW f \in C PROVE f - first \in E /\ f \in Nat
    <3>1. f \in Nat /\ f < TrackFrames /\ first <= f /\ f < first + FramesPerColumn
      BY <1>2, Sizes DEF Frames
    <3>2. f - first \in 0 .. FramesPerColumn - 1 /\ first + (f - first) = f
      BY <3>1, <1>1, Sizes
    <3> QED
      BY <3>1, <3>2
  <2>2. shift \in [C -> E]
    BY <2>1
  <2>3. \A a, b \in C : shift[a] = shift[b] => a = b
    <3> SUFFICES ASSUME NEW a \in C, NEW b \in C, a - first = b - first PROVE a = b
      OBVIOUS
    <3> QED
      BY <2>1, <1>1
  <2> QED
    BY <2>2, <2>3 DEF Injection, IsInjective
<1> HIDE DEF shift
<1>6. Cardinality(C) <= Cardinality(E)
  BY <1>4, <1>5, FS_Injection
<1>7. CASE end = Unknown
  <2>1. E = 0 .. FramesPerColumn - 1
    BY <1>7
  <2> QED
    BY <1>3, <1>6, <1>7, <2>1 DEF ExpectedColumnFrames
<1>8. CASE end # Unknown
  <2>1. E = {f \in 0 .. FramesPerColumn - 1 : ColumnFirst(i, c) + f < end}
    BY <1>8
  <2> QED
    BY <1>6, <1>8, <2>1 DEF ExpectedColumnFrames
<1> QED
  BY <1>7, <1>8

---------------------------------------------------------------------------
(* The order of use.                                                       *)

LEMMA MostRecentIsOK ==
    ASSUME NEW order, NEW S, OrderOK(order, S), NEW slot
    PROVE  OrderOK(MostRecent(order, slot), S \cup {slot})
<1> DEFINE n == Len(order)
           next == MostRecent(order, slot)
           at == CHOOSE k \in DOMAIN order : order[k] = slot
<1>1. /\ n \in Nat /\ DOMAIN order = 1 .. n /\ \A k \in 1 .. n : order[k] \in S
      /\ \A s \in S : \E k \in 1 .. n : order[k] = s
      /\ \A k, l \in 1 .. n : order[k] = order[l] => k = l
  BY DEF OrderOK
<1>2. CASE \A k \in DOMAIN order : order[k] # slot
  <2>1. next = Append(order, slot)
    BY <1>2 DEF MostRecent
  <2>2. order \in Seq(S \cup {slot})
    BY DEF OrderOK
  <2>3. /\ next \in Seq(S \cup {slot}) /\ DOMAIN next = 1 .. n + 1
        /\ \A k \in 1 .. n : next[k] = order[k]
        /\ next[n + 1] = slot
    BY <2>1, <2>2, <1>1
  <2> HIDE DEF next, n
  <2>4. \A s \in S \cup {slot} : \E k \in DOMAIN next : next[k] = s
    <3> SUFFICES ASSUME NEW s \in S \cup {slot} PROVE \E k \in 1 .. n + 1 : next[k] = s
      BY <2>3
    <3>1. CASE s = slot
      BY <3>1, <2>3, <1>1
    <3>2. CASE s # slot
      <4>1. PICK k \in 1 .. n : order[k] = s
        BY <3>2, <1>1
      <4>2. k \in 1 .. n + 1
        BY <1>1
      <4> QED
        BY <4>1, <4>2, <2>3
    <3> QED
      BY <3>1, <3>2
  <2>5. ASSUME NEW k \in 1 .. n + 1, NEW l \in 1 .. n + 1, next[k] = next[l] PROVE k = l
    <3>1. \A j \in 1 .. n : next[j] # slot
      BY <1>1, <1>2, <2>3
    <3>2. (k \in 1 .. n \/ k = n + 1) /\ (l \in 1 .. n \/ l = n + 1)
      BY <1>1
    <3>3. CASE k \in 1 .. n /\ l \in 1 .. n
      BY <3>3, <2>3, <2>5, <1>1
    <3> QED
      BY <3>1, <3>2, <3>3, <2>3, <2>5
  <2> QED
    BY <2>3, <2>4, <2>5 DEF OrderOK, next
<1>3. CASE ~ \A k \in DOMAIN order : order[k] # slot
  <2>1. at \in 1 .. n /\ order[at] = slot
    BY <1>1, <1>3
  <2>2. slot \in S /\ S \cup {slot} = S
    BY <2>1, <1>1
  <2> HIDE DEF at
  <2>3. next = [k \in 1 .. n |-> IF k = n THEN slot ELSE order[IF k < at THEN k ELSE k + 1]]
    BY <1>1, <1>3 DEF MostRecent, at
  <2> HIDE DEF next, n
  <2>4. \A k \in 1 .. n : next[k] \in S
    <3> SUFFICES ASSUME NEW k \in 1 .. n PROVE next[k] \in S
      OBVIOUS
    <3>1. CASE k = n
      BY <3>1, <2>2, <2>3
    <3>2. CASE k # n
      <4>1. (IF k < at THEN k ELSE k + 1) \in 1 .. n
        BY <3>2, <1>1, <2>1
      <4>2. next[k] = order[IF k < at THEN k ELSE k + 1]
        BY <2>3, <3>2
      <4> QED
        BY <4>1, <4>2, <1>1
    <3> QED
      BY <3>1, <3>2
  <2>5. next \in Seq(S) /\ DOMAIN next = 1 .. n
    <3>1. next \in [1 .. n -> S]
      BY <2>3, <2>4
    <3> QED
      BY <3>1, <1>1, SeqDef
  <2>6. ASSUME NEW s \in S PROVE \E k \in 1 .. n : next[k] = s
    <3>1. PICK j \in 1 .. n : order[j] = s
      BY <1>1
    <3>2. CASE j < at
      <4>1. j # n
        BY <3>2, <2>1, <1>1
      <4> QED
        BY <4>1, <3>1, <3>2, <2>3
    <3>3. CASE j = at
      <4>1. n \in 1 .. n /\ next[n] = slot
        BY <2>1, <2>3, <1>1
      <4> QED
        BY <4>1, <3>1, <3>3, <2>1
    <3>4. CASE j > at
      <4>1. j - 1 \in 1 .. n /\ j - 1 # n /\ ~(j - 1 < at) /\ (j - 1) + 1 = j
        BY <3>4, <2>1, <1>1
      <4>2. next[j - 1] = order[j]
        BY <4>1, <2>3
      <4> QED
        BY <4>1, <4>2, <3>1
    <3> QED
      BY <3>2, <3>3, <3>4, <2>1, <1>1
  <2>7. ASSUME NEW k \in 1 .. n, NEW l \in 1 .. n, next[k] = next[l] PROVE k = l
    <3> DEFINE From(j) == IF j = n THEN at ELSE IF j < at THEN j ELSE j + 1
    <3>1. \A j \in 1 .. n : From(j) \in 1 .. n /\ next[j] = order[From(j)]
      <4> SUFFICES ASSUME NEW j \in 1 .. n
                   PROVE  From(j) \in 1 .. n /\ next[j] = order[From(j)]
        OBVIOUS
      <4>1. From(j) \in 1 .. n
        BY <2>1, <1>1
      <4>2. CASE j = n
        BY <4>1, <4>2, <2>1, <2>3
      <4>3. CASE j # n
        BY <4>1, <4>3, <2>3
      <4> QED
        BY <4>1, <4>2, <4>3
    <3>2. From(k) = From(l)
      <4> HIDE DEF From
      <4> QED
        BY <3>1, <2>7, <1>1
    <3> QED
      BY <3>2, <2>1, <1>1
  <2> QED
    BY <2>2, <2>5, <2>6, <2>7 DEF OrderOK, next
<1> QED
  BY <1>2, <1>3

LEMMA OldestIsOne ==
    ASSUME NEW order, NEW S, OrderOK(order, S), NEW T, T \subseteq S, T # {}
    PROVE  Oldest(order, T) \in T
<1> DEFINE K == {k \in DOMAIN order : order[k] \in T}
<1>1. K \subseteq Nat /\ K # {}
  BY DEF OrderOK
<1>2. SmallestOf(K) \in K
  <2> HIDE DEF K
  <2> QED
    BY <1>1, SmallestIsFirst
<1> QED
  BY <1>2 DEF Oldest

(* The slot a newcomer takes.  A resident tile makes room only in a full   *)
(* cache, and a protected one only among protected tiles.                  *)
LEMMA VictimIs ==
    ASSUME NEW cache, CacheOK(cache), NEW index, NEW slot, slot = VictimSlot(cache, index),
           slot # NoSlot
    PROVE  /\ slot \in Slots
           /\ cache.tiles[slot] # NoTile =>
                  /\ \A s \in Slots : cache.tiles[s] # NoTile
                  /\ Protected(cache.tiles[slot].index) =>
                         Protected(index) /\ \A s \in Slots : Protected(cache.tiles[s].index)
<1> DEFINE empty == {s \in Slots : cache.tiles[s] = NoTile}
           unprotected == {s \in Slots \ empty : ~Protected(cache.tiles[s].index)}
<1>0. Slots \subseteq Nat /\ Slots # {}
  BY Sizes DEF Slots
<1>1. slot = IF empty # {} THEN SmallestOf(empty)
             ELSE IF unprotected # {} THEN Oldest(cache.recency, unprotected)
             ELSE IF ~Protected(index) THEN NoSlot
             ELSE Oldest(cache.recency, Slots)
  BY DEF VictimSlot
<1>2. CASE empty # {}
  <2>1. empty \subseteq Nat
    BY <1>0
  <2>2. slot = SmallestOf(empty)
    BY <1>1, <1>2
  <2>3. slot \in empty
    <3> HIDE DEF empty
    <3> QED
      BY <2>1, <2>2, <1>2, SmallestIsFirst
  <2> QED
    BY <2>3
<1>3. CASE empty = {}
  <2>1. Occupied(cache.tiles) = Slots
    BY <1>3 DEF Occupied
  <2>2. OrderOK(cache.recency, Slots)
    BY <2>1 DEF CacheOK
  <2>3. CASE unprotected # {}
    <3>1. unprotected \subseteq Slots
      OBVIOUS
    <3>2. slot = Oldest(cache.recency, unprotected)
      BY <1>1, <1>3, <2>3
    <3>3. slot \in unprotected
      <4> HIDE DEF unprotected
      <4> QED
        BY <2>2, <2>3, <3>1, <3>2, OldestIsOne
    <3> QED
      BY <3>3, <1>3
  <2>4. CASE unprotected = {}
    <3>1. Protected(index) /\ slot = Oldest(cache.recency, Slots)
      BY <1>1, <1>3, <2>4
    <3>2. slot \in Slots
      BY <3>1, <2>2, <1>0, OldestIsOne
    <3> QED
      BY <3>1, <3>2, <1>3, <2>4
  <2> QED
    BY <2>3, <2>4
<1> QED
  BY <1>2, <1>3

---------------------------------------------------------------------------
(* One sample.                                                             *)

LEMMA NoTileIsNone ==
    /\ NoTile.index = -1
    /\ \A t : IsTile(t) => t # NoTile /\ t.index \in Nat
<1>1. NoTile.index = -1
  BY DEF NoTile
<1>2. ASSUME NEW t, IsTile(t) PROVE t.index \in Nat
  <2>1. PICK f \in Frames : t.index = TileOf(f)
    BY <1>2 DEF IsTile
  <2>2. f \in Nat
    BY Sizes DEF Frames
  <2> QED
    BY <2>1, <2>2, FrameColumn
<1> QED
  BY <1>1, <1>2

LEMMA CountedTile ==
    ASSUME NEW t, IsTile(t), NEW f \in Frames, TileOf(f) = t.index
    PROVE  LET u == CountSample(t, f)
           IN  /\ IsTile(u)
               /\ u.index = t.index /\ u.run = t.run /\ u.complete = t.complete
               /\ u.heard = t.heard \cup {f}
               /\ \A c \in TileColumns :
                      u.sample_count[c] = IF c = ColumnOf(f) THEN t.sample_count[c] + 1
                                          ELSE t.sample_count[c]
<1> DEFINE u == CountSample(t, f)
           col == ColumnOf(f)
           counts == [t.sample_count EXCEPT ![col] = t.sample_count[col] + 1]
<1>0. f \in Nat
  BY Sizes DEF Frames
<1>1. col \in TileColumns
  BY <1>0, FrameColumn
<1>2. t.sample_count \in [TileColumns -> Nat]
  BY DEF IsTile
<1> HIDE DEF col
<1>3. counts \in [TileColumns -> Nat]
      /\ \A c \in TileColumns : counts[c] = IF c = col THEN t.sample_count[c] + 1
                                            ELSE t.sample_count[c]
  BY <1>1, <1>2
<1>4. u = [index |-> t.index, sample_count |-> counts, complete |-> t.complete,
           run |-> t.run, heard |-> t.heard \cup {f}]
  <2>1. t = [index |-> t.index, sample_count |-> t.sample_count, complete |-> t.complete,
             run |-> t.run, heard |-> t.heard]
    BY DEF IsTile
  <2>2. u = [t EXCEPT !.sample_count = counts, !.heard = t.heard \cup {f}]
    BY Zenon DEF CountSample, col
  <2> HIDE DEF counts, u
  <2> QED
    BY <2>1, <2>2
<1> HIDE DEF u, counts
<1>5. /\ u.index = t.index /\ u.run = t.run /\ u.complete = t.complete
      /\ u.heard = t.heard \cup {f} /\ u.sample_count = counts
  BY <1>4
<1>6. IsTile(u)
  BY <1>3, <1>4, <1>5 DEF IsTile
<1> QED
  BY <1>3, <1>5, <1>6 DEF u, col

LEMMA FreshIsTile ==
    ASSUME NEW f \in Frames
    PROVE  /\ IsTile(FreshTile(TileOf(f))) /\ FreshTile(TileOf(f)).index = TileOf(f)
           /\ FreshTile(TileOf(f)).run = {} /\ FreshTile(TileOf(f)).complete = {}
           /\ FreshTile(TileOf(f)).heard = {}
           /\ \A c \in TileColumns : FreshTile(TileOf(f)).sample_count[c] = 0
BY DEF IsTile, FreshTile

(* A sample of a resident tile is counted in it.                           *)
Hits(cache, next, frame, slot) ==
    /\ cache.tiles[slot] # NoTile /\ cache.tiles[slot].index = TileOf(frame)
    /\ next.tiles = [cache.tiles EXCEPT ![slot] = CountSample(cache.tiles[slot], frame)]
    /\ next.due = cache.due

(* A sample of a tile that is not resident starts it in a victim's slot.   *)
Misses(cache, next, frame, slot) ==
    /\ ~HasTile(cache.tiles, TileOf(frame))
    /\ slot = VictimSlot(cache, TileOf(frame))
    /\ next.tiles = [cache.tiles EXCEPT ![slot] = CountSample(FreshTile(TileOf(frame)), frame)]
    /\ next.due = (cache.due \/ EvictionIsVisible(cache.tiles[slot]))

(* A sample that finds no slot leaves the cache alone.                     *)
Denied(cache, next, frame) ==
    /\ ~HasTile(cache.tiles, TileOf(frame))
    /\ VictimSlot(cache, TileOf(frame)) = NoSlot
    /\ next.tiles = cache.tiles /\ next.recency = cache.recency /\ next.due = cache.due

IsCache(cache) ==
    /\ cache = [tiles |-> cache.tiles, recency |-> cache.recency, due |-> cache.due,
                stopped |-> cache.stopped]
    /\ cache.due \in BOOLEAN /\ cache.stopped \in BOOLEAN

LEMMA SampleIs ==
    ASSUME NEW cache, IsCache(cache), CacheOK(cache), NEW frame \in Frames,
           NEW next, next = ProcessSample(cache, frame)
    PROVE  /\ IsCache(next) /\ CacheOK(next)
           /\ \/ \E slot \in Slots : Hits(cache, next, frame, slot)
              \/ \E slot \in Slots : Misses(cache, next, frame, slot)
              \/ Denied(cache, next, frame)
<1> DEFINE index == TileOf(frame)
           hit == HasTile(cache.tiles, index)
           slot == IF hit THEN SlotOf(cache.tiles, index) ELSE VictimSlot(cache, index)
           tile == IF hit THEN cache.tiles[slot] ELSE FreshTile(index)
           counted == CountSample(tile, frame)
<1>0. index \in Nat /\ 0 \notin Slots /\ NoSlot = 0
  <2>1. frame \in Nat
    BY Sizes DEF Frames
  <2> QED
    BY <2>1, FrameColumn DEF Slots, NoSlot
<1>1. CASE slot = NoSlot
  <2>1. ~hit
    BY <1>0, <1>1 DEF HasTile, SlotOf
  <2>2. next = [cache EXCEPT !.stopped = TRUE]
    BY <1>1 DEF ProcessSample
  <2>3. next = [tiles |-> cache.tiles, recency |-> cache.recency, due |-> cache.due,
                stopped |-> TRUE]
    BY <2>2 DEF IsCache
  <2>4. IsCache(next) /\ CacheOK(next)
    BY <2>3 DEF IsCache, CacheOK
  <2>5. Denied(cache, next, frame)
    BY <2>1, <2>3, <1>1 DEF Denied
  <2> QED
    BY <2>4, <2>5
<1>2. CASE slot # NoSlot
  <2>1. next = [tiles |-> [cache.tiles EXCEPT ![slot] = counted],
                recency |-> MostRecent(cache.recency, slot),
                due |-> cache.due \/ (~hit /\ EvictionIsVisible(cache.tiles[slot])),
                stopped |-> FALSE]
    BY <1>2 DEF ProcessSample
  <2>2. /\ next.tiles = [cache.tiles EXCEPT ![slot] = counted]
        /\ next.recency = MostRecent(cache.recency, slot)
        /\ next.due = (cache.due \/ (~hit /\ EvictionIsVisible(cache.tiles[slot])))
    <3> HIDE DEF hit, slot, counted
    <3> QED
      BY <2>1
  <2>3. IsCache(next)
    <3> HIDE DEF hit, slot, counted
    <3> QED
      BY <2>1, <2>2 DEF IsCache, EvictionIsVisible
  <2>4. SlotsOK(cache.tiles) /\ OrderOK(cache.recency, Occupied(cache.tiles))
    BY DEF CacheOK
  <2>5. ASSUME hit
        PROVE  slot \in Slots /\ cache.tiles[slot].index = index /\ cache.tiles[slot] # NoTile
    <3>1. slot \in Slots /\ cache.tiles[slot].index = index
      BY <2>5 DEF HasTile, SlotOf
    <3> QED
      BY <3>1, <1>0, NoTileIsNone
  <2>6. ASSUME ~hit PROVE slot \in Slots /\ slot = VictimSlot(cache, index)
    <3>1. slot = VictimSlot(cache, index)
      BY <2>6
    <3> HIDE DEF slot, index
    <3> QED
      BY <3>1, <1>2, VictimIs
  <2>7. slot \in Slots
    BY <2>5, <2>6
  <2>8. IsTile(tile) /\ tile.index = index
    <3>1. CASE hit
      <4>1. tile = cache.tiles[slot]
        BY <3>1
      <4> QED
        BY <4>1, <3>1, <2>4, <2>5 DEF SlotsOK
    <3>2. CASE ~hit
      BY <3>2, FreshIsTile
    <3> QED
      BY <3>1, <3>2
  <2>9. IsTile(counted) /\ counted.index = index /\ counted # NoTile
    <3> HIDE DEF tile
    <3> QED
      BY <2>8, CountedTile, NoTileIsNone
  <2> HIDE DEF tile, counted
  <2>10. /\ DOMAIN next.tiles = Slots /\ next.tiles[slot] = counted
         /\ next.tiles = [s \in Slots |-> next.tiles[s]]
         /\ \A s \in Slots \ {slot} : next.tiles[s] = cache.tiles[s]
    <3> HIDE DEF slot
    <3> QED
      BY <2>2, <2>4, <2>7 DEF SlotsOK
  <2>11. Occupied(next.tiles) = Occupied(cache.tiles) \cup {slot}
    <3> HIDE DEF slot
    <3> QED
      BY <2>7, <2>9, <2>10 DEF Occupied
  <2>12. \A s \in Occupied(cache.tiles) \ {slot} : cache.tiles[s].index # index
    <3> SUFFICES ASSUME NEW s \in Occupied(cache.tiles) \ {slot}, cache.tiles[s].index = index
                 PROVE  FALSE
      OBVIOUS
    <3>1. hit /\ s \in Slots
      BY DEF HasTile, Occupied
    <3>2. slot \in Occupied(cache.tiles) /\ cache.tiles[slot].index = index
      BY <3>1, <2>5 DEF Occupied
    <3> HIDE DEF slot, index
    <3> QED
      BY <3>2, <2>4 DEF SlotsOK
  <2>13. SlotsOK(next.tiles)
    <3>1. \A s \in Slots : next.tiles[s] = NoTile \/ IsTile(next.tiles[s])
      <4> HIDE DEF slot
      <4> QED
        BY <2>4, <2>9, <2>10 DEF SlotsOK
    <3>2. ASSUME NEW r \in Occupied(next.tiles), NEW s \in Occupied(next.tiles),
                 next.tiles[r].index = next.tiles[s].index
          PROVE  r = s
      <4> HIDE DEF slot, index
      <4>0. r \in Slots /\ s \in Slots
        BY DEF Occupied
      <4>1. CASE r = slot /\ s = slot
        BY <4>1
      <4>2. CASE r = slot /\ s # slot
        <5>1. s \in Occupied(cache.tiles) \ {slot} /\ next.tiles[s] = cache.tiles[s]
          BY <4>0, <4>2, <2>10, <2>11
        <5> QED
          BY <5>1, <4>2, <3>2, <2>9, <2>10, <2>12
      <4>3. CASE r # slot /\ s = slot
        <5>1. r \in Occupied(cache.tiles) \ {slot} /\ next.tiles[r] = cache.tiles[r]
          BY <4>0, <4>3, <2>10, <2>11
        <5> QED
          BY <5>1, <4>3, <3>2, <2>9, <2>10, <2>12
      <4>4. CASE r # slot /\ s # slot
        <5>1. /\ r \in Occupied(cache.tiles) /\ next.tiles[r] = cache.tiles[r]
              /\ s \in Occupied(cache.tiles) /\ next.tiles[s] = cache.tiles[s]
          BY <4>0, <4>4, <2>10, <2>11
        <5> QED
          BY <5>1, <3>2, <2>4 DEF SlotsOK
      <4> QED
        BY <4>1, <4>2, <4>3, <4>4
    <3> QED
      BY <3>1, <3>2, <2>10 DEF SlotsOK
  <2>14. CacheOK(next)
    <3>1. OrderOK(next.recency, Occupied(next.tiles))
      <4> HIDE DEF slot
      <4> QED
        BY <2>2, <2>4, <2>11, MostRecentIsOK
    <3> QED
      BY <3>1, <2>13 DEF CacheOK
  <2>15. CASE hit
    <3>1. next.tiles = [cache.tiles EXCEPT ![slot] = CountSample(cache.tiles[slot], frame)]
      BY <2>2, <2>15 DEF counted, tile
    <3>2. next.due = cache.due
      <4> HIDE DEF slot
      <4> QED
        BY <2>2, <2>15 DEF IsCache
    <3>3. Hits(cache, next, frame, slot)
      <4> HIDE DEF slot
      <4> QED
        BY <3>1, <3>2, <2>5, <2>15 DEF Hits
    <3> HIDE DEF slot
    <3> QED
      BY <3>3, <2>3, <2>7, <2>14
  <2>16. CASE ~hit
    <3>1. next.tiles = [cache.tiles EXCEPT ![slot] = CountSample(FreshTile(index), frame)]
      BY <2>2, <2>16 DEF counted, tile
    <3>2. next.due = (cache.due \/ EvictionIsVisible(cache.tiles[slot]))
      <4> HIDE DEF slot
      <4> QED
        BY <2>2, <2>16
    <3>3. Misses(cache, next, frame, slot)
      <4> HIDE DEF slot
      <4> QED
        BY <3>1, <3>2, <2>6, <2>16 DEF Misses
    <3> HIDE DEF slot
    <3> QED
      BY <3>3, <2>3, <2>7, <2>14
  <2> QED
    BY <2>15, <2>16
<1> QED
  BY <1>1, <1>2

---------------------------------------------------------------------------
(* A block of samples.                                                     *)

(* Induction over an interval, as a fact about sets.                       *)
LEMMA Induction ==
    ASSUME NEW n \in Nat, NEW T \in SUBSET (0 .. n), 0 \in T,
           \A i \in 1 .. n : i - 1 \in T => i \in T
    PROVE  T = 0 .. n
<1> SUFFICES ASSUME (0 .. n) \ T # {} PROVE FALSE
  OBVIOUS
<1>1. PICK x \in (0 .. n) \ T : \A y \in (0 .. n) \ T : x <= y
  <2>1. (0 .. n) \ T \subseteq Nat
    OBVIOUS
  <2> QED
    BY <2>1, SmallestExists
<1>2. x \in 1 .. n
  BY <1>1
<1>3. x - 1 \in 0 .. n /\ ~(x <= x - 1)
  BY <1>2
<1> QED
  BY <1>1, <1>2, <1>3

StartCache == [tiles |-> tiles, recency |-> recency, due |-> detail_due, stopped |-> FALSE]

FeedOne(cache, frame, replay) ==
    IF cache.stopped /\ ~replay THEN cache ELSE ProcessSample(cache, frame)

(* The caches passed through while n frames from first on are fed.         *)
IsFeed(F, first, n, replay) ==
    /\ F[0] = StartCache
    /\ \A k \in 1 .. n : F[k] = FeedOne(F[k - 1], first + k - 1, replay)

IsFeedTable(p, first, n, replay) ==
    p = [k \in 0 .. n |->
            IF k = 0 THEN StartCache ELSE FeedOne(p[k - 1], first + k - 1, replay)]

(* The recursion of FeedFrames is well defined.                            *)
LEMMA FeedExists ==
    ASSUME NEW first, NEW n \in Nat, NEW replay
    PROVE  \E p : IsFeedTable(p, first, n, replay)
<1> DEFINE One(c, k) == FeedOne(c, first + k - 1, replay)
           Upto(p, m) == p = [k \in 0 .. m |-> IF k = 0 THEN StartCache ELSE One(p[k - 1], k)]
           T == {m \in 0 .. n : \E p : Upto(p, m)}
<1> HIDE DEF One
<1>1. 0 \in T
  <2> DEFINE p == [k \in 0 .. 0 |-> StartCache]
  <2>1. Upto(p, 0)
    OBVIOUS
  <2> HIDE DEF Upto, p
  <2> QED
    BY <2>1
<1>2. ASSUME NEW m \in 1 .. n, m - 1 \in T PROVE m \in T
  <2>1. PICK p : Upto(p, m - 1)
    BY <1>2
  <2> DEFINE q == [k \in 0 .. m |-> IF k = m THEN One(p[m - 1], m) ELSE p[k]]
  <2>2. DOMAIN q = 0 .. m /\ q = [k \in 0 .. m |-> q[k]]
    OBVIOUS
  <2>3. ASSUME NEW k \in 0 .. m PROVE q[k] = IF k = 0 THEN StartCache ELSE One(q[k - 1], k)
    <3>1. CASE k = m
      <4>1. k # 0 /\ k - 1 \in 0 .. m /\ k - 1 # m /\ q[k] = One(p[m - 1], m)
        BY <3>1
      <4>2. q[k - 1] = p[m - 1]
        BY <4>1, <3>1
      <4> QED
        BY <4>1, <4>2, <3>1
    <3>2. CASE k # m /\ k = 0
      <4>1. k \in 0 .. m - 1
        BY <3>2
      <4>2. p[k] = StartCache
        BY <4>1, <3>2, <2>1
      <4> QED
        BY <4>2, <3>2
    <3>3. CASE k # m /\ k # 0
      <4>1. k \in 0 .. m - 1 /\ k - 1 \in 0 .. m /\ k - 1 # m
        BY <3>3
      <4>2. p[k] = One(p[k - 1], k)
        BY <4>1, <3>3, <2>1
      <4>3. q[k - 1] = p[k - 1] /\ q[k] = p[k]
        BY <4>1, <3>3
      <4> QED
        BY <4>2, <4>3, <3>3
    <3> QED
      BY <3>1, <3>2, <3>3
  <2> HIDE DEF q
  <2>4. Upto(q, m)
    BY <2>2, <2>3
  <2> HIDE DEF Upto
  <2> QED
    BY <2>4
<1> HIDE DEF Upto
<1>3. n \in T
  <2>1. T \in SUBSET (0 .. n)
    OBVIOUS
  <2> HIDE DEF T
  <2>2. T = 0 .. n
    BY <1>1, <1>2, <2>1, Induction
  <2> QED
    BY <2>2
<1>4. PICK p : Upto(p, n)
  BY <1>3
<1>5. IsFeedTable(p, first, n, replay)
  BY <1>4 DEF Upto, One, IsFeedTable
<1> QED
  BY <1>5

LEMMA FeedIs ==
    ASSUME NEW first, NEW n \in Nat, NEW replay
    PROVE  \E F : IsFeed(F, first, n, replay) /\ FeedFrames(first, n, replay) = F[n]
<1> DEFINE Table(p) == p = [k \in 0 .. n |->
                              IF k = 0
                              THEN [tiles |-> tiles, recency |-> recency, due |-> detail_due,
                                    stopped |-> FALSE]
                              ELSE IF p[k - 1].stopped /\ ~replay THEN p[k - 1]
                              ELSE ProcessSample(p[k - 1], first + k - 1)]
           F == CHOOSE p : Table(p)
<1>1. \E p : Table(p)
  <2>1. PICK p : IsFeedTable(p, first, n, replay)
    BY FeedExists
  <2>2. Table(p)
    BY <2>1, Zenon DEF IsFeedTable, FeedOne, StartCache
  <2> HIDE DEF Table
  <2> QED
    BY <2>2
<1>2. Table(F)
  <2> HIDE DEF Table
  <2> QED
    BY <1>1
<1>3. FeedFrames(first, n, replay) = F[n]
  BY DEF FeedFrames
<1> HIDE DEF F
<1>4. F = [k \in 0 .. n |->
              IF k = 0 THEN StartCache ELSE FeedOne(F[k - 1], first + k - 1, replay)]
  BY <1>2, Zenon DEF FeedOne, StartCache
<1>5. F[0] = StartCache
  BY <1>4
<1>6. ASSUME NEW k \in 1 .. n PROVE F[k] = FeedOne(F[k - 1], first + k - 1, replay)
  BY <1>4
<1> QED
  BY <1>3, <1>5, <1>6 DEF IsFeed

(* Every cache passed through is well formed, and each frame is left out   *)
(* after the block broke off, counted in its tile, starts its tile, or is  *)
(* denied a slot.                                                          *)
LEMMA FeedIsOK ==
    ASSUME detail_due \in BOOLEAN, CacheOK(ThisCache), NEW first \in Nat, NEW n \in Nat,
           first + n <= TrackFrames, NEW replay, NEW F, IsFeed(F, first, n, replay)
    PROVE  \A k \in 0 .. n : IsCache(F[k]) /\ CacheOK(F[k])
<1> DEFINE T == {k \in 0 .. n : IsCache(F[k]) /\ CacheOK(F[k])}
<1>1. 0 \in T
  <2>1. IsCache(StartCache) /\ CacheOK(StartCache)
    BY DEF StartCache, ThisCache, IsCache, CacheOK
  <2> QED
    BY <2>1 DEF IsFeed
<1>2. ASSUME NEW k \in 1 .. n, k - 1 \in T PROVE k \in T
  <2> DEFINE f == first + k - 1
  <2>1. f \in Frames
    BY Sizes DEF Frames
  <2>2. F[k] = FeedOne(F[k - 1], f, replay)
    BY DEF IsFeed
  <2>3. IsCache(F[k - 1]) /\ CacheOK(F[k - 1])
    BY <1>2
  <2> HIDE DEF f
  <2>4. CASE F[k - 1].stopped /\ ~replay
    BY <2>2, <2>3, <2>4 DEF FeedOne
  <2>5. CASE ~(F[k - 1].stopped /\ ~replay)
    <3>1. F[k] = ProcessSample(F[k - 1], f)
      BY <2>2, <2>5 DEF FeedOne
    <3> QED
      BY <3>1, <2>1, <2>3, SampleIs
  <2> QED
    BY <2>4, <2>5
<1>3. T \in SUBSET (0 .. n)
  OBVIOUS
<1>4. T = 0 .. n
  <2> HIDE DEF T
  <2> QED
    BY <1>1, <1>2, <1>3, Induction
<1> QED
  BY <1>4

(* What a single sample leaves: a slot keeps its tile, or counts the       *)
(* sample in it, or starts a new tile with it.                             *)
LEMMA SampleInSlot ==
    ASSUME NEW cache, IsCache(cache), CacheOK(cache), NEW frame \in Frames,
           NEW next, next = ProcessSample(cache, frame), NEW s \in Slots
    PROVE  \/ next.tiles[s] = cache.tiles[s]
                  /\ (cache.tiles[s] # NoTile => cache.tiles[s].index # TileOf(frame))
           \/ Hits(cache, next, frame, s) /\ next.tiles[s] = CountSample(cache.tiles[s], frame)
           \/ Misses(cache, next, frame, s)
                  /\ next.tiles[s] = CountSample(FreshTile(TileOf(frame)), frame)
<1>1. SlotsOK(cache.tiles) /\ DOMAIN cache.tiles = Slots
  BY DEF CacheOK, SlotsOK
<1>2. CASE \E slot \in Slots : Hits(cache, next, frame, slot)
  <2>1. PICK slot \in Slots : Hits(cache, next, frame, slot)
    BY <1>2
  <2>2. CASE s = slot
    BY <2>1, <2>2, <1>1 DEF Hits
  <2>3. CASE s # slot
    <3>1. next.tiles[s] = cache.tiles[s]
      BY <2>1, <2>3, <1>1 DEF Hits
    <3>2. cache.tiles[s] # NoTile => cache.tiles[s].index # TileOf(frame)
      BY <2>1, <2>3, <1>1 DEF Hits, SlotsOK, Occupied
    <3> QED
      BY <3>1, <3>2
  <2> QED
    BY <2>2, <2>3
<1>3. CASE \E slot \in Slots : Misses(cache, next, frame, slot)
  <2>1. PICK slot \in Slots : Misses(cache, next, frame, slot)
    BY <1>3
  <2>2. CASE s = slot
    BY <2>1, <2>2, <1>1 DEF Misses
  <2>3. CASE s # slot
    BY <2>1, <2>3, <1>1 DEF Misses, HasTile
  <2> QED
    BY <2>2, <2>3
<1>4. CASE Denied(cache, next, frame)
  BY <1>4 DEF Denied, HasTile
<1> QED
  BY <1>2, <1>3, <1>4, SampleIs

(* Counting one more frame in a column, and in the others.                 *)
LEMMA HeardGrows ==
    ASSUME NEW t, IsTile(t), NEW f \in Frames, TileOf(f) = t.index, NEW c \in TileColumns
    PROVE  LET u == CountSample(t, f)
           IN  /\ c = ColumnOf(f) => HeardOf(u, c) = HeardOf(t, c) \cup {f}
               /\ c # ColumnOf(f) => HeardOf(u, c) = HeardOf(t, c)
               /\ IsFiniteSet(HeardOf(t, c)) /\ Cardinality(HeardOf(t, c)) \in Nat
               /\ Full(t, c) => Full(u, c)
<1> DEFINE u == CountSample(t, f)
           C == ColumnFrames(t.index, c)
<1>1. u.index = t.index /\ u.heard = t.heard \cup {f}
  BY CountedTile
<1>2. IsFiniteSet(C)
  BY NoTileIsNone, ColumnFramesAre
<1>3. IsFiniteSet(HeardOf(t, c)) /\ Cardinality(HeardOf(t, c)) \in Nat
  <2>1. HeardOf(t, c) \in SUBSET C
    BY DEF HeardOf
  <2> HIDE DEF C
  <2>2. IsFiniteSet(HeardOf(t, c))
    BY <1>2, <2>1, FS_Subset
  <2> QED
    BY <2>2, FS_CardinalityType
<1>4. c = ColumnOf(f) <=> f \in C
  BY DEF ColumnFrames
<1> HIDE DEF u, C
<1>5. HeardOf(u, c) = (t.heard \cup {f}) \cap C /\ HeardOf(t, c) = t.heard \cap C
  BY <1>1, Zenon DEF HeardOf, C
<1>6. Full(t, c) => Full(u, c)
  BY <1>1 DEF Full
<1> QED
  BY <1>3, <1>4, <1>5, <1>6 DEF u

LEMMA ColumnCounted ==
    ASSUME NEW t, IsTile(t), NEW f \in Frames, TileOf(f) = t.index, NEW got, f \notin got,
           NEW c \in TileColumns, ColumnOK(t, c, got)
    PROVE  ColumnOK(CountSample(t, f), c, got \cup {f})
<1> DEFINE u == CountSample(t, f)
           H == HeardOf(t, c)
<1>1. /\ c = ColumnOf(f) => HeardOf(u, c) = H \cup {f}
      /\ c # ColumnOf(f) => HeardOf(u, c) = H
      /\ IsFiniteSet(H) /\ Cardinality(H) \in Nat
      /\ Full(t, c) => Full(u, c)
  BY HeardGrows
<1>2. /\ t.sample_count[c] \in Nat
      /\ u.sample_count[c] = IF c = ColumnOf(f) THEN t.sample_count[c] + 1 ELSE t.sample_count[c]
  BY CountedTile DEF IsTile
<1>3. /\ t.sample_count[c] = 0 <=> H = {}
      /\ Full(t, c) \/ (t.sample_count[c] = Cardinality(H) /\ H \subseteq got)
  BY DEF ColumnOK, Exact
<1> HIDE DEF u, H
<1>4. CASE c = ColumnOf(f)
  <2>1. HeardOf(u, c) = H \cup {f} /\ u.sample_count[c] = t.sample_count[c] + 1
    BY <1>1, <1>2, <1>4
  <2>2. ASSUME t.sample_count[c] = Cardinality(H), H \subseteq got
        PROVE  u.sample_count[c] = Cardinality(H \cup {f})
    <3>1. f \notin H
      BY <2>2
    <3>2. Cardinality(H \cup {f}) = Cardinality(H) + 1
      BY <3>1, <1>1, FS_AddElement
    <3> QED
      BY <3>2, <2>1, <2>2
  <2>3. Full(u, c) \/ Exact(u, c, got \cup {f})
    BY <2>1, <2>2, <1>1, <1>3 DEF Exact
  <2>4. u.sample_count[c] # 0 /\ HeardOf(u, c) # {}
    BY <2>1, <1>2
  <2> QED
    BY <2>3, <2>4 DEF ColumnOK, u
<1>5. CASE c # ColumnOf(f)
  <2>1. HeardOf(u, c) = H /\ u.sample_count[c] = t.sample_count[c]
    BY <1>1, <1>2, <1>5
  <2>2. Full(u, c) \/ Exact(u, c, got \cup {f})
    BY <2>1, <1>1, <1>3 DEF Exact
  <2> QED
    BY <2>1, <2>2, <1>3 DEF ColumnOK, u
<1> QED
  BY <1>4, <1>5

LEMMA FreshColumn ==
    ASSUME NEW f \in Frames, NEW c \in TileColumns, NEW got
    PROVE  HeardOf(FreshTile(TileOf(f)), c) = {} /\ ColumnOK(FreshTile(TileOf(f)), c, got)
<1>1. FreshTile(TileOf(f)).heard = {} /\ FreshTile(TileOf(f)).sample_count[c] = 0
  BY FreshIsTile
<1>2. HeardOf(FreshTile(TileOf(f)), c) = {}
  BY <1>1 DEF HeardOf
<1> QED
  BY <1>1, <1>2, FS_EmptySet DEF ColumnOK, Exact

(* A complete column stays full, whatever frame comes.                     *)
LEMMA CompleteStaysFull ==
    ASSUME NEW cache, IsCache(cache), CacheOK(cache), NEW f \in Frames,
           NEW next, next = ProcessSample(cache, f),
           \A s \in Occupied(cache.tiles) : \A c \in cache.tiles[s].complete : Full(cache.tiles[s], c)
    PROVE  \A s \in Occupied(next.tiles) : \A c \in next.tiles[s].complete : Full(next.tiles[s], c)
<1> SUFFICES ASSUME NEW s \in Occupied(next.tiles), NEW c \in next.tiles[s].complete
             PROVE  Full(next.tiles[s], c)
  OBVIOUS
<1>1. s \in Slots
  BY DEF Occupied
<1>2. CASE next.tiles[s] = cache.tiles[s]
  BY <1>1, <1>2 DEF Occupied
<1>3. CASE Hits(cache, next, f, s) /\ next.tiles[s] = CountSample(cache.tiles[s], f)
  <2>1. IsTile(cache.tiles[s]) /\ cache.tiles[s].index = TileOf(f) /\ s \in Occupied(cache.tiles)
    BY <1>1, <1>3 DEF Hits, Occupied, CacheOK, SlotsOK
  <2>2. next.tiles[s].complete = cache.tiles[s].complete
    BY <2>1, <1>3, CountedTile
  <2>3. c \in TileColumns
    BY <2>1, <2>2 DEF IsTile
  <2> QED
    BY <2>1, <2>2, <2>3, <1>3, HeardGrows
<1>4. CASE Misses(cache, next, f, s) /\ next.tiles[s] = CountSample(FreshTile(TileOf(f)), f)
  <2>1. next.tiles[s].complete = {}
    BY <1>4, FreshIsTile, CountedTile
  <2> QED
    BY <2>1
<1> QED
  BY <1>1, <1>2, <1>3, <1>4, SampleInSlot

(* A push hears frames that no column has heard before.                    *)
LEMMA PushSampleCounts ==
    ASSUME NEW cache, IsCache(cache), CacheOK(cache), NEW f \in Frames,
           NEW next, next = ProcessSample(cache, f),
           NEW got, f \notin got, CountsOK(cache.tiles, got)
    PROVE  CountsOK(next.tiles, got \cup {f})
<1>1. \A s \in Occupied(next.tiles) : \A c \in next.tiles[s].complete : Full(next.tiles[s], c)
  BY CompleteStaysFull DEF CountsOK
<1>2. ASSUME NEW s \in Occupied(next.tiles), NEW c \in TileColumns
      PROVE  ColumnOK(next.tiles[s], c, got \cup {f})
  <2>1. s \in Slots
    BY DEF Occupied
  <2>2. CASE next.tiles[s] = cache.tiles[s]
    <3>1. ColumnOK(cache.tiles[s], c, got)
      BY <2>1, <2>2 DEF Occupied, CountsOK
    <3> QED
      BY <3>1, <2>2 DEF ColumnOK, Exact
  <2>3. CASE Hits(cache, next, f, s) /\ next.tiles[s] = CountSample(cache.tiles[s], f)
    <3>1. IsTile(cache.tiles[s]) /\ cache.tiles[s].index = TileOf(f) /\ s \in Occupied(cache.tiles)
      BY <2>1, <2>3 DEF Hits, Occupied, CacheOK, SlotsOK
    <3>2. ColumnOK(cache.tiles[s], c, got)
      BY <3>1 DEF CountsOK
    <3> QED
      BY <3>1, <3>2, <2>3, ColumnCounted
  <2>4. CASE Misses(cache, next, f, s) /\ next.tiles[s] = CountSample(FreshTile(TileOf(f)), f)
    <3>1. IsTile(FreshTile(TileOf(f))) /\ FreshTile(TileOf(f)).index = TileOf(f)
      BY FreshIsTile
    <3>2. ColumnOK(FreshTile(TileOf(f)), c, got)
      BY FreshColumn
    <3>3. ColumnOK(CountSample(FreshTile(TileOf(f)), f), c, got \cup {f})
      BY <3>1, <3>2, ColumnCounted
    <3> QED
      BY <3>3, <2>4
  <2> QED
    BY <2>1, <2>2, <2>3, <2>4, SampleInSlot
<1> QED
  BY <1>1, <1>2 DEF CountsOK

LEMMA PushCounts ==
    ASSUME Inv, NEW first \in Nat, NEW n \in Nat, first + n <= TrackFrames,
           (first .. first + n - 1) \cap accepted = {}
    PROVE  CountsOK(FeedFrames(first, n, FALSE).tiles, accepted \cup (first .. first + n - 1))
<1>1. PICK F : IsFeed(F, first, n, FALSE) /\ FeedFrames(first, n, FALSE) = F[n]
  BY FeedIs
<1>2. \A k \in 0 .. n : IsCache(F[k]) /\ CacheOK(F[k])
  BY <1>1, FeedIsOK DEF Inv
<1> DEFINE Got(k) == accepted \cup (first .. first + k - 1)
           T == {k \in 0 .. n : CountsOK(F[k].tiles, Got(k))}
<1>3. 0 \in T
  <2>1. Got(0) = accepted /\ F[0].tiles = tiles
    BY <1>1 DEF IsFeed, StartCache
  <2> QED
    BY <2>1 DEF Inv
<1>4. ASSUME NEW k \in 1 .. n, k - 1 \in T PROVE k \in T
  <2> DEFINE f == first + k - 1
  <2>1. f \in Frames /\ f \notin Got(k - 1)
    BY Sizes DEF Frames
  <2>2. Got(k) = Got(k - 1) \cup {f}
    OBVIOUS
  <2>3. CountsOK(F[k - 1].tiles, Got(k - 1)) /\ IsCache(F[k - 1]) /\ CacheOK(F[k - 1])
    BY <1>2, <1>4
  <2>4. F[k] = FeedOne(F[k - 1], f, FALSE)
    BY <1>1 DEF IsFeed
  <2> HIDE DEF f, Got
  <2>5. CountsOK(F[k].tiles, Got(k - 1) \cup {f})
    <3>1. CASE F[k - 1].stopped
      <4>1. F[k] = F[k - 1]
        BY <2>4, <3>1 DEF FeedOne
      <4> QED
        BY <4>1, <2>3 DEF CountsOK, ColumnOK, Exact
    <3>2. CASE ~F[k - 1].stopped
      <4>1. F[k] = ProcessSample(F[k - 1], f)
        BY <2>4, <3>2 DEF FeedOne
      <4> QED
        BY <4>1, <2>1, <2>3, PushSampleCounts
    <3> QED
      BY <3>1, <3>2
  <2> QED
    BY <2>2, <2>5
<1>5. n \in T
  <2>1. T \in SUBSET (0 .. n)
    OBVIOUS
  <2> HIDE DEF T
  <2>2. T = 0 .. n
    BY <1>3, <1>4, <2>1, Induction
  <2> QED
    BY <2>2
<1> QED
  BY <1>1, <1>5

---------------------------------------------------------------------------
(* A replay.                                                               *)

InBlock(t, c, first, n) == ColumnFrames(t.index, c) \cap (first .. first + n - 1) # {}

(* After k frames of a replay, a column of the block has heard all of its  *)
(* frames that were fed, or none of its frames; the others are untouched.  *)
ReplayedColumn(t, c, first, n, k, got) ==
    /\ t.sample_count[c] = 0 <=> HeardOf(t, c) = {}
    /\ ~InBlock(t, c, first, n) => Full(t, c) \/ Exact(t, c, got)
    /\ InBlock(t, c, first, n) =>
           HeardOf(t, c) \in {{}, ColumnFrames(t.index, c) \cap (first .. first + k - 1)}

Replayed(slots, first, n, k, got) ==
    \A s \in Occupied(slots) :
        /\ \A c \in TileColumns : ReplayedColumn(slots[s], c, first, n, k, got)
        /\ \A c \in slots[s].complete : Full(slots[s], c)

(* The last frame fed was heard by its tile, or its tile has no slot: then *)
(* the cache is as it was, and the next frame of the tile is denied too.   *)
LastHeard(cache, f) ==
    \/ \E s \in Slots : /\ cache.tiles[s] # NoTile /\ cache.tiles[s].index = TileOf(f)
                        /\ f \in cache.tiles[s].heard
    \/ ~HasTile(cache.tiles, TileOf(f)) /\ VictimSlot(cache, TileOf(f)) = NoSlot

(* A column that has been fed before was fed the frame before this one.    *)
LEMMA FedBefore ==
    ASSUME NEW first \in Nat, NEW f \in Frames,
           ColumnFrames(TileOf(f), ColumnOf(f)) \cap (first .. f - 1) # {}
    PROVE  /\ first < f /\ f - 1 \in ColumnFrames(TileOf(f), ColumnOf(f))
           /\ TileOf(f - 1) = TileOf(f)
<1> DEFINE i == TileOf(f)
           c == ColumnOf(f)
           a == ColumnFirst(i, c)
<1>0. f \in Nat
  BY Sizes DEF Frames
<1>1. i \in Nat /\ c \in TileColumns
  BY <1>0, FrameColumn
<1>2. a \in Nat
  BY <1>1, WideColumn
<1>3. ColumnFrames(i, c) = {x \in Frames : a <= x /\ x < a + FramesPerColumn}
  BY <1>1, ColumnFramesAre
<1>4. f \in ColumnFrames(i, c)
  BY DEF ColumnFrames
<1>5. PICK x \in ColumnFrames(i, c) : x \in first .. f - 1
  OBVIOUS
<1> HIDE DEF a, i, c
<1>6. x \in Nat /\ a <= x /\ x <= f - 1 /\ first < f
  BY <1>3, <1>5, <1>0 DEF Frames
<1>7. f - 1 \in Frames
  BY <1>0, <1>6, Sizes DEF Frames
<1>8. f - 1 < a + FramesPerColumn
  BY <1>0, <1>2, <1>3, <1>4, Sizes
<1>9. f - 1 \in ColumnFrames(i, c)
  BY <1>3, <1>6, <1>7, <1>8, <1>0, <1>2
<1> QED
  BY <1>6, <1>7, <1>9 DEF ColumnFrames, i, c

ReplayState(cache, first, n, k, got) ==
    /\ IsCache(cache) /\ CacheOK(cache) /\ Replayed(cache.tiles, first, n, k, got)
    /\ k > 0 => LastHeard(cache, first + k - 1)

LEMMA ReplaySampleCounts ==
    ASSUME NEW first \in Nat, NEW n \in Nat, first + n <= TrackFrames, NEW k \in 1 .. n,
           NEW cache, NEW got, ReplayState(cache, first, n, k - 1, got)
    PROVE  ReplayState(ProcessSample(cache, first + k - 1), first, n, k, got)
<1> SUFFICES ASSUME NEW f, f = first + k - 1, f \in Frames, NEW next, next = ProcessSample(cache, f),
                    IsCache(cache), CacheOK(cache), Replayed(cache.tiles, first, n, k - 1, got),
                    k > 1 => LastHeard(cache, f - 1)
             PROVE  Replayed(next.tiles, first, n, k, got) /\ LastHeard(next, f)
  <2> DEFINE f == first + k - 1
             next == ProcessSample(cache, f)
  <2>1. f \in Frames /\ f - 1 = first + (k - 1) - 1
    BY Sizes DEF Frames
  <2>2. /\ IsCache(cache) /\ CacheOK(cache) /\ Replayed(cache.tiles, first, n, k - 1, got)
        /\ k > 1 => LastHeard(cache, f - 1)
    <3>1. k > 1 => k - 1 > 0
      OBVIOUS
    <3> QED
      BY <3>1, <2>1 DEF ReplayState
  <2>3. f = first + k - 1 /\ next = ProcessSample(cache, f)
    OBVIOUS
  <2> HIDE DEF f, next
  <2>4. Replayed(next.tiles, first, n, k, got) /\ LastHeard(next, f)
    BY <2>1, <2>2, <2>3
  <2>5. IsCache(next) /\ CacheOK(next)
    BY <2>1, <2>2, <2>3, SampleIs
  <2> QED
    BY <2>3, <2>4, <2>5 DEF ReplayState
<1> DEFINE i == TileOf(f)
           col == ColumnOf(f)
           C == ColumnFrames(i, col)
           Before == C \cap (first .. first + (k - 1) - 1)
<1>0. f \in Nat /\ k \in Nat \ {0}
  BY Sizes DEF Frames
<1>1. i \in Nat /\ col \in TileColumns /\ f \in C
  BY <1>0, FrameColumn DEF ColumnFrames
<1>2. ASSUME NEW s \in Slots, cache.tiles[s] # NoTile
      PROVE  IsTile(cache.tiles[s]) /\ s \in Occupied(cache.tiles)
  BY <1>2 DEF CacheOK, SlotsOK, Occupied
<1>3. ASSUME Before # {} PROVE k > 1 /\ f - 1 \in C /\ TileOf(f - 1) = i
  <2>1. first .. first + (k - 1) - 1 = first .. f - 1
    BY <1>0
  <2>2. ColumnFrames(TileOf(f), ColumnOf(f)) \cap (first .. f - 1) # {}
    BY <2>1, <1>3
  <2>3. /\ first < f /\ f - 1 \in ColumnFrames(TileOf(f), ColumnOf(f))
        /\ TileOf(f - 1) = TileOf(f)
    BY <2>2, FedBefore
  <2> QED
    BY <2>3, <1>0
<1>4. first .. first + k - 1 = (first .. first + (k - 1) - 1) \cup {f}
  BY <1>0
<1>5. \A s \in Occupied(next.tiles) : \A c \in next.tiles[s].complete : Full(next.tiles[s], c)
  BY CompleteStaysFull DEF Replayed
<1>6. ASSUME NEW s \in Slots, Hits(cache, next, f, s),
             next.tiles[s] = CountSample(cache.tiles[s], f)
      PROVE  /\ \A c \in TileColumns : ReplayedColumn(next.tiles[s], c, first, n, k, got)
             /\ f \in next.tiles[s].heard /\ next.tiles[s].index = i /\ next.tiles[s] # NoTile
  <2> DEFINE t == cache.tiles[s]
             u == next.tiles[s]
  <2>1. IsTile(t) /\ t.index = i /\ s \in Occupied(cache.tiles)
    BY <1>2, <1>6 DEF Hits
  <2>2. /\ IsTile(u) /\ u.index = i /\ u.heard = t.heard \cup {f} /\ u # NoTile
        /\ \A c \in TileColumns : u.sample_count[c] = IF c = col THEN t.sample_count[c] + 1
                                                      ELSE t.sample_count[c]
    BY <1>6, <2>1, CountedTile, NoTileIsNone
  <2>3. \A c \in TileColumns : ReplayedColumn(t, c, first, n, k - 1, got)
    BY <2>1 DEF Replayed
  <2>4. HeardOf(t, col) = Before
    <3>1. HeardOf(t, col) \in {{}, Before}
      <4>1. InBlock(t, col, first, n)
        BY <1>1, <2>1, <1>0 DEF InBlock
      <4> QED
        BY <4>1, <2>1, <2>3, <1>1 DEF ReplayedColumn
    <3>2. ASSUME Before # {} PROVE HeardOf(t, col) # {}
      <4>1. k > 1 /\ f - 1 \in C /\ TileOf(f - 1) = i
        BY <1>3, <3>2
      <4>2. HasTile(cache.tiles, i)
        BY <2>1 DEF HasTile
      <4>3. PICK r \in Slots : /\ cache.tiles[r] # NoTile /\ cache.tiles[r].index = i
                               /\ f - 1 \in cache.tiles[r].heard
        BY <4>1, <4>2 DEF LastHeard
      <4>4. r = s
        BY <4>3, <2>1, <1>2 DEF CacheOK, SlotsOK
      <4> QED
        BY <4>1, <4>3, <4>4, <2>1 DEF HeardOf
    <3> HIDE DEF Before
    <3> QED
      BY <3>1, <3>2
  <2>5. ASSUME NEW c \in TileColumns PROVE ReplayedColumn(u, c, first, n, k, got)
    <3>1. /\ c = col => HeardOf(u, c) = HeardOf(t, c) \cup {f}
          /\ c # col => HeardOf(u, c) = HeardOf(t, c)
          /\ Full(t, c) => Full(u, c)
      BY <2>1, <1>6, HeardGrows
    <3>2. CASE c = col
      <4>1. HeardOf(u, c) = C \cap (first .. first + k - 1)
        BY <3>1, <3>2, <2>4, <1>1, <1>4
      <4>2. InBlock(u, c, first, n)
        BY <1>1, <1>0, <2>2, <3>2 DEF InBlock
      <4>3. u.sample_count[c] # 0 /\ HeardOf(u, c) # {}
        <5>1. t.sample_count[c] \in Nat
          BY <2>1 DEF IsTile
        <5>2. u.sample_count[c] = t.sample_count[c] + 1
          BY <2>2, <3>2
        <5>3. f \in HeardOf(u, c)
          BY <3>1, <3>2
        <5> HIDE DEF t, u
        <5> QED
          BY <5>1, <5>2, <5>3
      <4> HIDE DEF C, u
      <4> QED
        BY <4>1, <4>2, <4>3, <2>2, <3>2 DEF ReplayedColumn, C
    <3>3. CASE c # col
      <4>1. HeardOf(u, c) = HeardOf(t, c) /\ u.sample_count[c] = t.sample_count[c]
        BY <3>1, <3>3, <2>2
      <4>2. f \notin ColumnFrames(i, c)
        BY <3>3 DEF ColumnFrames
      <4>3. ColumnFrames(i, c) \cap (first .. first + k - 1)
            = ColumnFrames(i, c) \cap (first .. first + (k - 1) - 1)
        BY <4>2, <1>4
      <4>4. InBlock(u, c, first, n) <=> InBlock(t, c, first, n)
        BY <2>1, <2>2 DEF InBlock
      <4>5. ReplayedColumn(t, c, first, n, k - 1, got)
        BY <2>3
      <4>6. Full(t, c) \/ Exact(t, c, got) => Full(u, c) \/ Exact(u, c, got)
        BY <4>1, <3>1 DEF Exact
      <4> HIDE DEF t, u, i
      <4> QED
        BY <4>1, <4>3, <4>4, <4>5, <4>6, <2>1, <2>2 DEF ReplayedColumn
    <3> QED
      BY <3>2, <3>3
  <2> QED
    BY <2>2, <2>5
<1>7. ASSUME NEW s \in Slots, Misses(cache, next, f, s),
             next.tiles[s] = CountSample(FreshTile(i), f)
      PROVE  /\ \A c \in TileColumns : ReplayedColumn(next.tiles[s], c, first, n, k, got)
             /\ f \in next.tiles[s].heard /\ next.tiles[s].index = i /\ next.tiles[s] # NoTile
  <2> DEFINE t == FreshTile(i)
             u == next.tiles[s]
  <2>1. IsTile(t) /\ t.index = i /\ \A c \in TileColumns : t.sample_count[c] = 0
    BY FreshIsTile
  <2> HIDE DEF t
  <2>2. /\ IsTile(u) /\ u.index = i /\ u.heard = t.heard \cup {f} /\ u # NoTile
        /\ \A c \in TileColumns : u.sample_count[c] = IF c = col THEN t.sample_count[c] + 1
                                                      ELSE t.sample_count[c]
    BY <1>7, <2>1, CountedTile, NoTileIsNone DEF t
  <2>3. Before = {}
    <3> SUFFICES ASSUME Before # {} PROVE FALSE
      OBVIOUS
    <3>1. k > 1 /\ TileOf(f - 1) = i
      BY <1>3
    <3>2. ~HasTile(cache.tiles, i) /\ VictimSlot(cache, i) # NoSlot
      BY <1>7 DEF Misses, Slots, NoSlot
    <3> QED
      BY <3>1, <3>2 DEF LastHeard, HasTile
  <2>4. ASSUME NEW c \in TileColumns PROVE ReplayedColumn(u, c, first, n, k, got)
    <3>1. /\ c = col => HeardOf(u, c) = HeardOf(t, c) \cup {f}
          /\ c # col => HeardOf(u, c) = HeardOf(t, c)
      BY <2>1, <1>7, HeardGrows DEF t
    <3>2. HeardOf(t, c) = {}
      BY FreshColumn DEF t
    <3>3. CASE c = col
      <4>1. HeardOf(u, c) = C \cap (first .. first + k - 1)
        BY <3>1, <3>2, <3>3, <2>3, <1>1, <1>4
      <4>2. InBlock(u, c, first, n)
        BY <1>1, <1>0, <2>2, <3>3 DEF InBlock
      <4>3. u.sample_count[c] # 0 /\ HeardOf(u, c) # {}
        BY <3>1, <3>3, <2>1, <2>2
      <4> HIDE DEF C, u
      <4> QED
        BY <4>1, <4>2, <4>3, <2>2, <3>3 DEF ReplayedColumn, C
    <3>4. CASE c # col
      <4>1. HeardOf(u, c) = {} /\ u.sample_count[c] = 0
        BY <3>1, <3>2, <3>4, <2>1, <2>2
      <4> HIDE DEF u
      <4> QED
        BY <4>1, FS_EmptySet DEF ReplayedColumn, Exact
    <3> QED
      BY <3>3, <3>4
  <2> QED
    BY <2>2, <2>4
<1>8. ASSUME NEW s \in Occupied(next.tiles), next.tiles[s] = cache.tiles[s],
             cache.tiles[s] # NoTile => cache.tiles[s].index # i, NEW c \in TileColumns
      PROVE  ReplayedColumn(next.tiles[s], c, first, n, k, got)
  <2> DEFINE t == cache.tiles[s]
  <2>1. s \in Occupied(cache.tiles) /\ t.index # i
    BY <1>8 DEF Occupied
  <2>2. ReplayedColumn(t, c, first, n, k - 1, got)
    BY <2>1 DEF Replayed
  <2>3. f \notin ColumnFrames(t.index, c)
    BY <2>1 DEF ColumnFrames
  <2>4. ColumnFrames(t.index, c) \cap (first .. first + k - 1)
        = ColumnFrames(t.index, c) \cap (first .. first + (k - 1) - 1)
    BY <2>3, <1>4
  <2> HIDE DEF t
  <2>5. ReplayedColumn(t, c, first, n, k, got)
    BY <2>2, <2>4 DEF ReplayedColumn
  <2> QED
    BY <2>5, <1>8 DEF t
<1>9. Replayed(next.tiles, first, n, k, got)
  <2>1. ASSUME NEW s \in Occupied(next.tiles), NEW c \in TileColumns
        PROVE  ReplayedColumn(next.tiles[s], c, first, n, k, got)
    <3>1. s \in Slots
      BY DEF Occupied
    <3> HIDE DEF i
    <3> QED
      BY <3>1, <1>6, <1>7, <1>8, SampleInSlot DEF i
  <2> QED
    BY <2>1, <1>5 DEF Replayed
<1>10. LastHeard(next, f)
  <2>1. CASE \E s \in Slots : Hits(cache, next, f, s)
    <3>1. PICK s \in Slots : Hits(cache, next, f, s)
      BY <2>1
    <3>2. next.tiles[s] = CountSample(cache.tiles[s], f)
      BY <3>1 DEF Hits, CacheOK, SlotsOK
    <3> QED
      BY <3>1, <3>2, <1>6 DEF LastHeard
  <2>2. CASE \E s \in Slots : Misses(cache, next, f, s)
    <3>1. PICK s \in Slots : Misses(cache, next, f, s)
      BY <2>2
    <3>2. next.tiles[s] = CountSample(FreshTile(i), f)
      BY <3>1 DEF Misses, CacheOK, SlotsOK
    <3> QED
      BY <3>1, <3>2, <1>7 DEF LastHeard
  <2>3. CASE Denied(cache, next, f)
    <3>1. next.tiles = cache.tiles /\ next.recency = cache.recency
      BY <2>3 DEF Denied
    <3>2. VictimSlot(next, i) = VictimSlot(cache, i)
      BY <3>1, Zenon DEF VictimSlot
    <3> QED
      BY <3>1, <3>2, <2>3 DEF Denied, LastHeard
  <2> QED
    BY <2>1, <2>2, <2>3, SampleIs
<1> QED
  BY <1>9, <1>10

LEMMA DivisionIsMonotone ==
    ASSUME NEW x \in Nat, NEW y \in Nat, NEW d \in Nat \ {0}, x <= y
    PROVE  x \div d <= y \div d
<1> DEFINE p == x \div d
           q == y \div d
<1>1. p \in Nat /\ q \in Nat /\ x = p * d + (x % d) /\ y = q * d + (y % d)
      /\ x % d \in 0 .. d - 1 /\ y % d \in 0 .. d - 1
  BY DivisionIs
<1> HIDE DEF p, q
<1> SUFFICES ASSUME q < p PROVE FALSE
  BY <1>1 DEF p, q
<1>2. PICK j \in Nat : p = q + 1 + j
  <2>1. p - q - 1 \in Nat /\ p = q + 1 + (p - q - 1)
    BY <1>1
  <2> QED
    BY <2>1
<1>3. p * d = q * d + d + j * d /\ j * d \in Nat /\ q * d \in Nat
  BY <1>1, <1>2
<1> QED
  BY <1>1, <1>3

(* A block of whole columns that touches a column contains it.             *)
LEMMA AlignedBlock ==
    ASSUME NEW i \in Nat, NEW c \in TileColumns, NEW first \in Nat, NEW n \in Nat,
           first % FramesPerColumn = 0,
           (first + n) % FramesPerColumn = 0 \/ first + n = TrackFrames,
           ColumnFrames(i, c) \cap (first .. first + n - 1) # {}
    PROVE  ColumnFrames(i, c) \subseteq first .. first + n - 1
<1> DEFINE d == FramesPerColumn
           w == Wide(i, c)
           a == first \div d
           b == (first + n) \div d
<1>1. d \in Nat \ {0} /\ TrackFrames \in Nat
  BY Sizes
<1>2. w \in Nat /\ ColumnFirst(i, c) = w * d /\ w * d \in Nat
  BY WideColumn
<1>3. a \in Nat /\ first = a * d /\ b \in Nat
  <2>1. a \in Nat /\ b \in Nat /\ first = a * d + (first % d) /\ a * d \in Nat
    <3>1. first + n \in Nat
      OBVIOUS
    <3>2. a \in Nat /\ first = a * d + (first % d)
      BY <1>1, DivisionIs
    <3>3. b \in Nat
      BY <1>1, <3>1, DivisionIs
    <3> HIDE DEF a, b
    <3> QED
      BY <3>2, <3>3, <1>1
  <2> QED
    BY <2>1
<1>4. ColumnFrames(i, c) = {f \in Frames : w * d <= f /\ f < w * d + d}
  BY <1>2, ColumnFramesAre
<1>5. PICK x \in ColumnFrames(i, c) : x \in first .. first + n - 1
  OBVIOUS
<1>6. x \in Nat /\ x \div d = w
  <2>1. x \in Nat /\ TileOf(x) = i /\ ColumnOf(x) = c
    BY <1>5, <1>1 DEF ColumnFrames, Frames
  <2> QED
    BY <2>1, FrameColumn
<1> HIDE DEF d, w, a, b
<1>7. first <= w * d
  <2>1. first \div d <= x \div d
    <3>1. first <= x
      BY <1>5
    <3> QED
      BY <3>1, <1>1, <1>6, DivisionIsMonotone
  <2>2. a <= w
    BY <2>1, <1>6 DEF a
  <2>3. PICK j \in Nat : w = a + j
    <3>1. w - a \in Nat /\ w = a + (w - a)
      BY <2>2, <1>2, <1>3
    <3> QED
      BY <3>1
  <2>4. w * d = a * d + j * d /\ j * d \in Nat
    BY <2>3, <1>1, <1>3
  <2> QED
    BY <2>4, <1>3
<1>8. CASE first + n = TrackFrames
  <2> SUFFICES ASSUME NEW f \in ColumnFrames(i, c) PROVE f \in first .. first + n - 1
    OBVIOUS
  <2>1. f \in Nat /\ f < TrackFrames /\ w * d <= f
    BY <1>4, <1>1 DEF Frames
  <2> QED
    BY <2>1, <1>7, <1>8, <1>2
<1>9. CASE (first + n) % d = 0
  <2>1. first + n = b * d
    <3>1. first + n = b * d + ((first + n) % d) /\ b * d \in Nat
      <4>1. first + n \in Nat
        OBVIOUS
      <4>2. first + n = ((first + n) \div d) * d + ((first + n) % d)
        BY <4>1, <1>1, DivisionIs
      <4> QED
        BY <4>2, <1>1, <1>3 DEF b
    <3> QED
      BY <3>1, <1>9
  <2>2. w < b
    <3> SUFFICES ASSUME b <= w PROVE FALSE
      BY <1>2, <1>3
    <3>1. PICK j \in Nat : w = b + j
      <4>1. w - b \in Nat /\ w = b + (w - b)
        BY <1>2, <1>3
      <4> QED
        BY <4>1
    <3>2. w * d = b * d + j * d /\ j * d \in Nat /\ b * d \in Nat
      BY <3>1, <1>1, <1>3
    <3>3. w * d <= x
      BY <1>4, <1>5
    <3> QED
      BY <3>2, <3>3, <2>1, <1>5, <1>6
  <2>3. PICK j \in Nat : b = w + 1 + j
    <3>1. b - w - 1 \in Nat /\ b = w + 1 + (b - w - 1)
      BY <2>2, <1>2, <1>3
    <3> QED
      BY <3>1
  <2>4. b * d = w * d + d + j * d /\ j * d \in Nat
    BY <2>3, <1>1, <1>2
  <2> SUFFICES ASSUME NEW f \in ColumnFrames(i, c) PROVE f \in first .. first + n - 1
    OBVIOUS
  <2>5. f \in Nat /\ w * d <= f /\ f < w * d + d
    BY <1>4, <1>1 DEF Frames
  <2> QED
    BY <2>1, <2>4, <2>5, <1>1, <1>2, <1>7
<1> QED
  BY <1>8, <1>9 DEF d

(* A replay of whole, empty columns fills each of them or leaves it empty. *)
LEMMA ReplayCounts ==
    ASSUME Inv, NEW first \in Nat, NEW n \in Nat, first + n <= TrackFrames,
           first % FramesPerColumn = 0,
           (first + n) % FramesPerColumn = 0 \/ first + n = TrackFrames,
           \A f \in first .. first + n - 1 : ColumnIsEmpty(f \div FramesPerColumn)
    PROVE  CountsOK(FeedFrames(first, n, TRUE).tiles, accepted)
<1>1. PICK F : IsFeed(F, first, n, TRUE) /\ FeedFrames(first, n, TRUE) = F[n]
  BY FeedIs
<1>2. \A k \in 0 .. n : IsCache(F[k]) /\ CacheOK(F[k])
  BY <1>1, FeedIsOK DEF Inv
<1>3. SlotsOK(tiles) /\ CountsOK(tiles, accepted)
  BY DEF Inv, CacheOK, ThisCache
<1> DEFINE T == {k \in 0 .. n : ReplayState(F[k], first, n, k, accepted)}
<1>4. 0 \in T
  <2>1. F[0].tiles = tiles
    BY <1>1 DEF IsFeed, StartCache
  <2>2. ASSUME NEW s \in Occupied(tiles), NEW c \in TileColumns
        PROVE  ReplayedColumn(tiles[s], c, first, n, 0, accepted)
    <3> DEFINE t == tiles[s]
               i == t.index
    <3>1. s \in Slots /\ IsTile(t) /\ i \in Nat
      BY <1>3, NoTileIsNone DEF Occupied, SlotsOK
    <3>2. ColumnOK(t, c, accepted)
      BY <1>3 DEF CountsOK
    <3>3. ASSUME InBlock(t, c, first, n) PROVE HeardOf(t, c) = {}
      <4>1. PICK x \in ColumnFrames(i, c) : x \in first .. first + n - 1
        BY <3>3 DEF InBlock
      <4>2. x \in Nat /\ TileOf(x) = i /\ ColumnOf(x) = c
        BY <4>1 DEF ColumnFrames
      <4>3. x \div FramesPerColumn = Wide(i, c)
        BY <4>2, FrameColumn
      <4>4. ColumnIsEmpty(Wide(i, c))
        BY <4>1, <4>3
      <4>5. Wide(i, c) \div ColumnsPerTile = i /\ Wide(i, c) % ColumnsPerTile = c
        BY <3>1, WideColumn
      <4>6. HasTile(tiles, i)
        BY <3>1 DEF HasTile
      <4>7. SlotOf(tiles, i) = s
        <5> DEFINE r == SlotOf(tiles, i)
        <5>1. r \in Slots /\ tiles[r].index = i
          BY <3>1 DEF SlotOf
        <5>2. tiles[r] # NoTile
          BY <5>1, <3>1, NoTileIsNone
        <5> HIDE DEF r
        <5>3. r = s
          BY <5>1, <5>2, <1>3, <3>1 DEF SlotsOK, Occupied
        <5> QED
          BY <5>3 DEF r
      <4>8. t.sample_count[c] = 0
        BY <4>4, <4>5, <4>6, <4>7 DEF ColumnIsEmpty
      <4> QED
        BY <4>8, <3>2 DEF ColumnOK
    <3> HIDE DEF t
    <3>4. ReplayedColumn(t, c, first, n, 0, accepted)
      BY <3>2, <3>3 DEF ReplayedColumn, ColumnOK
    <3> QED
      BY <3>4 DEF t
  <2>3. Replayed(tiles, first, n, 0, accepted)
    BY <2>2, <1>3 DEF Replayed, CountsOK
  <2> QED
    BY <2>1, <2>3, <1>2 DEF ReplayState
<1>5. ASSUME NEW k \in 1 .. n, k - 1 \in T PROVE k \in T
  <2>1. F[k] = ProcessSample(F[k - 1], first + k - 1)
    BY <1>1 DEF IsFeed, FeedOne
  <2>2. ReplayState(ProcessSample(F[k - 1], first + k - 1), first, n, k, accepted)
    BY <1>5, ReplaySampleCounts
  <2> QED
    BY <2>1, <2>2
<1>6. Replayed(F[n].tiles, first, n, n, accepted)
  <2>1. T \in SUBSET (0 .. n)
    OBVIOUS
  <2> HIDE DEF T
  <2>2. n \in T
    BY <1>4, <1>5, <2>1, Induction
  <2> QED
    BY <2>2 DEF T, ReplayState
<1>7. ASSUME NEW s \in Occupied(F[n].tiles), NEW c \in TileColumns
      PROVE  ColumnOK(F[n].tiles[s], c, accepted)
  <2> DEFINE t == F[n].tiles[s]
             C == ColumnFrames(t.index, c)
  <2>1. t.index \in Nat
    <3>1. CacheOK(F[n])
      BY <1>2
    <3> QED
      BY <3>1, NoTileIsNone DEF CacheOK, SlotsOK, Occupied
  <2>2. ReplayedColumn(t, c, first, n, n, accepted)
    BY <1>6 DEF Replayed
  <2> HIDE DEF t
  <2>3. CASE ~InBlock(t, c, first, n)
    BY <2>2, <2>3 DEF ReplayedColumn, ColumnOK, t
  <2>4. CASE InBlock(t, c, first, n)
    <3>1. C \subseteq first .. first + n - 1
      BY <2>1, <2>4, AlignedBlock DEF InBlock
    <3>2. C \cap (first .. first + n - 1) = C
      BY <3>1
    <3>3. HeardOf(t, c) \in {{}, C} /\ (t.sample_count[c] = 0 <=> HeardOf(t, c) = {})
      BY <2>2, <2>4, <3>2 DEF ReplayedColumn
    <3>4. CASE HeardOf(t, c) = {}
      BY <3>3, <3>4, FS_EmptySet DEF ColumnOK, Exact, t
    <3>5. CASE HeardOf(t, c) = C
      <4>1. Full(t, c)
        BY <3>5 DEF HeardOf, Full
      <4> QED
        BY <4>1, <3>3 DEF ColumnOK, t
    <3> QED
      BY <3>3, <3>4, <3>5
  <2> QED
    BY <2>3, <2>4
<1> QED
  BY <1>1, <1>6, <1>7 DEF CountsOK, Replayed

---------------------------------------------------------------------------
(* The demand a replay answers.                                            *)

(* The first elements of a set without gaps are consecutive.               *)
LEMMA ConvexPrefix ==
    ASSUME NEW D, D \subseteq Nat, D # {}, IsFiniteSet(D),
           \A x, y \in D : \A z \in Nat : x <= z /\ z <= y => z \in D,
           NEW n \in Nat, n <= Cardinality(D)
    PROVE  \A z \in SmallestOf(D) .. SmallestOf(D) + n - 1 : z \in D
<1> DEFINE a == SmallestOf(D)
<1>1. a \in D /\ a \in Nat /\ \A x \in D : a <= x
  BY SmallestIsFirst
<1> HIDE DEF a
<1> SUFFICES ASSUME NEW z \in a .. a + n - 1, z \notin D PROVE FALSE
  BY DEF a
<1>2. z \in Nat /\ a <= z /\ z - a < n
  BY <1>1
<1>3. D \subseteq a .. z - 1
  <2> SUFFICES ASSUME NEW x \in D PROVE x \in a .. z - 1
    OBVIOUS
  <2>1. ~(z <= x)
    BY <1>1, <1>2
  <2> QED
    BY <2>1, <1>1, <1>2
<1>4. IsFiniteSet(a .. z - 1) /\ Cardinality(a .. z - 1) = IF a > z - 1 THEN 0 ELSE (z - 1) - a + 1
  <2> DEFINE y == z - 1
  <2>1. a \in Int /\ y \in Int
    BY <1>1, <1>2
  <2> HIDE DEF y
  <2>2. IsFiniteSet(a .. y) /\ Cardinality(a .. y) = IF a > y THEN 0 ELSE y - a + 1
    BY <2>1, FS_Interval
  <2> QED
    BY <2>2 DEF y
<1>5. Cardinality(D) <= Cardinality(a .. z - 1)
  <2>1. D \in SUBSET (a .. z - 1)
    BY <1>3
  <2> QED
    BY <2>1, <1>4, FS_Subset
<1>6. Cardinality(D) \in Nat
  BY FS_CardinalityType
<1> QED
  BY <1>1, <1>2, <1>4, <1>5, <1>6

LEMMA BaseTargetIs ==
    ASSUME SteeringOK
    PROVE  BaseTarget = NoRequest \/ BaseTarget \in DOMAIN requests
<1> DEFINE A == ActiveIds(requests)
           P == {requests[i].priority : i \in A}
           top == {i \in A : \A j \in A : requests[j].priority <= requests[i].priority}
<1>1. PICK n \in Nat : requests = [i \in 1 .. n |-> requests[i]]
  BY DEF SteeringOK, RowsOK
<1>2. A \subseteq 1 .. n /\ DOMAIN requests = 1 .. n
  BY <1>1 DEF ActiveIds
<1>3. CASE A = {}
  BY <1>3 DEF BaseTarget
<1>4. CASE A # {}
  <2>1. \A i \in A : requests[i].priority \in Nat
    BY <1>2 DEF SteeringOK, RowsOK, IsRow
  <2>2. IsFiniteSet(A)
    <3>1. IsFiniteSet(1 .. n)
      BY FS_Interval
    <3> QED
      BY <3>1, <1>2, FS_Subset
  <2>3. IsFiniteSet(P)
    <3> DEFINE prio == [i \in A |-> requests[i].priority]
    <3>1. P = {prio[i] : i \in A}
      OBVIOUS
    <3> HIDE DEF prio, P, A
    <3> QED
      BY <3>1, <2>2, ImageIsFinite
  <2>4. P \subseteq Int /\ P # {}
    BY <2>1, <1>4
  <2>5. PICK p \in P : \A q \in P : q <= p
    <3> HIDE DEF P
    <3> QED
      BY <2>3, <2>4, LargestExists
  <2>6. top # {} /\ top \subseteq Nat
    BY <2>5, <1>2
  <2>7. SmallestOf(top) \in top
    <3> HIDE DEF top
    <3> QED
      BY <2>6, SmallestIsFirst
  <2>8. BaseTarget = SmallestOf(top)
    BY <1>4 DEF BaseTarget
  <2> QED
    BY <2>7, <2>8, <1>2
<1> QED
  BY <1>3, <1>4

LEMMA WindowIs ==
    ASSUME SteeringOK, total_frames \in {Unknown, TrackFrames}, NEW id,
           id = NoRequest \/ id \in DOMAIN requests, HasWindow(id)
    PROVE  Window(id).first \in Nat /\ Window(id).end \in Nat
<1>1. total_frames = Unknown \/ total_frames \in Nat
  BY Sizes
<1>2. CASE id = NoRequest
  <2>1. focus \in Foci
    BY <1>2 DEF HasWindow, SteeringOK
  <2>2. focus.playhead \in Nat /\ focus.behind \in Nat /\ focus.ahead \in Nat
    BY <2>1, DetailAssumption
  <2>3. FocusFirst(focus) \in Nat /\ FocusEnd(focus) \in Nat
    BY <2>2 DEF FocusFirst, FocusEnd
  <2> QED
    BY <2>3, <1>1, <1>2 DEF Window, Smaller
<1>3. CASE id # NoRequest
  <2>1. requests[id].first \in Nat /\ requests[id].end \in Nat
    BY <1>3 DEF SteeringOK, RowsOK, IsRow
  <2> QED
    BY <2>1, <1>1, <1>3 DEF Window, Smaller
<1> QED
  BY <1>2, <1>3

(* A demand is for consecutive empty columns.                              *)
LEMMA DemandColumnsAre ==
    ASSUME NEW id, Window(id).first \in Nat, Window(id).end \in Nat
    PROVE  \E a \in Nat, b \in Int :
               DemandColumns(id) = a .. b /\ \A c \in a .. b : ColumnIsEmpty(c)
<1> DEFINE first == Window(id).first \div FramesPerColumn
           end == (Window(id).end + FramesPerColumn - 1) \div FramesPerColumn
           empty == {c \in first .. end - 1 : ColumnIsEmpty(c)}
           start == SmallestOf(empty)
           limit == start + MaxPush \div FramesPerColumn
           stops == {c \in start .. Smaller(end, limit) : c \notin empty \/ c = limit}
<1>1. first \in Nat /\ end \in Nat /\ MaxPush \div FramesPerColumn \in Nat
  <2>1. Window(id).end + FramesPerColumn - 1 \in Nat
    BY Sizes
  <2> QED
    BY <2>1, Sizes, DivisionIs
<1>2. DemandColumns(id) = IF empty = {} THEN {} ELSE start .. SmallestOf(stops) - 1
  BY DEF DemandColumns
<1> HIDE DEF first, end
<1>3. CASE empty = {}
  <2>1. DemandColumns(id) = 0 .. -1
    BY <1>2, <1>3
  <2> QED
    BY <2>1
<1>4. CASE empty # {}
  <2>1. empty \subseteq Nat
    BY <1>1
  <2>2. start \in empty /\ start \in Nat
    <3> HIDE DEF empty
    <3> QED
      BY <2>1, <1>4, SmallestIsFirst
  <2> HIDE DEF start
  <2>3. limit \in Nat /\ start <= limit /\ start < end
    BY <1>1, <2>2
  <2>4. Smaller(end, limit) \in stops
    BY <1>1, <2>2, <2>3 DEF Smaller
  <2>5. stops \subseteq Nat /\ stops # {}
    BY <2>2, <2>4
  <2>6. SmallestOf(stops) \in stops /\ \A x \in stops : SmallestOf(stops) <= x
    <3> HIDE DEF stops
    <3> QED
      BY <2>5, SmallestIsFirst
  <2> DEFINE b == SmallestOf(stops) - 1
  <2>7. b \in Int /\ DemandColumns(id) = start .. b
    BY <1>2, <1>4, <2>5, <2>6
  <2>8. ASSUME NEW c \in start .. b PROVE ColumnIsEmpty(c)
    <3>1. SmallestOf(stops) \in start .. Smaller(end, limit)
      BY <2>6
    <3>2. c \in start .. Smaller(end, limit) /\ c < SmallestOf(stops)
      BY <3>1, <2>2, <2>3, <1>1 DEF Smaller
    <3>3. c \notin stops
      <4> HIDE DEF stops
      <4> QED
        BY <3>1, <3>2, <2>6, <2>5
    <3>4. c \in empty
      BY <3>2, <3>3
    <3> QED
      BY <3>4
  <2> HIDE DEF b
  <2> QED
    BY <2>2, <2>7, <2>8
<1> QED
  BY <1>3, <1>4

LEMMA ReplayedIsEmpty ==
    ASSUME SteeringOK, total_frames \in {Unknown, TrackFrames},
           NEW D, D = DemandFrames(BaseTarget), D # {}, NEW n \in Nat, n <= Cardinality(D)
    PROVE  \A f \in SmallestOf(D) .. SmallestOf(D) + n - 1 : ColumnIsEmpty(f \div FramesPerColumn)
<1> DEFINE id == BaseTarget
           d == FramesPerColumn
           columns == IF HasWindow(id) THEN DemandColumns(id) ELSE {}
<1>1. d \in Nat \ {0}
  BY Sizes
<1>2. D = {f \in UNION {c * d .. (c + 1) * d - 1 : c \in columns} :
              total_frames = Unknown \/ f < total_frames}
  BY DEF DemandFrames
<1>3. HasWindow(id)
  BY <1>2
<1>4. PICK a \in Nat, b \in Int : columns = a .. b /\ \A c \in a .. b : ColumnIsEmpty(c)
  <2>1. Window(id).first \in Nat /\ Window(id).end \in Nat
    BY <1>3, BaseTargetIs, WindowIs
  <2> QED
    BY <2>1, <1>3, DemandColumnsAre
<1> HIDE DEF columns, d
<1>5. ASSUME NEW c \in Nat, NEW f
      PROVE  f \in c * d .. (c + 1) * d - 1 <=> f \in Nat /\ f \div d = c
  <2>1. c * d \in Nat /\ (c + 1) * d = c * d + d
    BY <1>1
  <2>2. ASSUME f \in c * d .. (c + 1) * d - 1 PROVE f \in Nat /\ f \div d = c
    <3>1. f \in Nat /\ f - c * d \in 0 .. d - 1 /\ f = c * d + (f - c * d)
      BY <2>1, <2>2, <1>1
    <3> QED
      BY <3>1, <1>1, DivisionIsUnique
  <2>3. ASSUME f \in Nat, f \div d = c PROVE f \in c * d .. (c + 1) * d - 1
    <3>1. f = c * d + (f % d) /\ f % d \in 0 .. d - 1
      BY <2>3, <1>1, DivisionIs
    <3> QED
      BY <3>1, <2>1, <2>3, <1>1
  <2> QED
    BY <2>2, <2>3
<1>6. D = {f \in Nat : f \div d \in a .. b /\ (total_frames = Unknown \/ f < total_frames)}
  <2>1. ASSUME NEW f \in D
        PROVE  f \in Nat /\ f \div d \in a .. b /\ (total_frames = Unknown \/ f < total_frames)
    <3>1. PICK c \in a .. b : f \in c * d .. (c + 1) * d - 1
      BY <1>2, <1>4
    <3>2. f \in Nat /\ f \div d = c
      BY <3>1, <1>4, <1>5
    <3> QED
      BY <3>2, <1>2
  <2>2. ASSUME NEW f \in Nat, f \div d \in a .. b, total_frames = Unknown \/ f < total_frames
        PROVE  f \in D
    <3>1. f \in (f \div d) * d .. ((f \div d) + 1) * d - 1
      BY <2>2, <1>4, <1>5
    <3> QED
      BY <3>1, <2>2, <1>2, <1>4
  <2> QED
    BY <2>1, <2>2
<1>7. D \subseteq Nat /\ IsFiniteSet(D)
  <2>1. PICK f0 \in D : TRUE
    OBVIOUS
  <2>2. b \in Nat /\ (b + 1) * d \in Nat
    BY <2>1, <1>1, <1>6, <1>4
  <2>3. \A f \in D : f \in Nat /\ f <= (b + 1) * d
    <3> SUFFICES ASSUME NEW f \in D PROVE f \in Nat /\ f <= (b + 1) * d
      OBVIOUS
    <3>1. f \in Nat /\ f \div d \in Nat /\ f \div d <= b
      BY <1>4, <1>6
    <3>2. f = (f \div d) * d + (f % d) /\ f % d \in 0 .. d - 1
      BY <3>1, <1>1, DivisionIs
    <3>3. PICK j \in Nat : b = (f \div d) + j
      <4>1. b - (f \div d) \in Nat /\ b = (f \div d) + (b - (f \div d))
        BY <3>1, <2>2
      <4> QED
        BY <4>1
    <3>4. (b + 1) * d = (f \div d) * d + j * d + d /\ j * d \in Nat /\ (f \div d) * d \in Nat
      BY <3>1, <3>3, <1>1
    <3> QED
      BY <3>1, <3>2, <3>4, <1>1
  <2> QED
    BY <2>2, <2>3, FS_BoundedSetOfNaturals
<1>8. ASSUME NEW x \in D, NEW y \in D, NEW z \in Nat, x <= z, z <= y PROVE z \in D
  <2>1. x \div d <= z \div d /\ z \div d <= y \div d
    BY <1>1, <1>7, <1>8, DivisionIsMonotone
  <2>2. z \div d \in Nat /\ x \div d \in a .. b /\ y \div d \in a .. b
    BY <1>1, <1>6, DivisionIs
  <2>3. z \div d \in a .. b
    BY <2>1, <2>2, <1>4
  <2>4. total_frames = Unknown \/ z < total_frames
    BY <1>6, <1>8, Sizes DEF Unknown
  <2> QED
    BY <2>3, <2>4, <1>6
<1>9. \A f \in SmallestOf(D) .. SmallestOf(D) + n - 1 : f \in D
  BY <1>7, <1>8, ConvexPrefix
<1> QED
  BY <1>4, <1>6, <1>9 DEF d

---------------------------------------------------------------------------
(* The run a tile shows.                                                   *)

LEMMA LongestRunIs ==
    ASSUME NEW columns, columns \subseteq TileColumns
    PROVE  LongestRun(columns) = {} \/ LongestRun(columns) \in RunsWithin(columns)
<1> DEFINE Preferred(r, q) == \/ Cardinality(r) > Cardinality(q)
                              \/ /\ Cardinality(r) = Cardinality(q)
                                 /\ SmallestOf(r) <= SmallestOf(q)
           runs == RunsWithin(columns) \ {{}}
<1>1. LongestRun(columns) =
          IF runs = {} THEN {} ELSE CHOOSE r \in runs : \A q \in runs : Preferred(r, q)
  BY DEF LongestRun
<1>2. CASE runs = {}
  BY <1>1, <1>2
<1>3. CASE runs # {}
  <2>1. TileColumns \subseteq Nat /\ IsFiniteSet(TileColumns)
    BY Sizes, FS_Interval DEF TileColumns
  <2>2. runs \subseteq SUBSET TileColumns /\ IsFiniteSet(runs)
    <3>1. runs \in SUBSET (SUBSET TileColumns)
      BY DEF RunsWithin
    <3>2. IsFiniteSet(SUBSET TileColumns)
      BY <2>1, FS_SUBSET
    <3> HIDE DEF runs
    <3> QED
      BY <3>1, <3>2, FS_Subset
  <2>3. \A r \in runs : Cardinality(r) \in Nat /\ SmallestOf(r) \in Nat
    <3> SUFFICES ASSUME NEW r \in runs PROVE Cardinality(r) \in Nat /\ SmallestOf(r) \in Nat
      OBVIOUS
    <3>1. r \in SUBSET TileColumns /\ r # {}
      BY <2>2
    <3>2. IsFiniteSet(r)
      BY <3>1, <2>1, FS_Subset
    <3>3. SmallestOf(r) \in r
      BY <3>1, <2>1, SmallestIsFirst
    <3> QED
      BY <3>1, <3>2, <3>3, <2>1, FS_CardinalityType
  <2> HIDE DEF runs
  <2> DEFINE size == [r \in runs |-> Cardinality(r)]
             sizes == {size[r] : r \in runs}
  <2>4. sizes \subseteq Int /\ sizes # {}
    BY <2>3, <1>3
  <2>5. IsFiniteSet(sizes)
    <3> HIDE DEF size
    <3> QED
      BY <2>2, ImageIsFinite
  <2>6. PICK m \in sizes : \A x \in sizes : x <= m
    <3> HIDE DEF sizes
    <3> QED
      BY <2>4, <2>5, LargestExists
  <2> DEFINE starts == {SmallestOf(r) : r \in {q \in runs : Cardinality(q) = m}}
  <2>7. starts \subseteq Nat /\ starts # {}
    BY <2>3, <2>6
  <2>8. PICK a \in starts : \A x \in starts : a <= x
    <3> HIDE DEF starts
    <3> QED
      BY <2>7, SmallestExists
  <2>9. PICK r \in runs : Cardinality(r) = m /\ SmallestOf(r) = a
    BY <2>8
  <2>10. ASSUME NEW q \in runs PROVE Preferred(r, q)
    <3>1. Cardinality(q) \in sizes /\ Cardinality(q) <= m
      BY <2>6
    <3>2. CASE Cardinality(q) = m
      BY <3>2, <2>8, <2>9
    <3>3. CASE Cardinality(q) # m
      BY <3>1, <3>3, <2>3, <2>9
    <3> QED
      BY <3>2, <3>3
  <2> HIDE DEF Preferred
  <2>11. LongestRun(columns) \in runs
    BY <1>1, <1>3, <2>10
  <2> QED
    BY <2>11 DEF runs
<1> QED
  BY <1>2, <1>3

(* The runs that contain a run overlap in it, so they join to one run.     *)
LEMMA ExtendedRunIs ==
    ASSUME NEW columns, columns \subseteq TileColumns, NEW run \in RunsWithin(columns), run # {}
    PROVE  LET R == UNION {r \in RunsWithin(columns) : run \subseteq r}
           IN  run \subseteq R /\ R \in RunsWithin(columns)
<1> DEFINE R == UNION {r \in RunsWithin(columns) : run \subseteq r}
<1>1. TileColumns \subseteq Nat /\ IsFiniteSet(TileColumns)
  BY Sizes, FS_Interval DEF TileColumns
<1>2. run \subseteq R
  OBVIOUS
<1>3. R \subseteq columns /\ R \subseteq Nat /\ R # {}
  BY <1>1, <1>2 DEF RunsWithin
<1>4. IsFiniteSet(R)
  <2>1. R \in SUBSET TileColumns
    BY <1>3
  <2> HIDE DEF R
  <2> QED
    BY <2>1, <1>1, FS_Subset
<1>5. PICK a \in R : \A x \in R : a <= x
  <2> HIDE DEF R
  <2> QED
    BY <1>3, SmallestExists
<1>6. PICK b \in R : \A x \in R : x <= b
  <2>1. R \subseteq Int
    BY <1>3
  <2> HIDE DEF R
  <2> QED
    BY <2>1, <1>3, <1>4, LargestExists
<1>7. PICK x \in run : TRUE
  OBVIOUS
<1>8. PICK p \in RunsWithin(columns) : a \in p /\ x \in p /\ run \subseteq p
  BY <1>5
<1>9. PICK q \in RunsWithin(columns) : b \in q /\ x \in q /\ run \subseteq q
  BY <1>6
<1>10. ASSUME NEW z \in a .. b PROVE z \in R
  <2>1. PICK pa \in columns, pb \in columns : p = pa .. pb
    BY <1>8 DEF RunsWithin
  <2>2. PICK qa \in columns, qb \in columns : q = qa .. qb
    BY <1>9 DEF RunsWithin
  <2>3. /\ pa \in Nat /\ pb \in Nat /\ qa \in Nat /\ qb \in Nat
        /\ a \in Nat /\ b \in Nat /\ x \in Nat
    BY <2>1, <2>2, <1>1, <1>3, <1>2, <1>7
  <2>4. CASE z <= x
    <3>1. z \in p
      BY <2>1, <2>3, <2>4, <1>8
    <3> QED
      BY <3>1, <1>8
  <2>5. CASE ~(z <= x)
    <3>1. z \in q
      BY <2>2, <2>3, <2>5, <1>9
    <3> QED
      BY <3>1, <1>9
  <2> QED
    BY <2>4, <2>5
<1>11. R = a .. b
  <2>1. \A z \in R : z \in a .. b
    <3> HIDE DEF R
    <3> QED
      BY <1>3, <1>5, <1>6
  <2> HIDE DEF R
  <2> QED
    BY <2>1, <1>10
<1>12. R \in RunsWithin(columns)
  <2>1. a \in columns /\ b \in columns
    BY <1>3
  <2> HIDE DEF R
  <2> QED
    BY <2>1, <1>3, <1>11 DEF RunsWithin
<1> QED
  BY <1>2, <1>12

LEMMA RefreshedTile ==
    ASSUME NEW t, IsTile(t), NEW end
    PROVE  LET u == RefreshTile(t, end)
           IN  /\ IsTile(u) /\ u.index = t.index /\ u.sample_count = t.sample_count
               /\ u.heard = t.heard /\ u.complete = Completed(t, end) /\ t.run \subseteq u.run
<1> DEFINE u == RefreshTile(t, end)
           columns == Completed(t, end)
           run == SelectOrExtendRun(t.run, columns)
<1>1. t # NoTile
  BY NoTileIsNone
<1>2. t.complete \subseteq columns /\ columns \subseteq TileColumns
  BY DEF Completed, IsTile
<1>3. u = [t EXCEPT !.complete = columns, !.run = run]
  BY <1>1 DEF RefreshTile
<1> HIDE DEF u, columns
<1>4. t.run \subseteq run /\ (run = {} \/ run \in RunsWithin(columns))
  <2>1. CASE t.run = {}
    <3>1. run = LongestRun(columns)
      BY <2>1 DEF SelectOrExtendRun
    <3> QED
      BY <3>1, <2>1, <1>2, LongestRunIs
  <2>2. CASE t.run # {}
    <3>1. run = UNION {r \in RunsWithin(columns) : t.run \subseteq r}
      BY <2>2 DEF SelectOrExtendRun
    <3>2. t.run \in RunsWithin(columns)
      BY <2>2, <1>2 DEF IsTile, RunsWithin
    <3> HIDE DEF run
    <3> QED
      BY <3>1, <3>2, <2>2, <1>2, ExtendedRunIs
  <2> QED
    BY <2>1, <2>2
<1> HIDE DEF run
<1>5. u = [index |-> t.index, sample_count |-> t.sample_count, complete |-> columns,
           run |-> run, heard |-> t.heard]
  <2>1. t = [index |-> t.index, sample_count |-> t.sample_count, complete |-> t.complete,
             run |-> t.run, heard |-> t.heard]
    BY DEF IsTile
  <2> QED
    BY <2>1, <1>3
<1>6. /\ u.index = t.index /\ u.sample_count = t.sample_count /\ u.complete = columns
      /\ u.run = run /\ u.heard = t.heard
  BY <1>5
<1>7. IsTile(u)
  BY <1>2, <1>4, <1>5, <1>6 DEF IsTile
<1> QED
  BY <1>4, <1>6, <1>7 DEF u, columns

Refreshed(slots, end) == [s \in Slots |-> RefreshTile(slots[s], end)]

LEMMA RefreshIsOK ==
    ASSUME NEW slots, SlotsOK(slots), NEW end
    PROVE  /\ SlotsOK(Refreshed(slots, end)) /\ Occupied(Refreshed(slots, end)) = Occupied(slots)
           /\ \A s \in Occupied(slots) :
                  /\ Refreshed(slots, end)[s] = RefreshTile(slots[s], end)
                  /\ IsTile(slots[s])
                  /\ Refreshed(slots, end)[s].index = slots[s].index
                  /\ slots[s].run \subseteq Refreshed(slots, end)[s].run
<1> DEFINE new == Refreshed(slots, end)
<1>1. new = [s \in Slots |-> RefreshTile(slots[s], end)]
  BY DEF Refreshed
<1> HIDE DEF new
<1>2. \A s \in Slots : slots[s] = NoTile => new[s] = NoTile
  BY <1>1 DEF RefreshTile
<1>3. \A s \in Occupied(slots) :
          /\ new[s] = RefreshTile(slots[s], end) /\ IsTile(slots[s]) /\ IsTile(new[s])
          /\ new[s].index = slots[s].index /\ new[s] # NoTile
          /\ slots[s].run \subseteq new[s].run
  <2> SUFFICES ASSUME NEW s \in Occupied(slots)
               PROVE  /\ new[s] = RefreshTile(slots[s], end) /\ IsTile(slots[s]) /\ IsTile(new[s])
                      /\ new[s].index = slots[s].index /\ new[s] # NoTile
                      /\ slots[s].run \subseteq new[s].run
    OBVIOUS
  <2>1. s \in Slots /\ IsTile(slots[s])
    BY DEF Occupied, SlotsOK
  <2>2. new[s] = RefreshTile(slots[s], end)
    BY <2>1, <1>1
  <2> QED
    BY <2>1, <2>2, RefreshedTile, NoTileIsNone
<1>4. Occupied(new) = Occupied(slots)
  BY <1>2, <1>3 DEF Occupied
<1>5. SlotsOK(new)
  <2>1. new = [s \in Slots |-> new[s]]
    BY <1>1
  <2>2. \A s \in Slots : new[s] = NoTile \/ IsTile(new[s])
    BY <1>2, <1>3 DEF Occupied
  <2>3. \A r, s \in Occupied(new) : new[r].index = new[s].index => r = s
    BY <1>3, <1>4 DEF SlotsOK
  <2> QED
    BY <2>1, <2>2, <2>3 DEF SlotsOK
<1> QED
  BY <1>3, <1>4, <1>5 DEF new

(* A column found complete by its count is full.                           *)
LEMMA RefreshCounts ==
    ASSUME NEW slots, SlotsOK(slots), NEW got, CountsOK(slots, got),
           NEW end \in {Unknown, TrackFrames}
    PROVE  CountsOK(Refreshed(slots, end), got)
<1> DEFINE new == Refreshed(slots, end)
<1>1. Occupied(new) = Occupied(slots)
  BY RefreshIsOK
<1>2. ASSUME NEW s \in Occupied(slots)
      PROVE  /\ \A c \in TileColumns : ColumnOK(new[s], c, got)
             /\ \A c \in new[s].complete : Full(new[s], c)
  <2> DEFINE t == slots[s]
             u == new[s]
  <2>1. IsTile(t) /\ t.index \in Nat /\ u = RefreshTile(t, end)
    BY RefreshIsOK, NoTileIsNone
  <2>2. /\ u.index = t.index /\ u.sample_count = t.sample_count /\ u.heard = t.heard
        /\ u.complete = Completed(t, end)
    BY <2>1, RefreshedTile
  <2>3. /\ \A c \in TileColumns : ColumnOK(t, c, got)
        /\ \A c \in t.complete : Full(t, c)
    BY DEF CountsOK
  <2> HIDE DEF t, u
  <2>4. \A c \in TileColumns : ColumnOK(u, c, got)
    BY <2>2, <2>3 DEF ColumnOK, Full, Exact, HeardOf
  <2>5. ASSUME NEW c \in u.complete PROVE Full(u, c)
    <3>1. \/ c \in t.complete
          \/ c \in TileColumns /\ t.sample_count[c] = ExpectedColumnFrames(t.index, c, end)
      BY <2>2 DEF Completed
    <3>2. CASE c \in t.complete
      BY <3>2, <2>2, <2>3 DEF Full
    <3>3. CASE c \in TileColumns /\ t.sample_count[c] = ExpectedColumnFrames(t.index, c, end)
      <4>1. CASE Full(t, c)
        BY <4>1, <2>2 DEF Full
      <4>2. CASE Exact(t, c, got)
        <5> DEFINE C == ColumnFrames(t.index, c)
                   H == HeardOf(t, c)
        <5>1. IsFiniteSet(C) /\ Cardinality(C) \in Nat
          BY <2>1, <3>3, ColumnFramesAre
        <5>2. H \in SUBSET C
          BY DEF HeardOf
        <5>3. Cardinality(C) <= Cardinality(H)
          BY <2>1, <3>3, <4>2, ExpectedIsEnough DEF Exact
        <5>4. H = C
          <6> HIDE DEF H, C
          <6>1. Cardinality(H) <= Cardinality(C) /\ IsFiniteSet(H)
            BY <5>1, <5>2, FS_Subset
          <6>2. Cardinality(H) \in Nat
            BY <6>1, FS_CardinalityType
          <6>3. Cardinality(H) = Cardinality(C)
            BY <6>1, <6>2, <5>1, <5>3
          <6> QED
            BY <6>3, <5>1, <5>2, FS_Subset
        <5> QED
          BY <5>4, <2>2 DEF Full, HeardOf
      <4> QED
        BY <4>1, <4>2, <3>3, <2>3 DEF ColumnOK
    <3> QED
      BY <3>1, <3>2, <3>3
  <2> QED
    BY <2>4, <2>5 DEF u
<1> QED
  BY <1>1, <1>2 DEF CountsOK

---------------------------------------------------------------------------
(* What the cache shows.                                                   *)

Shows(t) == t # NoTile /\ t.run # {}

(* Two caches show the same when they show the same runs slot by slot.     *)
SameShown(old, new) ==
    \A s \in Slots : /\ Shows(new[s]) <=> Shows(old[s])
                     /\ Shows(new[s]) => new[s].index = old[s].index /\ new[s].run = old[s].run

LEMMA SameViews ==
    ASSUME NEW old, NEW new, SameShown(old, new), NEW end
    PROVE  Views(new, end) = Views(old, end)
<1> DEFINE O == {r \in Slots : old[r] # NoTile /\ old[r].run # {}}
           N == {r \in Slots : new[r] # NoTile /\ new[r].run # {}}
<1>1. N = O
  BY DEF SameShown, Shows
<1>2. ASSUME NEW s \in N PROVE View(new[s], end) = View(old[s], end)
  <2>1. new[s].index = old[s].index /\ new[s].run = old[s].run
    BY <1>2 DEF SameShown, Shows
  <2> QED
    BY <2>1, Zenon DEF View
<1>3. Views(new, end) = {View(new[s], end) : s \in N} /\ Views(old, end) = {View(old[s], end) : s \in O}
  BY DEF Views
<1> HIDE DEF N, O
<1> QED
  BY <1>1, <1>2, <1>3

(* A sample that makes no publication due changes nothing that is shown.   *)
LEMMA SampleShows ==
    ASSUME NEW cache, IsCache(cache), CacheOK(cache), NEW frame \in Frames,
           NEW next, next = ProcessSample(cache, frame)
    PROVE  /\ cache.due => next.due
           /\ ~next.due => SameShown(cache.tiles, next.tiles)
<1>1. cache.due => next.due
  <2>1. CASE \E s \in Slots : Hits(cache, next, frame, s)
    BY <2>1 DEF Hits
  <2>2. CASE \E s \in Slots : Misses(cache, next, frame, s)
    BY <2>2 DEF Misses
  <2>3. CASE Denied(cache, next, frame)
    BY <2>3 DEF Denied
  <2> QED
    BY <2>1, <2>2, <2>3, SampleIs
<1>2. ASSUME ~next.due, NEW s \in Slots
      PROVE  /\ Shows(next.tiles[s]) <=> Shows(cache.tiles[s])
             /\ Shows(next.tiles[s]) => /\ next.tiles[s].index = cache.tiles[s].index
                                        /\ next.tiles[s].run = cache.tiles[s].run
  <2>1. CASE next.tiles[s] = cache.tiles[s]
    BY <2>1
  <2>2. CASE Hits(cache, next, frame, s) /\ next.tiles[s] = CountSample(cache.tiles[s], frame)
    <3>1. IsTile(cache.tiles[s]) /\ cache.tiles[s].index = TileOf(frame)
      BY <2>2 DEF Hits, CacheOK, SlotsOK
    <3>2. /\ IsTile(next.tiles[s]) /\ next.tiles[s].index = cache.tiles[s].index
          /\ next.tiles[s].run = cache.tiles[s].run
      BY <3>1, <2>2, CountedTile
    <3> QED
      BY <3>1, <3>2, NoTileIsNone DEF Shows
  <2>3. CASE Misses(cache, next, frame, s)
             /\ next.tiles[s] = CountSample(FreshTile(TileOf(frame)), frame)
    <3>1. next.tiles[s].run = {}
      BY <2>3, FreshIsTile, CountedTile
    <3>2. ~Shows(cache.tiles[s])
      BY <2>3, <1>2 DEF Misses, EvictionIsVisible, Shows
    <3> QED
      BY <3>1, <3>2 DEF Shows
  <2> QED
    BY <2>1, <2>2, <2>3, SampleInSlot
<1> QED
  BY <1>1, <1>2 DEF SameShown

(* Slot s still has the tile it had before the block, or that tile was     *)
(* evicted: visibly if it had a run, and if it was protected all the cache *)
(* is and stays protected.                                                 *)
Kept(s, cache) ==
    \/ cache.tiles[s].index = tiles[s].index /\ cache.tiles[s].run = tiles[s].run
    \/ /\ tiles[s].run # {} => cache.due
       /\ Protected(tiles[s].index) =>
              \A r \in Slots : cache.tiles[r] # NoTile /\ Protected(cache.tiles[r].index)

LEMMA SampleKeeps ==
    ASSUME NEW cache, IsCache(cache), CacheOK(cache), NEW frame \in Frames,
           NEW next, next = ProcessSample(cache, frame), CacheOK(ThisCache),
           NEW s \in Slots, tiles[s] # NoTile, Kept(s, cache)
    PROVE  Kept(s, next)
<1> DEFINE i == TileOf(frame)
<1>1. cache.due => next.due
  BY SampleShows
<1>2. tiles[s].index \in Nat
  BY NoTileIsNone DEF CacheOK, SlotsOK, ThisCache
<1>3. ASSUME \A r \in Slots : cache.tiles[r] # NoTile /\ Protected(cache.tiles[r].index)
      PROVE  \A r \in Slots : next.tiles[r] # NoTile /\ Protected(next.tiles[r].index)
  <2> SUFFICES ASSUME NEW r \in Slots
               PROVE  next.tiles[r] # NoTile /\ Protected(next.tiles[r].index)
    OBVIOUS
  <2>1. CASE next.tiles[r] = cache.tiles[r]
    BY <2>1, <1>3
  <2>2. CASE Hits(cache, next, frame, r) /\ next.tiles[r] = CountSample(cache.tiles[r], frame)
    <3>1. IsTile(cache.tiles[r]) /\ cache.tiles[r].index = TileOf(frame)
      BY <2>2 DEF Hits, CacheOK, SlotsOK
    <3>2. IsTile(next.tiles[r]) /\ next.tiles[r].index = cache.tiles[r].index
      BY <3>1, <2>2, CountedTile
    <3> QED
      BY <3>2, <1>3, NoTileIsNone
  <2>3. CASE Misses(cache, next, frame, r)
             /\ next.tiles[r] = CountSample(FreshTile(TileOf(frame)), frame)
    <3>1. IsTile(next.tiles[r]) /\ next.tiles[r].index = i
      BY <2>3, FreshIsTile, CountedTile
    <3>2. r = VictimSlot(cache, i) /\ r # NoSlot
      BY <2>3 DEF Misses, Slots, NoSlot
    <3>3. Protected(i)
      <4> HIDE DEF i
      <4> QED
        BY <3>2, <1>3, VictimIs
    <3> QED
      BY <3>1, <3>3, NoTileIsNone
  <2> QED
    BY <2>1, <2>2, <2>3, SampleInSlot
<1>4. CASE cache.tiles[s].index = tiles[s].index /\ cache.tiles[s].run = tiles[s].run
  <2>0. cache.tiles[s] # NoTile
    BY <1>2, <1>4, NoTileIsNone
  <2>1. CASE next.tiles[s] = cache.tiles[s]
    BY <2>1, <1>4 DEF Kept
  <2>2. CASE Hits(cache, next, frame, s) /\ next.tiles[s] = CountSample(cache.tiles[s], frame)
    <3>1. IsTile(cache.tiles[s]) /\ cache.tiles[s].index = TileOf(frame)
      BY <2>2 DEF Hits, CacheOK, SlotsOK
    <3>2. next.tiles[s].index = cache.tiles[s].index /\ next.tiles[s].run = cache.tiles[s].run
      BY <3>1, <2>2, CountedTile
    <3> QED
      BY <3>2, <1>4 DEF Kept
  <2>3. CASE Misses(cache, next, frame, s)
             /\ next.tiles[s] = CountSample(FreshTile(TileOf(frame)), frame)
    <3>1. s = VictimSlot(cache, i) /\ s # NoSlot
      BY <2>3 DEF Misses, Slots, NoSlot
    <3>2. tiles[s].run # {} => next.due
      BY <2>3, <2>0, <1>4 DEF Misses, EvictionIsVisible
    <3>3. ASSUME Protected(tiles[s].index)
          PROVE  \A r \in Slots : cache.tiles[r] # NoTile /\ Protected(cache.tiles[r].index)
      <4>1. Protected(cache.tiles[s].index)
        BY <3>3, <1>4
      <4> HIDE DEF i
      <4> QED
        BY <4>1, <3>1, <2>0, VictimIs
    <3> QED
      BY <3>2, <3>3, <1>3 DEF Kept
  <2> QED
    BY <2>1, <2>2, <2>3, SampleInSlot
<1>5. CASE /\ tiles[s].run # {} => cache.due
           /\ Protected(tiles[s].index) =>
                  \A r \in Slots : cache.tiles[r] # NoTile /\ Protected(cache.tiles[r].index)
  BY <1>1, <1>3, <1>5 DEF Kept
<1> QED
  BY <1>4, <1>5 DEF Kept

(* What holds after the whole block.                                       *)
LEMMA FeedShows ==
    ASSUME detail_due \in BOOLEAN, CacheOK(ThisCache), NEW first \in Nat, NEW n \in Nat,
           first + n <= TrackFrames, NEW replay
    PROVE  LET cache == FeedFrames(first, n, replay)
           IN  /\ IsCache(cache) /\ CacheOK(cache)
               /\ ~cache.due => ~detail_due /\ SameShown(tiles, cache.tiles)
               /\ \A s \in Slots : tiles[s] # NoTile => Kept(s, cache)
<1>1. PICK F : IsFeed(F, first, n, replay) /\ FeedFrames(first, n, replay) = F[n]
  BY FeedIs
<1>2. \A k \in 0 .. n : IsCache(F[k]) /\ CacheOK(F[k])
  BY <1>1, FeedIsOK
<1> DEFINE Good(cache) == /\ ~cache.due => ~detail_due /\ SameShown(tiles, cache.tiles)
                          /\ \A s \in Slots : tiles[s] # NoTile => Kept(s, cache)
           T == {k \in 0 .. n : Good(F[k])}
<1>3. 0 \in T
  <2>1. F[0].tiles = tiles /\ F[0].due = detail_due
    BY <1>1 DEF IsFeed, StartCache
  <2>2. Good(F[0])
    BY <2>1 DEF Kept, SameShown
  <2> HIDE DEF Good
  <2> QED
    BY <2>2
<1>4. ASSUME NEW k \in 1 .. n, k - 1 \in T PROVE k \in T
  <2> DEFINE f == first + k - 1
             cache == F[k - 1]
             next == F[k]
  <2>1. f \in Frames
    BY Sizes DEF Frames
  <2>2. next = FeedOne(cache, f, replay)
    BY <1>1 DEF IsFeed
  <2>3. IsCache(cache) /\ CacheOK(cache) /\ Good(cache)
    BY <1>2, <1>4
  <2> HIDE DEF f, cache, next
  <2>4. Good(next)
    <3>1. CASE cache.stopped /\ ~replay
      BY <3>1, <2>2, <2>3 DEF FeedOne
    <3>2. CASE ~(cache.stopped /\ ~replay)
      <4>1. next = ProcessSample(cache, f)
        BY <3>2, <2>2 DEF FeedOne
      <4>2. (cache.due => next.due) /\ (~next.due => SameShown(cache.tiles, next.tiles))
        BY <4>1, <2>1, <2>3, SampleShows
      <4>3. ~next.due => ~detail_due /\ SameShown(tiles, next.tiles)
        BY <4>2, <2>3 DEF SameShown
      <4>4. \A s \in Slots : tiles[s] # NoTile => Kept(s, next)
        BY <4>1, <2>1, <2>3, SampleKeeps
      <4> QED
        BY <4>3, <4>4
    <3> QED
      BY <3>1, <3>2
  <2> HIDE DEF Good
  <2> QED
    BY <2>4 DEF next
<1>5. Good(F[n])
  <2>1. T \in SUBSET (0 .. n)
    OBVIOUS
  <2> HIDE DEF T, Good
  <2>2. T = 0 .. n
    BY <1>3, <1>4, <2>1, Induction
  <2>3. n \in T
    BY <2>2
  <2> QED
    BY <2>3 DEF T
<1> QED
  BY <1>1, <1>2, <1>5

---------------------------------------------------------------------------
(* The steps.                                                              *)

(* apta_internal_detail_refresh_completed on a well formed cache.          *)
LEMMA RefreshStep ==
    ASSUME NEW cache, SlotsOK(cache.tiles), OrderOK(cache.recency, Occupied(cache.tiles)),
           cache.due \in BOOLEAN, NEW got, CountsOK(cache.tiles, got),
           NEW end \in {Unknown, TrackFrames}, RefreshCompleted(cache, end)
    PROVE  /\ SlotsOK(tiles') /\ OrderOK(recency', Occupied(tiles')) /\ CountsOK(tiles', got)
           /\ detail_due' \in BOOLEAN /\ (cache.due => detail_due')
           /\ ~detail_due' => SameShown(cache.tiles, tiles')
           /\ Occupied(tiles') = Occupied(cache.tiles)
           /\ \A s \in Occupied(cache.tiles) : /\ tiles'[s].index = cache.tiles[s].index
                                               /\ cache.tiles[s].run \subseteq tiles'[s].run
<1> DEFINE new == Refreshed(cache.tiles, end)
<1>1. /\ tiles' = new /\ recency' = cache.recency
      /\ detail_due' = (cache.due \/ \E s \in Slots : cache.tiles[s] # NoTile
                                                      /\ new[s].run # cache.tiles[s].run)
  BY DEF RefreshCompleted, Refreshed
<1>2. /\ SlotsOK(new) /\ Occupied(new) = Occupied(cache.tiles)
      /\ \A s \in Occupied(cache.tiles) : /\ new[s].index = cache.tiles[s].index
                                          /\ cache.tiles[s].run \subseteq new[s].run
  BY RefreshIsOK
<1>3. CountsOK(new, got)
  BY RefreshCounts
<1> HIDE DEF new
<1>4. ASSUME ~detail_due' PROVE SameShown(cache.tiles, new)
  <2>1. ASSUME NEW s \in Slots
        PROVE  /\ Shows(new[s]) <=> Shows(cache.tiles[s])
               /\ Shows(new[s]) => /\ new[s].index = cache.tiles[s].index
                                   /\ new[s].run = cache.tiles[s].run
    <3>1. new[s] # NoTile <=> cache.tiles[s] # NoTile
      BY <1>2 DEF Occupied
    <3>2. CASE cache.tiles[s] = NoTile
      BY <3>1, <3>2 DEF Shows
    <3>3. CASE cache.tiles[s] # NoTile
      <4>1. new[s].run = cache.tiles[s].run
        BY <3>3, <1>1, <1>4
      <4>2. new[s].index = cache.tiles[s].index
        BY <3>3, <1>2 DEF Occupied
      <4> QED
        BY <4>1, <4>2, <3>1, <3>3 DEF Shows
    <3> QED
      BY <3>2, <3>3
  <2> QED
    BY <2>1 DEF SameShown
<1>5. detail_due' \in BOOLEAN /\ (cache.due => detail_due')
  BY <1>1
<1> QED
  BY <1>1, <1>2, <1>3, <1>4, <1>5

(* The frames a push accepts are new and lie in the source.                *)
LEMMA PrefixIs ==
    ASSUME accepted \subseteq Frames, NEW block \in Blocks, NEW n \in 1 .. MaxPush,
           n \in {AcceptablePrefix(block), AcceptablePrefix(block) \div 2} \ {0}
    PROVE  /\ block.first \in Nat /\ n \in Nat /\ block.first + n <= TrackFrames
           /\ (block.first .. block.first + n - 1) \cap accepted = {}
           /\ accepted \cup (block.first .. block.first + n - 1) \subseteq Frames
<1> DEFINE first == block.first
           limit == first + Smaller(block.count, MaxPush)
           S == {f \in accepted : f >= first} \cup {limit}
           stop == SmallestOf(S)
<1>1. /\ first \in Nat /\ block.count \in Nat /\ first + block.count <= TrackFrames
      /\ MaxPush \in Nat /\ TrackFrames \in Nat
  BY DetailAssumption, Sizes
<1> HIDE DEF first
<1>2. limit \in Nat /\ first <= limit /\ limit <= first + block.count
  BY <1>1 DEF Smaller
<1> HIDE DEF limit
<1>3. accepted \subseteq Nat
  BY <1>1 DEF Frames
<1>4. S \subseteq Nat /\ S # {}
  BY <1>1, <1>2, <1>3
<1>5. stop \in S /\ \A x \in S : stop <= x
  <2> HIDE DEF S
  <2> QED
    BY <1>4, SmallestIsFirst
<1>6. AcceptablePrefix(block) = stop - first
  BY DEF AcceptablePrefix, first, limit
<1>7. stop \in Nat /\ first <= stop /\ stop <= first + block.count
  <2>1. stop <= limit
    BY <1>5
  <2>2. stop \in Nat /\ first <= stop
    <3> HIDE DEF stop
    <3> QED
      BY <1>1, <1>2, <1>3, <1>5
  <2> HIDE DEF stop
  <2> QED
    BY <2>1, <2>2, <1>1, <1>2
<1> HIDE DEF stop
<1>8. n \in Nat /\ first + n <= stop
  <2>1. stop - first \in Nat
    BY <1>1, <1>7
  <2>2. (stop - first) \div 2 <= stop - first /\ (stop - first) \div 2 \in Nat
    BY <2>1
  <2> QED
    BY <2>1, <2>2, <1>1, <1>6, <1>7
<1>9. first + n <= TrackFrames
  BY <1>1, <1>7, <1>8
<1>10. ASSUME NEW f \in first .. first + n - 1 PROVE f \notin accepted /\ f \in Frames
  <2>1. f \in Nat /\ f < stop /\ first <= f
    BY <1>1, <1>7, <1>8
  <2>2. f \notin accepted
    BY <2>1, <1>5, <1>7
  <2> QED
    BY <2>1, <2>2, <1>1, <1>8, <1>9 DEF Frames
<1> QED
  BY <1>1, <1>8, <1>9, <1>10 DEF first

(* What the two ways of feeding a block establish.                         *)
BlockStep(got) ==
    /\ SlotsOK(tiles') /\ OrderOK(recency', Occupied(tiles')) /\ CountsOK(tiles', got)
    /\ detail_due' \in BOOLEAN
    /\ ~detail_due' => ~detail_due /\ Views(tiles', final_end_frame) = Views(tiles, final_end_frame)
    /\ \A s \in Slots : tiles[s] # NoTile =>
          \/ tiles'[s].index = tiles[s].index /\ tiles[s].run \subseteq tiles'[s].run
          \/ /\ tiles[s].run # {} => detail_due'
             /\ Protected(tiles[s].index) => \A r \in Slots : Protected(tiles'[r].index)

LEMMA FedBlock ==
    ASSUME Inv, NEW first \in Nat, NEW n \in Nat, first + n <= TrackFrames, NEW replay, NEW got,
           CountsOK(FeedFrames(first, n, replay).tiles, got),
           RefreshCompleted(FeedFrames(first, n, replay), final_end_frame)
    PROVE  BlockStep(got)
<1> DEFINE cache == FeedFrames(first, n, replay)
<1>1. /\ IsCache(cache) /\ CacheOK(cache)
      /\ ~cache.due => ~detail_due /\ SameShown(tiles, cache.tiles)
      /\ \A s \in Slots : tiles[s] # NoTile => Kept(s, cache)
  BY FeedShows DEF Inv
<1>2. SlotsOK(cache.tiles) /\ OrderOK(cache.recency, Occupied(cache.tiles)) /\ cache.due \in BOOLEAN
  BY <1>1 DEF CacheOK, IsCache
<1>3. final_end_frame \in {Unknown, TrackFrames}
  BY DEF Inv
<1>4. CountsOK(cache.tiles, got) /\ RefreshCompleted(cache, final_end_frame)
  OBVIOUS
<1>5. SlotsOK(tiles)
  BY DEF Inv, CacheOK, ThisCache
<1> HIDE DEF cache
<1>6. /\ SlotsOK(tiles') /\ OrderOK(recency', Occupied(tiles')) /\ CountsOK(tiles', got)
      /\ detail_due' \in BOOLEAN /\ (cache.due => detail_due')
      /\ ~detail_due' => SameShown(cache.tiles, tiles')
      /\ Occupied(tiles') = Occupied(cache.tiles)
      /\ \A s \in Occupied(cache.tiles) : /\ tiles'[s].index = cache.tiles[s].index
                                          /\ cache.tiles[s].run \subseteq tiles'[s].run
  BY <1>2, <1>3, <1>4, RefreshStep
<1>7. ASSUME ~detail_due'
      PROVE  ~detail_due /\ Views(tiles', final_end_frame) = Views(tiles, final_end_frame)
  <2>1. ~detail_due /\ SameShown(tiles, cache.tiles) /\ SameShown(cache.tiles, tiles')
    BY <1>1, <1>6, <1>7
  <2>2. /\ Views(cache.tiles, final_end_frame) = Views(tiles, final_end_frame)
        /\ Views(tiles', final_end_frame) = Views(cache.tiles, final_end_frame)
    BY <2>1, SameViews
  <2> QED
    BY <2>1, <2>2
<1>8. ASSUME NEW s \in Slots, tiles[s] # NoTile
      PROVE  \/ tiles'[s].index = tiles[s].index /\ tiles[s].run \subseteq tiles'[s].run
             \/ /\ tiles[s].run # {} => detail_due'
                /\ Protected(tiles[s].index) => \A r \in Slots : Protected(tiles'[r].index)
  <2>1. Kept(s, cache)
    BY <1>1, <1>8
  <2>2. CASE cache.tiles[s].index = tiles[s].index /\ cache.tiles[s].run = tiles[s].run
    <3>1. IsTile(tiles[s])
      BY <1>5, <1>8 DEF SlotsOK
    <3>2. s \in Occupied(cache.tiles)
      BY <3>1, <2>2, NoTileIsNone DEF Occupied
    <3> QED
      BY <3>2, <2>2, <1>6
  <2>3. CASE /\ tiles[s].run # {} => cache.due
             /\ Protected(tiles[s].index) =>
                    \A r \in Slots : cache.tiles[r] # NoTile /\ Protected(cache.tiles[r].index)
    <3>1. ASSUME Protected(tiles[s].index), NEW r \in Slots PROVE Protected(tiles'[r].index)
      <4>1. cache.tiles[r] # NoTile /\ Protected(cache.tiles[r].index)
        BY <3>1, <2>3
      <4>2. r \in Occupied(cache.tiles)
        BY <4>1 DEF Occupied
      <4>3. tiles'[r].index = cache.tiles[r].index
        BY <4>2, <1>6
      <4> QED
        BY <4>1, <4>3
    <3> QED
      BY <3>1, <2>3, <1>6
  <2> QED
    BY <2>1, <2>2, <2>3 DEF Kept
<1> QED
  BY <1>6, <1>7, <1>8 DEF BlockStep

LEMMA PushStep ==
    ASSUME Inv, NEW block \in Blocks, NEW n \in 1 .. MaxPush, PushPcm(block, n)
    PROVE  accepted' \subseteq Frames /\ BlockStep(accepted')
<1> DEFINE first == block.first
<1>1. /\ first \in Nat /\ n \in Nat /\ first + n <= TrackFrames
      /\ (first .. first + n - 1) \cap accepted = {}
      /\ accepted \cup (first .. first + n - 1) \subseteq Frames
  BY PrefixIs DEF PushPcm, Inv
<1>2. /\ accepted' = accepted \cup (first .. first + n - 1)
      /\ RefreshCompleted(FeedFrames(first, n, FALSE), final_end_frame)
  BY DEF PushPcm
<1> HIDE DEF first
<1>3. CountsOK(FeedFrames(first, n, FALSE).tiles, accepted')
  BY <1>1, <1>2, PushCounts
<1>4. \E replay : /\ CountsOK(FeedFrames(first, n, replay).tiles, accepted')
                  /\ RefreshCompleted(FeedFrames(first, n, replay), final_end_frame)
  BY <1>2, <1>3
<1> QED
  BY <1>1, <1>2, <1>4, FedBlock

LEMMA ReplayStep ==
    ASSUME Inv, NEW block \in Blocks, ReplayPcm(block)
    PROVE  BlockStep(accepted)
<1> DEFINE first == block.first
           n == Smaller(block.count, MaxPush)
           D == DemandFrames(BaseTarget)
           d == FramesPerColumn
<1>1. /\ first \in Nat /\ block.count \in Nat /\ first + block.count <= TrackFrames
      /\ MaxPush \in Nat \ {0} /\ d \in Nat \ {0} /\ TrackFrames \in Nat
      /\ MaxPush % d = 0
  BY DetailAssumption, Sizes
<1>2. /\ first % d = 0 /\ D # {} /\ first = SmallestOf(D) /\ block.count <= Cardinality(D)
      /\ (first + block.count) % d = 0 \/ first + block.count = total_frames
      /\ RefreshCompleted(FeedFrames(first, n, TRUE), final_end_frame)
  BY DEF ReplayPcm, ReplayIsAligned
<1>3. SteeringOK /\ total_frames \in {Unknown, TrackFrames}
  BY DEF Inv
<1>4. n \in Nat /\ n <= block.count /\ (n = block.count \/ n = MaxPush)
  BY <1>1 DEF Smaller
<1> HIDE DEF first, n, D, d
<1>5. first + n <= TrackFrames
  BY <1>1, <1>4
<1>6. (first + n) % d = 0 \/ first + n = TrackFrames
  <2>1. CASE n = block.count
    BY <2>1, <1>1, <1>2, <1>3 DEF Unknown
  <2>2. CASE n = MaxPush
    <3> DEFINE a == first \div d
               b == MaxPush \div d
    <3>1. a \in Nat /\ first = a * d
      <4>1. a \in Nat /\ first = a * d + (first % d) /\ a * d \in Nat
        <5>1. a \in Nat /\ first = a * d + (first % d)
          BY <1>1, DivisionIs
        <5> HIDE DEF a
        <5> QED
          BY <5>1, <1>1
      <4> QED
        BY <4>1, <1>2
    <3>2. b \in Nat /\ MaxPush = b * d
      <4>1. b \in Nat /\ MaxPush = b * d + (MaxPush % d) /\ b * d \in Nat
        <5>1. b \in Nat /\ MaxPush = b * d + (MaxPush % d)
          BY <1>1, DivisionIs
        <5> HIDE DEF b
        <5> QED
          BY <5>1, <1>1
      <4> QED
        BY <4>1, <1>1
    <3> HIDE DEF a, b
    <3>3. first + n = (a + b) * d + 0 /\ a + b \in Nat /\ 0 \in 0 .. d - 1
      BY <3>1, <3>2, <2>2, <1>1
    <3>4. ((a + b) * d + 0) % d = 0
      BY <3>3, <1>1, DivisionIsUnique
    <3> QED
      BY <3>3, <3>4
  <2> QED
    BY <2>1, <2>2, <1>4
<1>7. \A f \in first .. first + n - 1 : ColumnIsEmpty(f \div d)
  <2>1. \A f \in SmallestOf(D) .. SmallestOf(D) + block.count - 1 : ColumnIsEmpty(f \div d)
    <3>1. D = DemandFrames(BaseTarget)
      BY DEF D
    <3> QED
      BY <3>1, <1>1, <1>2, <1>3, ReplayedIsEmpty DEF d
  <2>2. \A f \in first .. first + n - 1 : f \in SmallestOf(D) .. SmallestOf(D) + block.count - 1
    <3>1. SmallestOf(D) = first
      BY <1>2
    <3> QED
      BY <3>1, <1>1, <1>4
  <2> QED
    BY <2>1, <2>2
<1>8. CountsOK(FeedFrames(first, n, TRUE).tiles, accepted)
  BY <1>1, <1>2, <1>4, <1>5, <1>6, <1>7, ReplayCounts DEF d
<1>9. \E replay : /\ CountsOK(FeedFrames(first, n, replay).tiles, accepted)
                  /\ RefreshCompleted(FeedFrames(first, n, replay), final_end_frame)
  BY <1>2, <1>8
<1> QED
  BY <1>1, <1>4, <1>5, <1>9, FedBlock

(* The steering keeps the ranges and priorities of the requests.           *)
LEMMA RowKept ==
    ASSUME NEW r, IsRow(r), NEW x
    PROVE  IsRow([r EXCEPT !.state = x]) /\ IsRow([r EXCEPT !.skips = x])
<1>1. r = [first |-> r.first, end |-> r.end, priority |-> r.priority,
           deadline |-> r.deadline, state |-> r.state, skips |-> r.skips]
  BY DEF IsRow
<1>2. [r EXCEPT !.state = x] =
          [first |-> r.first, end |-> r.end, priority |-> r.priority,
           deadline |-> r.deadline, state |-> x, skips |-> r.skips]
  BY <1>1
<1>3. [r EXCEPT !.skips = x] =
          [first |-> r.first, end |-> r.end, priority |-> r.priority,
           deadline |-> r.deadline, state |-> r.state, skips |-> x]
  BY <1>1
<1> QED
  BY <1>2, <1>3 DEF IsRow

LEMMA RowsMapped ==
    ASSUME NEW rows, RowsOK(rows), NEW new, new = [i \in DOMAIN rows |-> new[i]],
           \A i \in DOMAIN rows : IsRow(new[i])
    PROVE  RowsOK(new)
<1>1. PICK n \in Nat : rows = [i \in 1 .. n |-> rows[i]]
  BY DEF RowsOK
<1>2. DOMAIN rows = 1 .. n
  BY <1>1
<1>3. new = [i \in 1 .. n |-> new[i]] /\ DOMAIN new = 1 .. n
  BY <1>2
<1> QED
  BY <1>2, <1>3 DEF RowsOK

LEMMA NoteChoiceRows ==
    ASSUME NEW rows, RowsOK(rows), NEW selected
    PROVE  RowsOK(NoteChoice(rows, selected)) /\ DOMAIN NoteChoice(rows, selected) = DOMAIN rows
<1> DEFINE new == NoteChoice(rows, selected)
           Skips(i) == IF i = selected THEN 0 ELSE Smaller(MaxSkips, rows[i].skips + 1)
<1>1. new = [i \in DOMAIN rows |-> IF ~IsActive(rows[i]) THEN rows[i]
                                   ELSE [rows[i] EXCEPT !.skips = Skips(i)]]
  BY DEF NoteChoice
<1> HIDE DEF new, Skips
<1>2. new = [i \in DOMAIN rows |-> new[i]] /\ DOMAIN new = DOMAIN rows
  BY <1>1
<1>3. ASSUME NEW i \in DOMAIN rows PROVE IsRow(new[i])
  <2>1. IsRow(rows[i])
    BY DEF RowsOK
  <2>2. CASE new[i] = rows[i]
    BY <2>1, <2>2
  <2>3. CASE IsActive(rows[i])
    <3> DEFINE r == rows[i]
               x == Skips(i)
               u == new[i]
    <3>1. u = [r EXCEPT !.skips = x] /\ IsRow(r)
      BY <2>1, <2>3, <1>1
    <3> HIDE DEF r, x, u
    <3>2. IsRow([r EXCEPT !.skips = x])
      BY <3>1, RowKept
    <3>3. IsRow(u)
      BY <3>1, <3>2, Zenon
    <3> QED
      BY <3>3 DEF u
  <2> QED
    BY <2>2, <2>3, <1>1
<1> QED
  BY <1>2, <1>3, RowsMapped DEF new

LEMMA UpdatedRows ==
    ASSUME NEW rows, RowsOK(rows), NEW slots
    PROVE  RowsOK(UpdateRequestStates(slots, rows))
<1> DEFINE new == UpdateRequestStates(slots, rows)
<1>1. new = [i \in DOMAIN rows |-> [rows[i] EXCEPT !.state = RequestState(rows[i], slots)]]
  BY DEF UpdateRequestStates
<1> HIDE DEF new
<1>2. new = [i \in DOMAIN rows |-> new[i]]
  BY <1>1
<1>3. ASSUME NEW i \in DOMAIN rows PROVE IsRow(new[i])
  <2>1. IsRow(rows[i])
    BY DEF RowsOK
  <2> DEFINE r == rows[i]
             x == RequestState(rows[i], slots)
             u == new[i]
  <2>2. u = [r EXCEPT !.state = x] /\ IsRow(r)
    BY <2>1, <1>1
  <2> HIDE DEF r, x, u
  <2>3. IsRow([r EXCEPT !.state = x])
    BY <2>2, RowKept
  <2>4. IsRow(u)
    BY <2>2, <2>3, Zenon
  <2> QED
    BY <2>4 DEF u
<1> QED
  BY <1>2, <1>3, RowsMapped DEF new

LEMMA AppendedRow ==
    ASSUME NEW rows, RowsOK(rows), NEW row, IsRow(row)
    PROVE  RowsOK(Append(rows, row))
<1>1. PICK n \in Nat : rows = [i \in 1 .. n |-> rows[i]]
  BY DEF RowsOK
<1> DEFINE R == {rows[i] : i \in 1 .. n} \cup {row}
           new == Append(rows, row)
<1>2. rows \in [1 .. n -> R]
  BY <1>1
<1>3. rows \in Seq(R) /\ row \in R
  BY <1>2, SeqDef
<1>4. Len(rows) = n
  BY <1>1, <1>3
<1> HIDE DEF R
<1>5. /\ new \in Seq(R) /\ Len(new) = n + 1 /\ DOMAIN new = 1 .. n + 1
      /\ \A i \in 1 .. n : new[i] = rows[i]
      /\ new[n + 1] = row
  BY <1>3, <1>4
<1> HIDE DEF new
<1>6. new = [i \in 1 .. n + 1 |-> new[i]]
  BY <1>5
<1>7. ASSUME NEW i \in DOMAIN new PROVE IsRow(new[i])
  <2>1. i \in 1 .. n \/ i = n + 1
    BY <1>5
  <2>2. CASE i \in 1 .. n
    BY <2>2, <1>1, <1>5 DEF RowsOK
  <2>3. CASE i = n + 1
    BY <2>3, <1>5
  <2> QED
    BY <2>1, <2>2, <2>3
<1>8. n + 1 \in Nat
  OBVIOUS
<1> QED
  BY <1>6, <1>7, <1>8 DEF RowsOK, new

(* What a step may do to the tiles, the body of ShownIsKept.               *)
KeptStep ==
    \A s \in Slots : tiles[s] # NoTile =>
        \/ tiles'[s].index = tiles[s].index /\ tiles[s].run \subseteq tiles'[s].run
        \/ /\ tiles[s].run # {} => detail_due'
           /\ Protected(tiles[s].index) => \A r \in Slots : Protected(tiles'[r].index)

Good == Inv /\ PublishedIsCurrent

LEMMA InitIsGood == Init => Good
<1> SUFFICES ASSUME Init PROVE Good
  OBVIOUS
<1>1. tiles = [s \in Slots |-> NoTile] /\ recency = <<>>
  BY DEF Init
<1>2. Occupied(tiles) = {}
  BY <1>1 DEF Occupied
<1>3. CacheOK(ThisCache) /\ CountsOK(tiles, accepted)
  <2>1. SlotsOK(tiles)
    BY <1>1, <1>2 DEF SlotsOK
  <2>2. OrderOK(recency, {})
    BY <1>1 DEF OrderOK
  <2> QED
    BY <1>2, <2>1, <2>2 DEF CacheOK, ThisCache, CountsOK
<1>4. SteeringOK
  <2>1. requests = <<>> /\ focus = NoFocus
    BY DEF Init
  <2>2. RowsOK(requests)
    <3>1. requests = [i \in 1 .. 0 |-> requests[i]] /\ 0 \in Nat /\ DOMAIN requests = {}
      BY <2>1
    <3> QED
      BY <3>1 DEF RowsOK
  <2> QED
    BY <2>1, <2>2 DEF SteeringOK
<1>5. Inv
  <2>1. /\ state = "ACTIVE" /\ total_frames \in {Unknown, TrackFrames}
        /\ final_end_frame = Unknown /\ accepted = {} /\ detail_due = FALSE /\ failures = 0
    BY DEF Init
  <2>2. 0 \in 0 .. MaxFailures
    BY DetailAssumption
  <2> QED
    BY <1>3, <1>4, <2>1, <2>2 DEF Inv
<1>6. PublishedIsCurrent
  <2>1. Views(tiles, final_end_frame) = {}
    BY <1>1 DEF Views
  <2> QED
    BY <2>1 DEF Init, PublishedIsCurrent
<1> QED
  BY <1>5, <1>6 DEF Good

(* A step that leaves the cache alone.                                     *)
LEMMA CacheUntouched ==
    ASSUME Inv, UNCHANGED <<cacheVars, accepted>>
    PROVE  CacheOK(ThisCache)' /\ CountsOK(tiles, accepted)' /\ (detail_due \in BOOLEAN)' /\ KeptStep
BY DEF Inv, cacheVars, CacheOK, ThisCache, CountsOK, Occupied, SlotsOK, OrderOK, KeptStep

LEMMA BlockIsGood ==
    ASSUME Good, accepted' \subseteq Frames, BlockStep(accepted'),
           UNCHANGED <<state, total_frames, final_end_frame, steeringVars, published, failures>>
    PROVE  Good' /\ KeptStep
<1>1. CacheOK(ThisCache)' /\ CountsOK(tiles, accepted)' /\ (detail_due \in BOOLEAN)'
  BY DEF BlockStep, CacheOK, ThisCache
<1>2. SteeringOK'
  BY DEF Good, Inv, SteeringOK, steeringVars
<1>3. Inv'
  BY <1>1, <1>2 DEF Good, Inv
<1>4. PublishedIsCurrent'
  <2> SUFFICES ASSUME ~detail_due' PROVE published' = Views(tiles', final_end_frame')
    BY DEF PublishedIsCurrent
  <2>1. ~detail_due /\ Views(tiles', final_end_frame) = Views(tiles, final_end_frame)
    BY DEF BlockStep
  <2> QED
    BY <2>1 DEF Good, PublishedIsCurrent
<1>5. KeptStep
  BY DEF BlockStep, KeptStep
<1> QED
  BY <1>3, <1>4, <1>5 DEF Good

LEMMA FailureIsCounted ==
    ASSUME Inv, failures < MaxFailures, failures' = failures + 1
    PROVE  failures' \in 0 .. MaxFailures
BY DetailAssumption DEF Inv

(* The steps that only steer leave cache, input and result alone.          *)
LEMMA SteeringStep ==
    ASSUME Good, UNCHANGED <<cacheVars, inputVars, published, failures>>, SteeringOK'
    PROVE  Good' /\ KeptStep
<1>1. CacheOK(ThisCache)' /\ CountsOK(tiles, accepted)' /\ (detail_due \in BOOLEAN)' /\ KeptStep
  BY CacheUntouched DEF Good, inputVars
<1>2. /\ UNCHANGED <<state, total_frames, final_end_frame, accepted, tiles, detail_due>>
      /\ UNCHANGED <<published, failures>>
  BY DEF cacheVars, inputVars
<1>3. Inv'
  BY <1>1, <1>2 DEF Good, Inv
<1>4. PublishedIsCurrent'
  BY <1>2 DEF Good, PublishedIsCurrent
<1> QED
  BY <1>1, <1>3, <1>4 DEF Good

LEMMA CancelledRows ==
    ASSUME NEW rows, RowsOK(rows), NEW i \in DOMAIN rows, NEW x
    PROVE  RowsOK([rows EXCEPT ![i].state = x])
<1> DEFINE new == [rows EXCEPT ![i].state = x]
           r == rows[i]
           u == [r EXCEPT !.state = x]
<1>1. PICK n \in Nat : rows = [k \in 1 .. n |-> rows[k]]
  BY DEF RowsOK
<1>2. new = [rows EXCEPT ![i] = u]
  OBVIOUS
<1>3. IsRow(u)
  <2>1. IsRow(r)
    BY DEF RowsOK
  <2> HIDE DEF r
  <2> QED
    BY <2>1, RowKept
<1> HIDE DEF u, r, new
<1>4. /\ new = [k \in DOMAIN rows |-> new[k]]
      /\ \A k \in DOMAIN rows : new[k] = IF k = i THEN u ELSE rows[k]
  BY <1>1, <1>2
<1>5. \A k \in DOMAIN rows : IsRow(new[k])
  BY <1>3, <1>4 DEF RowsOK
<1> QED
  BY <1>4, <1>5, RowsMapped DEF new

LEMMA SetStates ==
    ASSUME NEW rows, RowsOK(rows), NEW x
    PROVE  RowsOK([i \in DOMAIN rows |-> IF IsActive(rows[i]) THEN [rows[i] EXCEPT !.state = x]
                                         ELSE rows[i]])
<1> DEFINE new == [i \in DOMAIN rows |-> IF IsActive(rows[i]) THEN [rows[i] EXCEPT !.state = x]
                                         ELSE rows[i]]
<1>1. new = [i \in DOMAIN rows |-> new[i]]
  OBVIOUS
<1>2. ASSUME NEW i \in DOMAIN rows PROVE IsRow(new[i])
  <2> DEFINE r == rows[i]
             u == new[i]
  <2>1. IsRow(r) /\ (u = r \/ u = [r EXCEPT !.state = x])
    BY DEF RowsOK
  <2> HIDE DEF r, u
  <2>2. IsRow([r EXCEPT !.state = x])
    BY <2>1, RowKept
  <2>3. IsRow(u)
    BY <2>1, <2>2, Zenon
  <2> QED
    BY <2>3 DEF u
<1> HIDE DEF new
<1>3. RowsOK(new)
  BY <1>1, <1>2, RowsMapped
<1> QED
  BY <1>3 DEF new

(* The requests aged among some of them, then brought up to date.          *)
LEMMA AgedRows ==
    ASSUME NEW rows, RowsOK(rows), NEW among, NEW chosen
    PROVE  RowsOK([i \in DOMAIN rows |-> IF i \in among THEN NoteChoice(rows, chosen)[i]
                                         ELSE rows[i]])
<1> DEFINE noted == NoteChoice(rows, chosen)
           new == [i \in DOMAIN rows |-> IF i \in among THEN noted[i] ELSE rows[i]]
<1>1. RowsOK(noted) /\ DOMAIN noted = DOMAIN rows
  BY NoteChoiceRows
<1> HIDE DEF noted
<1>2. new = [i \in DOMAIN rows |-> new[i]]
  OBVIOUS
<1>3. ASSUME NEW i \in DOMAIN rows PROVE IsRow(new[i])
  <2>1. IsRow(noted[i]) /\ IsRow(rows[i])
    BY <1>1 DEF RowsOK
  <2> QED
    BY <2>1
<1> HIDE DEF new
<1>4. RowsOK(new)
  BY <1>2, <1>3, RowsMapped
<1> QED
  BY <1>4 DEF new, noted

(* A refresh of the cache where nothing was fed.                           *)
LEMMA RefreshOfThis ==
    ASSUME Inv, tiles' = Refreshed(tiles, final_end_frame), UNCHANGED <<recency, accepted>>,
           detail_due' \in BOOLEAN
    PROVE  CacheOK(ThisCache)' /\ CountsOK(tiles, accepted)' /\ KeptStep
<1>1. SlotsOK(tiles) /\ OrderOK(recency, Occupied(tiles)) /\ CountsOK(tiles, accepted)
  BY DEF Inv, CacheOK, ThisCache
<1>2. final_end_frame \in {Unknown, TrackFrames}
  BY DEF Inv
<1>3. /\ SlotsOK(tiles') /\ Occupied(tiles') = Occupied(tiles)
      /\ \A s \in Occupied(tiles) : /\ tiles'[s].index = tiles[s].index
                                    /\ tiles[s].run \subseteq tiles'[s].run
  BY <1>1, RefreshIsOK
<1>4. CountsOK(tiles', accepted)
  BY <1>1, <1>2, RefreshCounts
<1>5. CacheOK(ThisCache)'
  BY <1>1, <1>3 DEF CacheOK, ThisCache
<1>6. KeptStep
  BY <1>3 DEF KeptStep, Occupied
<1> QED
  BY <1>4, <1>5, <1>6

(* A refresh that changes no run changes no view.                          *)
LEMMA QuietRefresh ==
    ASSUME Inv, NEW new, new = Refreshed(tiles, final_end_frame),
           \A s \in Slots : new[s] # NoTile => new[s].run = tiles[s].run
    PROVE  Views(new, final_end_frame) = Views(tiles, final_end_frame)
<1>1. SlotsOK(tiles)
  BY DEF Inv, CacheOK, ThisCache
<1>2. /\ Occupied(new) = Occupied(tiles)
      /\ \A s \in Occupied(tiles) : new[s].index = tiles[s].index
  BY <1>1, RefreshIsOK
<1>3. SameShown(tiles, new)
  BY <1>2 DEF SameShown, Shows, Occupied
<1> QED
  BY <1>3, SameViews

LEMMA ProcessFailsStep ==
    ASSUME Good, ProcessFails
    PROVE  Good' /\ KeptStep
<1>1. /\ Inv /\ RowsOK(requests) /\ focus \in Foci \cup {NoFocus}
      /\ final_end_frame \in {Unknown, TrackFrames}
  BY DEF Good, Inv, SteeringOK
<1>2. /\ tiles' = Refreshed(tiles, final_end_frame) /\ recency' = recency
      /\ detail_due' = (detail_due \/ \E s \in Slots : tiles[s] # NoTile
                                             /\ Refreshed(tiles, final_end_frame)[s].run # tiles[s].run)
      /\ UNCHANGED <<state, total_frames, final_end_frame, accepted, focus, published>>
      /\ failures < MaxFailures /\ failures' = failures + 1
  BY DEF ProcessFails, RefreshCompleted, ThisCache, Refreshed, PublicationFails, inputVars
<1>3. detail_due' \in BOOLEAN
  BY <1>2
<1>4. CacheOK(ThisCache)' /\ CountsOK(tiles, accepted)' /\ KeptStep
  BY <1>1, <1>2, <1>3, RefreshOfThis
<1>5. SteeringOK'
  <2>1. PICK x : requests' = [i \in DOMAIN requests |->
                                 IF IsActive(requests[i]) THEN [requests[i] EXCEPT !.state = x]
                                 ELSE requests[i]]
    BY DEF ProcessFails
  <2>2. RowsOK(requests')
    BY <2>1, <1>1, SetStates
  <2> QED
    BY <2>2, <1>1, <1>2 DEF SteeringOK
<1>6. Inv'
  <2>1. failures' \in 0 .. MaxFailures
    BY <1>1, <1>2, FailureIsCounted
  <2> QED
    BY <1>2, <1>3, <1>4, <1>5, <2>1 DEF Inv, Good
<1>7. PublishedIsCurrent'
  <2> SUFFICES ASSUME ~detail_due' PROVE published' = Views(tiles', final_end_frame')
    BY DEF PublishedIsCurrent
  <2>1. ~detail_due /\ \A s \in Slots : tiles[s] # NoTile => tiles'[s].run = tiles[s].run
    BY <1>2
  <2>2. Occupied(tiles') = Occupied(tiles)
    <3>1. SlotsOK(tiles)
      BY <1>1 DEF Inv, CacheOK, ThisCache
    <3> QED
      BY <3>1, <1>2, RefreshIsOK
  <2>3. \A s \in Slots : tiles'[s] # NoTile => tiles'[s].run = tiles[s].run
    BY <2>1, <2>2 DEF Occupied
  <2>4. Views(tiles', final_end_frame) = Views(tiles, final_end_frame)
    BY <2>3, <1>1, <1>2, QuietRefresh
  <2> QED
    BY <2>1, <2>4, <1>2 DEF Good, PublishedIsCurrent
<1> QED
  BY <1>4, <1>6, <1>7 DEF Good

(* What the process call does, with its local names taken apart.           *)
ProcessDue ==
    detail_due \/ \E s \in Slots : /\ Refreshed(tiles, final_end_frame)[s] # NoTile
                                   /\ Refreshed(tiles, final_end_frame)[s].run # tiles[s].run

ProcessAged(chosen, among) ==
    [i \in DOMAIN requests |-> IF i \in among THEN NoteChoice(requests, chosen)[i]
                               ELSE requests[i]]

LEMMA ProcessIs ==
    ASSUME NEW overview_published, NEW chosen, NEW among,
           Process(overview_published, chosen, among)
    PROVE  /\ tiles' = Refreshed(tiles, final_end_frame)
           /\ requests' = UpdateRequestStates(Refreshed(tiles, final_end_frame),
                                             ProcessAged(chosen, among))
           /\ UNCHANGED <<recency, total_frames, final_end_frame, accepted, focus>>
           /\ \/ /\ ProcessDue /\ detail_due' = ProcessDue
                 /\ failures < MaxFailures /\ failures' = failures + 1
                 /\ UNCHANGED <<state, published>>
              \/ /\ published' = IF ProcessDue \/ overview_published
                                 THEN Views(tiles', final_end_frame) ELSE published
                 /\ detail_due' = FALSE
                 /\ UNCHANGED state
                 /\ UNCHANGED failures \/ (failures < MaxFailures /\ failures' = failures + 1)
              \/ /\ state' = "COMPLETED"
                 /\ published' = Views(tiles', final_end_frame)
                 /\ detail_due' = FALSE
                 /\ UNCHANGED failures
<1>1. /\ tiles' = Refreshed(tiles, final_end_frame)
      /\ requests' = UpdateRequestStates(Refreshed(tiles, final_end_frame),
                                        ProcessAged(chosen, among))
      /\ UNCHANGED <<recency, total_frames, final_end_frame, accepted, focus>>
  BY Zenon DEF Process, Refreshed, ProcessAged
<1>2. \/ /\ ProcessDue /\ detail_due' = ProcessDue
         /\ failures < MaxFailures /\ failures' = failures + 1
         /\ UNCHANGED <<state, published>>
      \/ /\ published' = IF ProcessDue \/ overview_published
                         THEN Views(Refreshed(tiles, final_end_frame), final_end_frame) ELSE published
         /\ detail_due' = FALSE
         /\ UNCHANGED state
         /\ UNCHANGED failures \/ (failures < MaxFailures /\ failures' = failures + 1)
      \/ /\ state' = "COMPLETED"
         /\ published' = Views(Refreshed(tiles, final_end_frame), final_end_frame)
         /\ detail_due' = FALSE
         /\ UNCHANGED failures
  BY Zenon DEF Process, Refreshed, ProcessDue, DetailPublicationFails, PublicationFails
<1> QED
  BY <1>1, <1>2

LEMMA ProcessStep ==
    ASSUME Good, NEW overview_published \in BOOLEAN, NEW chosen, NEW among,
           Process(overview_published, chosen, among)
    PROVE  Good' /\ KeptStep
<1> DEFINE aged == ProcessAged(chosen, among)
<1>1. /\ Inv /\ RowsOK(requests) /\ focus \in Foci \cup {NoFocus}
      /\ failures \in 0 .. MaxFailures
      /\ state \in {"ACTIVE", "DRAINING", "COMPLETED"}
  BY DEF Good, Inv, SteeringOK
<1>2. /\ tiles' = Refreshed(tiles, final_end_frame)
      /\ requests' = UpdateRequestStates(Refreshed(tiles, final_end_frame), aged)
      /\ UNCHANGED <<recency, total_frames, final_end_frame, accepted, focus>>
  BY ProcessIs
<1>3. \/ /\ ProcessDue /\ detail_due' = ProcessDue
         /\ failures < MaxFailures /\ failures' = failures + 1
         /\ UNCHANGED <<state, published>>
      \/ /\ published' = IF ProcessDue \/ overview_published
                         THEN Views(tiles', final_end_frame) ELSE published
         /\ detail_due' = FALSE
         /\ UNCHANGED state
         /\ UNCHANGED failures \/ (failures < MaxFailures /\ failures' = failures + 1)
      \/ /\ state' = "COMPLETED"
         /\ published' = Views(tiles', final_end_frame)
         /\ detail_due' = FALSE
         /\ UNCHANGED failures
  BY ProcessIs
<1>4. detail_due' \in BOOLEAN
  <2>1. detail_due' = ProcessDue \/ detail_due' = FALSE
    BY <1>3, Zenon
  <2>2. ProcessDue \in BOOLEAN
    BY DEF ProcessDue
  <2> QED
    BY <2>1, <2>2, Zenon
<1>5. CacheOK(ThisCache)' /\ CountsOK(tiles, accepted)' /\ KeptStep
  BY <1>1, <1>2, <1>4, RefreshOfThis
<1>6. SteeringOK'
  <2>1. RowsOK(aged)
    BY <1>1, AgedRows DEF ProcessAged
  <2> HIDE DEF aged
  <2>2. RowsOK(requests')
    BY <2>1, <1>2, UpdatedRows
  <2> QED
    BY <2>2, <1>1, <1>2 DEF SteeringOK
<1>7. failures' \in 0 .. MaxFailures /\ state' \in {"ACTIVE", "DRAINING", "COMPLETED"}
  <2>1. failures' = failures \/ (failures < MaxFailures /\ failures' = failures + 1)
    BY <1>3
  <2>2. failures' \in 0 .. MaxFailures
    BY <2>1, <1>1, FailureIsCounted
  <2>3. state' = state \/ state' = "COMPLETED"
    BY <1>3
  <2> QED
    BY <2>2, <2>3, <1>1
<1>8. Inv'
  BY <1>1, <1>2, <1>4, <1>5, <1>6, <1>7 DEF Inv
<1>9. PublishedIsCurrent'
  <2> SUFFICES ASSUME ~detail_due' PROVE published' = Views(tiles', final_end_frame)
    BY <1>2 DEF PublishedIsCurrent
  <2>1. CASE published' = Views(tiles', final_end_frame)
    BY <2>1
  <2>2. CASE ~ProcessDue /\ published' = published
    <3>1. ~detail_due /\ \A s \in Slots : tiles'[s] # NoTile => tiles'[s].run = tiles[s].run
      BY <2>2, <1>2 DEF ProcessDue
    <3>2. Views(tiles', final_end_frame) = Views(tiles, final_end_frame)
      BY <3>1, <1>1, <1>2, QuietRefresh
    <3> QED
      BY <3>1, <3>2, <2>2 DEF Good, PublishedIsCurrent
  <2> QED
    BY <1>3, <2>1, <2>2
<1> QED
  BY <1>5, <1>8, <1>9 DEF Good

LEMMA EndOfInputStep ==
    ASSUME Good, SignalEndOfInput(TrackFrames)
    PROVE  Good' /\ KeptStep
<1>1. UNCHANGED <<cacheVars, accepted, steeringVars>>
  BY DEF SignalEndOfInput
<1>2. CacheOK(ThisCache)' /\ CountsOK(tiles, accepted)' /\ (detail_due \in BOOLEAN)' /\ KeptStep
  BY <1>1, CacheUntouched DEF Good
<1>3. SteeringOK'
  BY <1>1 DEF Good, Inv, SteeringOK, steeringVars
<1>4. accepted' \subseteq Frames /\ tiles' = tiles /\ detail_due' = detail_due
  BY <1>1 DEF Good, Inv, cacheVars
<1>5. CASE /\ state' = "DRAINING" /\ total_frames' = TrackFrames /\ final_end_frame' = TrackFrames
           /\ published' = Views(tiles, TrackFrames) /\ failures' = failures
  <2>1. Inv'
    BY <1>2, <1>3, <1>4, <1>5 DEF Good, Inv
  <2>2. PublishedIsCurrent'
    BY <1>4, <1>5 DEF PublishedIsCurrent
  <2> QED
    BY <2>1, <2>2, <1>2 DEF Good
<1>6. CASE PublicationFails /\ UNCHANGED <<state, total_frames, final_end_frame>>
  <2>1. failures' \in 0 .. MaxFailures
    BY <1>6, FailureIsCounted DEF PublicationFails, Good
  <2>2. Inv'
    BY <2>1, <1>2, <1>3, <1>4, <1>6 DEF Good, Inv
  <2>3. PublishedIsCurrent'
    BY <1>4, <1>6 DEF Good, PublishedIsCurrent, PublicationFails
  <2> QED
    BY <2>2, <2>3, <1>2 DEF Good
<1> QED
  BY <1>5, <1>6 DEF SignalEndOfInput

LEMMA StepIsGood ==
    ASSUME Good, [Next]_vars
    PROVE  Good' /\ KeptStep
<1>1. ASSUME NEW b \in Blocks, NEW n \in 1 .. MaxPush, PushPcm(b, n) PROVE Good' /\ KeptStep
  <2>1. accepted' \subseteq Frames /\ BlockStep(accepted')
    BY <1>1, PushStep DEF Good
  <2>2. UNCHANGED <<state, total_frames, final_end_frame, steeringVars, published, failures>>
    BY <1>1 DEF PushPcm
  <2> QED
    BY <2>1, <2>2, BlockIsGood
<1>2. ASSUME NEW b \in Blocks, ReplayPcm(b) PROVE Good' /\ KeptStep
  <2>1. BlockStep(accepted)
    BY <1>2, ReplayStep DEF Good
  <2>2. UNCHANGED <<inputVars, steeringVars, published, failures>>
    BY <1>2 DEF ReplayPcm
  <2>3. accepted' = accepted /\ accepted' \subseteq Frames /\ BlockStep(accepted')
    BY <2>1, <2>2 DEF inputVars, Good, Inv
  <2> QED
    BY <2>2, <2>3, BlockIsGood DEF inputVars
<1>3. RowsOK(requests) /\ focus \in Foci \cup {NoFocus}
  BY DEF Good, Inv, SteeringOK
<1>4. CASE NextPcmRequest
  <2>1. RowsOK(requests') /\ focus' = focus
    BY <1>3, <1>4, NoteChoiceRows DEF NextPcmRequest
  <2>2. SteeringOK'
    BY <2>1, <1>3 DEF SteeringOK
  <2> QED
    BY <2>2, <1>4, SteeringStep DEF NextPcmRequest
<1>5. ASSUME NEW f \in Foci, SetFocus(f) PROVE Good' /\ KeptStep
  <2>1. SteeringOK'
    BY <1>3, <1>5 DEF SetFocus, SteeringOK
  <2> QED
    BY <2>1, <1>5, SteeringStep DEF SetFocus
<1>6. ASSUME NEW r \in Regions, RequestRegion(r) PROVE Good' /\ KeptStep
  <2> DEFINE row == [first |-> r.first, end |-> r.end, priority |-> r.priority,
                     deadline |-> r.deadline, state |-> "QUEUED", skips |-> 0]
  <2>1. IsRow(row)
    BY DetailAssumption DEF IsRow
  <2>2. requests' = Append(requests, row) /\ focus' = focus
    BY <1>6 DEF RequestRegion
  <2> HIDE DEF row
  <2>3. SteeringOK'
    BY <2>1, <2>2, <1>3, AppendedRow DEF SteeringOK
  <2> QED
    BY <2>3, <1>6, SteeringStep DEF RequestRegion
<1>7. ASSUME NEW i \in DOMAIN requests, CancelRegionRequest(i) PROVE Good' /\ KeptStep
  <2>1. RowsOK([requests EXCEPT ![i].state = "CANCELLED"])
    BY <1>3, CancelledRows
  <2>2. SteeringOK'
    BY <2>1, <1>3, <1>7, Zenon DEF CancelRegionRequest, SteeringOK
  <2> QED
    BY <2>2, <1>7, SteeringStep DEF CancelRegionRequest
<1>8. CASE SignalEndOfInput(TrackFrames)
  BY <1>8, EndOfInputStep
<1>9. CASE ProcessFails
  BY <1>9, ProcessFailsStep
<1>10. ASSUME NEW overview_published \in BOOLEAN, NEW chosen, NEW among,
              Process(overview_published, chosen, among)
       PROVE  Good' /\ KeptStep
  BY <1>10, ProcessStep
<1>11. CASE UNCHANGED vars
  <2>1. UNCHANGED <<cacheVars, inputVars, published, failures>> /\ UNCHANGED steeringVars
    BY <1>11 DEF vars
  <2>2. SteeringOK'
    BY <2>1 DEF SteeringOK, steeringVars, Good, Inv
  <2> QED
    BY <2>1, <2>2, SteeringStep
<1> QED
  BY <1>1, <1>2, <1>4, <1>5, <1>6, <1>7, <1>8, <1>9, <1>10, <1>11 DEF Next

---------------------------------------------------------------------------
(* The theorems.                                                           *)

LEMMA GoodAlways == Spec => []Good
<1>1. Good /\ [Next]_vars => Good'
  BY StepIsGood
<1> QED
  BY InitIsGood, <1>1, PTL DEF Spec

LEMMA OrderCounts ==
    ASSUME NEW order, NEW S, OrderOK(order, S)
    PROVE  {order[k] : k \in DOMAIN order} = S /\ Len(order) = Cardinality(S)
<1> DEFINE n == Len(order)
<1>1. n \in Nat /\ DOMAIN order = 1 .. n /\ order \in [1 .. n -> S]
  BY DEF OrderOK
<1> HIDE DEF n
<1>2. /\ \A s \in S : \E k \in 1 .. n : order[k] = s
      /\ \A k, l \in 1 .. n : order[k] = order[l] => k = l
  BY <1>1 DEF OrderOK
<1>3. order \in Bijection(1 .. n, S)
  BY <1>1, <1>2 DEF Bijection, Injection, Surjection, IsInjective
<1>4. Cardinality(S) = n
  BY <1>1, <1>3, FS_CountingElements DEF ExistsBijection
<1> QED
  BY <1>1, <1>2, <1>4 DEF n

LEMMA InvIsTyped == Inv => TypeOK
<1> SUFFICES ASSUME Inv PROVE TypeOK
  OBVIOUS
<1>1. SlotsOK(tiles) /\ OrderOK(recency, Occupied(tiles))
  BY DEF Inv, CacheOK, ThisCache
<1>2. ASSUME NEW s \in Slots, tiles[s] # NoTile
      PROVE  /\ tiles[s].index \in {TileOf(f) : f \in Frames}
             /\ tiles[s].run \subseteq tiles[s].complete
             /\ SlotOf(tiles, tiles[s].index) = s
  <2> DEFINE t == tiles[s]
  <2>1. IsTile(t)
    BY <1>1, <1>2 DEF SlotsOK
  <2>2. t.index \in Nat
    BY <2>1, NoTileIsNone
  <2>3. t.index \in {TileOf(f) : f \in Frames} /\ t.run \subseteq t.complete
    BY <2>1 DEF IsTile, RunsWithin
  <2>4. ASSUME NEW r \in Slots, tiles[r].index = t.index PROVE r = s
    <3>1. tiles[r] # NoTile
      BY <2>2, <2>4, NoTileIsNone
    <3> QED
      BY <3>1, <2>4, <1>1, <1>2 DEF SlotsOK, Occupied
  <2>5. SlotOf(tiles, t.index) = s
    BY <2>4 DEF SlotOf
  <2> QED
    BY <2>3, <2>5
<1>3. /\ {recency[k] : k \in DOMAIN recency} = {s \in Slots : tiles[s] # NoTile}
      /\ Len(recency) = Cardinality({s \in Slots : tiles[s] # NoTile})
  BY <1>1, OrderCounts DEF Occupied
<1> QED
  BY <1>2, <1>3 DEF Inv, TypeOK

(* Whatever is pushed, replayed, evicted and requested, the slots hold      *)
(* distinct tiles of the source, what a tile shows lies in its complete     *)
(* columns, and the access serials order exactly the occupied slots: a      *)
(* lookup in apta_detail_find_or_create_tile has one answer and an eviction *)
(* one victim.                                                              *)
THEOREM CacheIsAlwaysWellFormed == Spec => []TypeOK
<1>1. Good => TypeOK
  BY InvIsTyped DEF Good
<1> QED
  BY GoodAlways, <1>1, PTL

(* A shown column was built from every frame of the source it stands for,   *)
(* although apta_internal_detail_refresh_completed compares counts only and *)
(* replayed frames are counted again.                                       *)
THEOREM ShownIsAlwaysHeard == Spec => []ShownIsHeard
<1>1. ASSUME Good PROVE ShownIsHeard
  <2>1. SlotsOK(tiles) /\ CountsOK(tiles, accepted)
    BY <1>1 DEF Good, Inv, CacheOK, ThisCache
  <2>2. ASSUME NEW s \in Slots, tiles[s] # NoTile, NEW c \in tiles[s].run
        PROVE  ColumnFrames(tiles[s].index, c) \subseteq tiles[s].heard
    <3>1. IsTile(tiles[s]) /\ s \in Occupied(tiles)
      BY <2>1, <2>2 DEF SlotsOK, Occupied
    <3>2. c \in tiles[s].complete
      BY <3>1 DEF IsTile, RunsWithin
    <3>3. Full(tiles[s], c)
      BY <3>1, <3>2, <2>1 DEF CountsOK
    <3> QED
      BY <3>3 DEF Full
  <2> QED
    BY <2>2 DEF ShownIsHeard
<1> QED
  BY GoodAlways, <1>1, PTL

(* The current result shows exactly the runs of the cache whenever the      *)
(* mutation serial equals the published one: no completion, eviction or     *)
(* failed publication is lost between them.                                 *)
THEOREM PublishedIsAlwaysCurrent == Spec => []PublishedIsCurrent
<1>1. Good => PublishedIsCurrent
  BY DEF Good
<1> QED
  BY GoodAlways, <1>1, PTL

(* No step takes back what a tile shows, except an eviction, which makes a  *)
(* publication due and reaches a protected tile only when the protected     *)
(* working set exceeds the cache.                                           *)
THEOREM ShownIsAlwaysKept == Spec => ShownIsKept
<1>1. Good /\ [Next]_vars => [KeptStep]_vars
  BY StepIsGood
<1>2. [KeptStep]_vars =>
          [\A s \in Slots : tiles[s] # NoTile =>
              \/ tiles'[s].index = tiles[s].index /\ tiles[s].run \subseteq tiles'[s].run
              \/ /\ tiles[s].run # {} => detail_due'
                 /\ Protected(tiles[s].index) => \A r \in Slots : Protected(tiles'[r].index)]_vars
  BY DEF KeptStep
<1> QED
  BY GoodAlways, <1>1, <1>2, PTL DEF Spec, ShownIsKept

================================================================================
