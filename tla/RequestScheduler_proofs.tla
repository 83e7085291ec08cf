-------------------------- MODULE RequestScheduler_proofs --------------------------
(***************************************************************************)
(* Proofs about the operators of RequestScheduler, for any requests, focus *)
(* and queue: the choices they make with CHOOSE exist, the ranking is a    *)
(* total order, and the sort of the PCM queue is a permutation of it, best *)
(* first and stable.                                                       *)
(***************************************************************************)
EXTENDS RequestScheduler, FiniteSetTheorems, SequenceTheorems, TLAPS

--------------------------------------------------------------------------------
(* Extreme elements. *)

(* Some element of a finite set has nothing ahead of it, where Ahead[a] is *)
(* what a strict order puts ahead of a: otherwise the sets Ahead[a] would   *)
(* shrink for ever.                                                         *)
LEMMA FirstExists ==
    ASSUME NEW S, IsFiniteSet(S), S # {}, NEW Ahead \in [S -> SUBSET S],
           \A a \in S : a \notin Ahead[a],
           \A a \in S : \A b \in Ahead[a] : Ahead[b] \subseteq Ahead[a]
    PROVE  \E a \in S : Ahead[a] = {}
<1> DEFINE T == {Ahead[a] : a \in S}
<1>1. T \subseteq FiniteSubsetsOf(S) /\ T # {}
  <2>1. \A a \in S : Ahead[a] \in SUBSET S
    OBVIOUS
  <2>2. T \subseteq SUBSET S /\ T # {}
    BY <2>1
  <2> QED
    BY <2>2, FS_FiniteSubsetsOfFinite
<1>2. \E x \in T : \A y \in T : ~(<<y, x>> \in StrictSubsetOrdering(S))
  <2>1. IsWellFoundedOn(StrictSubsetOrdering(S), FiniteSubsetsOf(S))
    BY FS_StrictSubsetOrderingWellFounded
  <2> HIDE DEF T
  <2> QED
    BY <1>1, <2>1, WFMin
<1>3. \E a \in S : \A b \in S : ~(<<Ahead[b], Ahead[a]>> \in StrictSubsetOrdering(S))
  BY <1>2
<1>4. PICK a \in S : \A b \in S : ~(<<Ahead[b], Ahead[a]>> \in StrictSubsetOrdering(S))
  BY <1>3
<1>5. ASSUME NEW b \in Ahead[a] PROVE FALSE
  <2>1. b \in S /\ Ahead[b] \subseteq Ahead[a] /\ b \notin Ahead[b]
    OBVIOUS
  <2>2. Ahead[b] # Ahead[a] /\ Ahead[b] \in SUBSET S /\ Ahead[a] \in SUBSET S
    BY <2>1
  <2>3. <<Ahead[b], Ahead[a]>> \in StrictSubsetOrdering(S)
    BY <2>1, <2>2 DEF StrictSubsetOrdering
  <2> QED
    BY <1>4, <2>1, <2>3
<1> QED
  BY <1>5

(* A finite set of integers has a largest element.                          *)
LEMMA LargestExists ==
    ASSUME NEW S, S \subseteq Int, IsFiniteSet(S), S # {}
    PROVE  \E a \in S : \A b \in S : b <= a
<1> DEFINE Above == [a \in S |-> {b \in S : b > a}]
<1>1. PICK a \in S : Above[a] = {}
  <2>1. Above \in [S -> SUBSET S]
    OBVIOUS
  <2>2. \A x \in S : x \notin Above[x]
    OBVIOUS
  <2>3. ASSUME NEW x \in S, NEW y \in Above[x] PROVE Above[y] \subseteq Above[x]
    <3>1. y \in S /\ y > x /\ \A z \in Above[y] : z \in S /\ z > y
      OBVIOUS
    <3>2. \A z \in S : z > y => z > x
      BY <3>1
    <3> QED
      BY <3>1, <3>2
  <2> HIDE DEF Above
  <2> QED
    BY <2>1, <2>2, <2>3, FirstExists
<1> QED
  BY <1>1

(* A set of naturals has a smallest element.                                *)
LEMMA SmallestExists ==
    ASSUME NEW S, S \subseteq Nat, S # {}
    PROVE  \E a \in S : \A b \in S : a <= b
<1>1. PICK x \in S : TRUE
  OBVIOUS
<1> DEFINE T == {y \in S : y <= x}
           Below == [a \in T |-> {b \in T : b < a}]
<1>2. IsFiniteSet(T) /\ T # {}
  <2>1. T \in SUBSET Nat /\ x \in Nat /\ \A y \in T : y <= x
    OBVIOUS
  <2>2. IsFiniteSet(T)
    BY <2>1, FS_BoundedSetOfNaturals
  <2>3. x \in T
    OBVIOUS
  <2> QED
    BY <2>2, <2>3
<1>3. PICK a \in T : Below[a] = {}
  <2>1. Below \in [T -> SUBSET T]
    OBVIOUS
  <2>2. \A z \in T : z \notin Below[z]
    OBVIOUS
  <2>3. ASSUME NEW z \in T, NEW y \in Below[z] PROVE Below[y] \subseteq Below[z]
    <3>1. y \in T /\ y < z /\ \A w \in Below[y] : w \in T /\ w < y
      OBVIOUS
    <3>2. \A w \in T : w < y => w < z
      BY <3>1
    <3> QED
      BY <3>1, <3>2
  <2> HIDE DEF Below, T
  <2> QED
    BY <1>2, <2>1, <2>2, <2>3, FirstExists
<1>4. \A b \in S : a <= b
  BY <1>3
<1> QED
  BY <1>4

(* SmallestOf answers the smallest element of a set of naturals.            *)
LEMMA SmallestIsFirst ==
    ASSUME NEW S, S \subseteq Nat, S # {}
    PROVE  SmallestOf(S) \in S /\ \A x \in S : SmallestOf(S) <= x
BY SmallestExists DEF SmallestOf

(* The image of a finite set is finite.                                     *)
LEMMA ImageIsFinite ==
    ASSUME NEW S, IsFiniteSet(S), NEW f
    PROVE  IsFiniteSet({f[x] : x \in S})
<1> DEFINE T == {f[x] : x \in S}
           g == [x \in S |-> f[x]]
<1>1. g \in Surjection(S, T)
  BY DEF Surjection
<1> HIDE DEF T, g
<1>2. IsFiniteSet(T)
  BY <1>1, FS_Surjection
<1> QED
  BY <1>2 DEF T

--------------------------------------------------------------------------------
(* The ranking. *)

Scores == [priority : Int, deadline : Nat, id : Nat]

(* The ranking is irreflexive, and it decides between any two scores: by    *)
(* priority, then by deadline with none last, then by age.                  *)
LEMMA BetterIsTotal ==
    ASSUME NEW a \in Scores, NEW b \in Scores
    PROVE  /\ ~Better(a, a)
           /\ ~(Better(a, b) /\ Better(b, a))
           /\ a # b => Better(a, b) \/ Better(b, a)
<1>1. a = b <=> a.priority = b.priority /\ a.deadline = b.deadline /\ a.id = b.id
  BY DEF Scores
<1>2. /\ a.priority \in Int /\ a.deadline \in Nat /\ a.id \in Nat
      /\ b.priority \in Int /\ b.deadline \in Nat /\ b.id \in Nat
  BY DEF Scores
<1> QED
  BY <1>1, <1>2 DEF Better, NoRequest

(* The ranking is transitive.                                               *)
LEMMA BetterIsTransitive ==
    ASSUME NEW a \in Scores, NEW b \in Scores, NEW c \in Scores,
           Better(a, b), Better(b, c)
    PROVE  Better(a, c)
<1>1. /\ a.priority \in Int /\ a.deadline \in Nat /\ a.id \in Nat
      /\ b.priority \in Int /\ b.deadline \in Nat /\ b.id \in Nat
      /\ c.priority \in Int /\ c.deadline \in Nat /\ c.id \in Nat
  BY DEF Scores
<1> QED
  BY <1>1 DEF Better, NoRequest

(* Best answers the score that is better than all the others.               *)
LEMMA BestIsFirst ==
    ASSUME NEW S, S \subseteq Scores, IsFiniteSet(S), S # {}
    PROVE  Best(S) \in S /\ \A b \in S : b = Best(S) \/ Better(Best(S), b)
<1> DEFINE Ahead == [a \in S |-> {b \in S : Better(b, a)}]
<1>1. PICK a \in S : Ahead[a] = {}
  <2>1. Ahead \in [S -> SUBSET S]
    OBVIOUS
  <2>2. \A x \in S : x \notin Ahead[x]
    BY BetterIsTotal
  <2>3. ASSUME NEW x \in S, NEW y \in Ahead[x] PROVE Ahead[y] \subseteq Ahead[x]
    <3>1. y \in S /\ Better(y, x) /\ \A z \in Ahead[y] : z \in S /\ Better(z, y)
      OBVIOUS
    <3>2. \A z \in Ahead[y] : Better(z, x)
      BY <3>1, BetterIsTransitive
    <3> QED
      BY <3>1, <3>2
  <2> HIDE DEF Ahead
  <2> QED
    BY <2>1, <2>2, <2>3, FirstExists
<1>2. \A b \in S : b = a \/ Better(a, b)
  <2>1. \A b \in S : ~Better(b, a)
    BY <1>1
  <2> QED
    BY <2>1, BetterIsTotal
<1> QED
  BY <1>2 DEF Best

(* What the scheduler is given: the unsigned fields of the requests in use  *)
(* and of the focus.                                                        *)
RequestsOK(requests) ==
    /\ \E n \in Nat : DOMAIN requests = 1 .. n
    /\ \A i \in DOMAIN requests :
           /\ requests[i].first \in Nat /\ requests[i].end \in Nat
           /\ requests[i].priority \in Nat /\ requests[i].deadline \in Nat
           /\ requests[i].skips \in Nat

FocusOK(focus) ==
    focus = NoFocus \/ focus \in [playhead : Nat, behind : Nat, ahead : Nat, priority : Nat]

(* The scores of a set of requests are finitely many and comparable.        *)
LEMMA RequestScores ==
    ASSUME NEW requests, RequestsOK(requests), NEW A, A \subseteq DOMAIN requests
    PROVE  /\ \A i \in A : EffectivePriority(requests[i]) \in Int
           /\ \A i \in A : RequestScore(requests, i) \in Scores
           /\ IsFiniteSet({RequestScore(requests, i) : i \in A})
           /\ IsFiniteSet({EffectivePriority(requests[i]) : i \in A})
<1>1. \A i \in A : EffectivePriority(requests[i]) \in Int
  BY SchedulerAssumption DEF RequestsOK, EffectivePriority, Smaller
<1>2. \A i \in A : RequestScore(requests, i) \in Scores
  <2>1. \A i \in A : i \in Nat /\ requests[i].deadline \in Nat
    BY DEF RequestsOK
  <2> QED
    BY <1>1, <2>1 DEF RequestScore, Scores
<1>3. IsFiniteSet(A)
  BY FS_Interval, FS_Subset DEF RequestsOK
<1> DEFINE f == [i \in A |-> RequestScore(requests, i)]
           g == [i \in A |-> EffectivePriority(requests[i])]
<1>4. /\ {RequestScore(requests, i) : i \in A} = {f[i] : i \in A}
      /\ {EffectivePriority(requests[i]) : i \in A} = {g[i] : i \in A}
  OBVIOUS
<1> HIDE DEF f, g
<1>5. IsFiniteSet({f[i] : i \in A}) /\ IsFiniteSet({g[i] : i \in A})
  BY <1>3, ImageIsFinite
<1> QED
  BY <1>1, <1>2, <1>4, <1>5

(* Every node of the queue has a score.                                     *)
LEMMA NodeScoreIsScore ==
    ASSUME NEW requests, RequestsOK(requests), NEW focus, FocusOK(focus), NEW node
    PROVE  NodeScore(node, requests, focus) \in Scores
<1> DEFINE A == NodeRequests(node, requests)
           S == {RequestScore(requests, i) : i \in A}
           idle == IdleScore(FocusPriority(node, focus))
<1>1. A \subseteq DOMAIN requests
  BY DEF NodeRequests, ActiveIds
<1>2. S \subseteq Scores /\ IsFiniteSet(S)
  <2> HIDE DEF A
  <2> QED
    BY <1>1, RequestScores
<1>3. idle \in Scores
  BY DEF IdleScore, FocusPriority, FocusOK, Scores, NoRequest
<1> HIDE DEF A, S, idle
<1>4. IsFiniteSet({idle} \cup S)
  <2>1. {idle} \cup S = S \cup {idle}
    OBVIOUS
  <2> QED
    BY <1>2, <2>1, FS_AddElement
<1>5. Best({idle} \cup S) \in Scores
  BY <1>2, <1>3, <1>4, BestIsFirst
<1> QED
  BY <1>5 DEF NodeScore, A, S, idle


--------------------------------------------------------------------------------
(* The sort of the queue. *)

(* Position j precedes position i in a stable sort by the scores sc.        *)
Precedes(sc, j, i) == Better(sc[j], sc[i]) \/ (j < i /\ ~Better(sc[i], sc[j]))
Preceding(sc, n, i) == {j \in 1 .. n : Precedes(sc, j, i)}

(* Equal scores are told apart by their position, so the positions are      *)
(* totally ordered.                                                         *)
LEMMA PrecedesIsAnOrder ==
    ASSUME NEW n \in Nat, NEW sc \in [1 .. n -> Scores],
           NEW i \in 1 .. n, NEW j \in 1 .. n, NEW k \in 1 .. n
    PROVE  /\ ~Precedes(sc, i, i)
           /\ ~(Precedes(sc, i, j) /\ Precedes(sc, j, i))
           /\ i # j => Precedes(sc, i, j) \/ Precedes(sc, j, i)
           /\ Precedes(sc, i, j) /\ Precedes(sc, j, k) => Precedes(sc, i, k)
<1>1. sc[i] \in Scores /\ sc[j] \in Scores /\ sc[k] \in Scores
  OBVIOUS
<1>2. ~Precedes(sc, i, i)
  BY <1>1, BetterIsTotal DEF Precedes
<1>3. ~(Precedes(sc, i, j) /\ Precedes(sc, j, i))
  BY <1>1, BetterIsTotal DEF Precedes
<1>4. i # j => Precedes(sc, i, j) \/ Precedes(sc, j, i)
  BY <1>1, BetterIsTotal DEF Precedes
<1>5. ASSUME Precedes(sc, i, j), Precedes(sc, j, k) PROVE Precedes(sc, i, k)
  <2>1. CASE sc[i] = sc[j]
    BY <1>1, <1>5, <2>1, BetterIsTotal DEF Precedes
  <2>2. CASE sc[j] = sc[k]
    BY <1>1, <1>5, <2>2, BetterIsTotal DEF Precedes
  <2>3. CASE sc[i] # sc[j] /\ sc[j] # sc[k]
    <3>1. Better(sc[i], sc[j]) /\ Better(sc[j], sc[k])
      BY <1>1, <1>5, <2>3, BetterIsTotal DEF Precedes
    <3>2. Better(sc[i], sc[k])
      BY <1>1, <3>1, BetterIsTransitive
    <3> QED
      BY <3>2 DEF Precedes
  <2> QED
    BY <2>1, <2>2, <2>3
<1> QED
  BY <1>2, <1>3, <1>4, <1>5

(* The number of positions that precede one is its place in the order.      *)
LEMMA RankIsPlace ==
    ASSUME NEW n \in Nat, NEW sc \in [1 .. n -> Scores]
    PROVE  /\ \A i \in 1 .. n : Cardinality(Preceding(sc, n, i)) \in 0 .. n - 1
           /\ \A i, j \in 1 .. n : Precedes(sc, i, j) =>
                  Cardinality(Preceding(sc, n, i)) < Cardinality(Preceding(sc, n, j))
           /\ \A k \in 1 .. n : \E i \in 1 .. n : Cardinality(Preceding(sc, n, i)) = k - 1
<1> DEFINE P(i) == Preceding(sc, n, i)
           Place == [i \in 1 .. n |-> Cardinality(P(i))]
<1>0. IsFiniteSet(1 .. n) /\ Cardinality(1 .. n) = n
  BY FS_Interval
<1>1. \A i : P(i) \subseteq 1 .. n /\ IsFiniteSet(P(i)) /\ Cardinality(P(i)) \in Nat
  <2>1. \A i : P(i) \in SUBSET (1 .. n)
    BY DEF Preceding
  <2> QED
    BY <1>0, <2>1, FS_Subset, FS_CardinalityType
<1>2. ASSUME NEW i \in 1 .. n PROVE Cardinality(P(i)) \in 0 .. n - 1
  <2>1. i \notin P(i)
    BY PrecedesIsAnOrder DEF Preceding
  <2>2. P(i) \in SUBSET ((1 .. n) \ {i})
    BY <1>1, <2>1
  <2>3. IsFiniteSet((1 .. n) \ {i}) /\ Cardinality((1 .. n) \ {i}) = n - 1
    BY <1>0, FS_RemoveElement
  <2>4. Cardinality(P(i)) <= n - 1
    BY <2>2, <2>3, FS_Subset
  <2> QED
    BY <1>1, <2>4
<1>3. ASSUME NEW i \in 1 .. n, NEW j \in 1 .. n, Precedes(sc, i, j)
      PROVE  Cardinality(P(i)) < Cardinality(P(j))
  <2>1. P(i) \in SUBSET P(j) /\ i \in P(j) /\ i \notin P(i)
    BY <1>3, PrecedesIsAnOrder DEF Preceding
  <2>2. P(i) # P(j)
    BY <2>1
  <2> HIDE DEF P
  <2>3. Cardinality(P(i)) <= Cardinality(P(j)) /\ Cardinality(P(i)) # Cardinality(P(j))
    BY <1>1, <2>1, <2>2, FS_Subset
  <2> QED
    BY <1>1, <2>3
<1>4. \A k \in 1 .. n : \E i \in 1 .. n : Cardinality(P(i)) = k - 1
  <2>1. Place \in [1 .. n -> 0 .. n - 1]
    BY <1>2
  <2>2. ASSUME NEW i \in 1 .. n, NEW j \in 1 .. n, i # j PROVE Place[i] # Place[j]
    <3>1. Precedes(sc, i, j) \/ Precedes(sc, j, i)
      BY <2>2, PrecedesIsAnOrder
    <3>2. Cardinality(P(i)) # Cardinality(P(j))
      BY <1>1, <1>3, <3>1
    <3> QED
      BY <3>2
  <2>3. Place \in Injection(1 .. n, 0 .. n - 1)
    BY <2>1, <2>2 DEF Injection, IsInjective
  <2>4. IsFiniteSet(0 .. n - 1) /\ Cardinality(0 .. n - 1) = n
    BY FS_Interval
  <2>5. Place \in Surjection(1 .. n, 0 .. n - 1)
    <3> HIDE DEF Place
    <3> QED
      BY <1>0, <2>3, <2>4, FS_Injection
  <2>6. \A m \in 0 .. n - 1 : \E i \in 1 .. n : Place[i] = m
    <3> HIDE DEF Place
    <3> QED
      BY <2>5 DEF Surjection
  <2>7. \A m \in 0 .. n - 1 : \E i \in 1 .. n : Cardinality(P(i)) = m
    <3> HIDE DEF P
    <3> QED
      BY <2>6
  <2> HIDE DEF P
  <2> QED
    BY <2>7
<1> QED
  BY <1>2, <1>3, <1>4

(* apta_sort_pcm_queue neither loses, doubles nor changes a node: the new   *)
(* queue is the old one in another order, the node with the better score    *)
(* first, and nodes of the same score in the order they had.                *)
THEOREM SortIsStable ==
    ASSUME NEW requests, RequestsOK(requests), NEW focus, FocusOK(focus),
           NEW T, NEW queue \in Seq(T)
    PROVE  \E p \in Bijection(1 .. Len(queue), 1 .. Len(queue)) :
               /\ SortQueue(queue, requests, focus) =
                      [k \in 1 .. Len(queue) |-> queue[p[k]]]
               /\ \A k, l \in 1 .. Len(queue) : k < l =>
                      /\ ~Better(NodeScore(queue[p[l]], requests, focus),
                                 NodeScore(queue[p[k]], requests, focus))
                      /\ \/ Better(NodeScore(queue[p[k]], requests, focus),
                                   NodeScore(queue[p[l]], requests, focus))
                         \/ p[k] < p[l]
<1> DEFINE n == Len(queue)
           sc == [i \in 1 .. n |-> NodeScore(queue[i], requests, focus)]
           Ahead(j, i) == Better(NodeScore(queue[j], requests, focus),
                                 NodeScore(queue[i], requests, focus))
           Rank(i) == Cardinality({j \in DOMAIN queue :
                                      Ahead(j, i) \/ (j < i /\ ~Ahead(i, j))})
           p == [k \in DOMAIN queue |-> CHOOSE i \in DOMAIN queue : Rank(i) = k - 1]
<1>0. n \in Nat /\ DOMAIN queue = 1 .. n
  BY LenProperties
<1>1. sc \in [1 .. n -> Scores]
  BY NodeScoreIsScore
<1>2. /\ \A i \in 1 .. n : Rank(i) \in 0 .. n - 1
      /\ \A i, j \in 1 .. n : Precedes(sc, i, j) => Rank(i) < Rank(j)
      /\ \A k \in 1 .. n : \E i \in 1 .. n : Rank(i) = k - 1
  <2>1. ASSUME NEW i \in 1 .. n PROVE Rank(i) = Cardinality(Preceding(sc, n, i))
    BY <1>0 DEF Preceding, Precedes
  <2> HIDE DEF sc, n, Rank
  <2> QED
    BY <1>0, <1>1, <2>1, RankIsPlace
<1>3. SortQueue(queue, requests, focus) = [k \in 1 .. n |-> queue[p[k]]]
  <2>1. SortQueue(queue, requests, focus) =
            [k \in DOMAIN queue |-> queue[CHOOSE i \in DOMAIN queue : Rank(i) = k - 1]]
    BY DEF SortQueue
  <2> HIDE DEF Rank
  <2> QED
    BY <1>0, <2>1
<1>4. \A k \in 1 .. n : p[k] \in 1 .. n /\ Rank(p[k]) = k - 1
  <2> HIDE DEF Rank, n
  <2> QED
    BY <1>0, <1>2
<1>5. ASSUME NEW i \in 1 .. n, NEW j \in 1 .. n, Rank(i) = Rank(j) PROVE i = j
  <2> HIDE DEF sc, n, Rank
  <2>1. i # j => Precedes(sc, i, j) \/ Precedes(sc, j, i)
    BY <1>0, <1>1, PrecedesIsAnOrder
  <2>2. Rank(i) \in Int /\ ~(Rank(i) < Rank(j)) /\ ~(Rank(j) < Rank(i))
    BY <1>0, <1>2, <1>5
  <2> QED
    BY <1>2, <2>1, <2>2
<1>6. p \in Bijection(1 .. n, 1 .. n)
  <2>1. p \in [1 .. n -> 1 .. n]
    BY <1>0, <1>4
  <2> HIDE DEF p, Rank, n
  <2>2. \A k, l \in 1 .. n : p[k] = p[l] => k = l
    BY <1>0, <1>4
  <2>3. ASSUME NEW i \in 1 .. n PROVE \E k \in 1 .. n : p[k] = i
    <3>1. Rank(i) + 1 \in 1 .. n
      BY <1>0, <1>2
    <3>2. PICK k \in 1 .. n : k = Rank(i) + 1
      BY <3>1
    <3>3. p[k] \in 1 .. n /\ Rank(p[k]) = k - 1
      BY <1>4
    <3>4. Rank(p[k]) = Rank(i)
      BY <1>0, <1>2, <3>2, <3>3
    <3> QED
      BY <1>5, <3>3, <3>4
  <2> QED
    BY <2>1, <2>2, <2>3 DEF Bijection, Injection, Surjection, IsInjective
<1>7. ASSUME NEW k \in 1 .. n, NEW l \in 1 .. n, k < l
      PROVE  /\ ~Better(sc[p[l]], sc[p[k]])
             /\ Better(sc[p[k]], sc[p[l]]) \/ p[k] < p[l]
  <2> HIDE DEF p, Rank, n, sc
  <2>1. p[k] \in 1 .. n /\ p[l] \in 1 .. n /\ Rank(p[k]) < Rank(p[l])
    BY <1>0, <1>4, <1>7
  <2>2. ~Precedes(sc, p[l], p[k]) /\ p[l] # p[k]
    BY <1>0, <1>2, <2>1
  <2>3. Precedes(sc, p[k], p[l])
    BY <1>0, <1>1, <2>1, <2>2, PrecedesIsAnOrder
  <2> QED
    BY <2>2, <2>3 DEF Precedes
<1>8. \A k \in 1 .. n : sc[p[k]] = NodeScore(queue[p[k]], requests, focus)
  BY <1>4
<1> HIDE DEF p, sc
<1> QED
  BY <1>3, <1>6, <1>7, <1>8

(* The analyser always finds a node in a queue that is not empty, and none  *)
(* has a higher priority.                                                   *)
LEMMA SelectFindsNode ==
    ASSUME NEW requests, RequestsOK(requests), NEW focus, FocusOK(focus),
           NEW T, NEW queue \in Seq(T), queue # <<>>
    PROVE  SelectNode(queue, requests, focus) \in 1 .. Len(queue)
<1> DEFINE n == Len(queue)
           prio == [i \in 1 .. n |-> NodePriority(queue[i], requests, focus)]
           top == {i \in 1 .. n : \A j \in 1 .. n : prio[j] <= prio[i]}
<1>0. n \in Nat \ {0} /\ DOMAIN queue = 1 .. n
  BY LenProperties, EmptySeq
<1>1. ASSUME NEW node PROVE NodePriority(node, requests, focus) \in Int
  <2> DEFINE A == NodeRequests(node, requests)
             E == {EffectivePriority(requests[i]) : i \in A}
             f == FocusPriority(node, focus)
  <2>1. A \subseteq DOMAIN requests
    BY DEF NodeRequests, ActiveIds
  <2>2. E \subseteq Int /\ IsFiniteSet(E)
    <3> HIDE DEF A
    <3> QED
      BY <2>1, RequestScores
  <2>3. f \in Int
    BY DEF FocusPriority, FocusOK
  <2> HIDE DEF A, E, f
  <2>4. IsFiniteSet({f} \cup E)
    <3>1. {f} \cup E = E \cup {f}
      OBVIOUS
    <3> QED
      BY <2>2, <3>1, FS_AddElement
  <2>5. \E m \in {f} \cup E : \A q \in {f} \cup E : q <= m
    BY <2>2, <2>3, <2>4, LargestExists
  <2>6. (CHOOSE m \in {f} \cup E : \A q \in {f} \cup E : q <= m) \in Int
    BY <2>2, <2>3, <2>5
  <2> QED
    BY <2>6 DEF NodePriority, A, E, f
<1>2. prio \in [1 .. n -> Int]
  BY <1>1
<1>3. top # {}
  <2> DEFINE P == {prio[i] : i \in 1 .. n}
  <2>1. IsFiniteSet(P)
    <3>1. IsFiniteSet(1 .. n)
      BY <1>0, FS_Interval
    <3> HIDE DEF prio, n
    <3> QED
      BY <3>1, ImageIsFinite
  <2> HIDE DEF prio, n
  <2>2. P \subseteq Int /\ P # {}
    BY <1>0, <1>2
  <2>3. \E m \in P : \A q \in P : q <= m
    <3> HIDE DEF P
    <3> QED
      BY <2>1, <2>2, LargestExists
  <2> QED
    BY <2>3
<1>4. SelectNode(queue, requests, focus) = SmallestOf(top)
  BY <1>0 DEF SelectNode
<1>5. SmallestOf(top) \in top
  <2>1. top \subseteq Nat
    BY <1>0
  <2> HIDE DEF top
  <2> QED
    BY <1>3, <2>1, SmallestIsFirst
<1> QED
  BY <1>4, <1>5


--------------------------------------------------------------------------------
(* The demand. *)

(* The target of the next demand is a range of frames.                      *)
LEMMA TargetIsRange ==
    ASSUME NEW requests, RequestsOK(requests), NEW focus, FocusOK(focus),
           NEW total \in Int, NEW contiguous_end \in Nat
    PROVE  /\ DemandTarget(requests, focus, total, contiguous_end).first \in Nat
           /\ DemandTarget(requests, focus, total, contiguous_end).end \in Int
<1> DEFINE A == ActiveIds(requests)
           S == {RequestScore(requests, i) : i \in A}
           best == Best(S).id
           target ==
               IF A # {}
               THEN [id |-> best, first |-> requests[best].first, end |-> requests[best].end]
               ELSE IF focus # NoFocus /\ FocusEnd(focus) > FocusFirst(focus)
               THEN [id |-> NoRequest, first |-> FocusFirst(focus), end |-> FocusEnd(focus)]
               ELSE IF total = Unknown
               THEN [id |-> NoRequest, first |-> contiguous_end,
                     end |-> contiguous_end + MaxPush]
               ELSE [id |-> NoRequest, first |-> 0, end |-> total]
<1>1. A # {} => best \in DOMAIN requests
  <2>1. A \subseteq DOMAIN requests
    BY DEF ActiveIds
  <2>2. S \subseteq Scores /\ IsFiniteSet(S)
    <3> HIDE DEF A
    <3> QED
      BY <2>1, RequestScores
  <2>3. A # {} => S # {}
    OBVIOUS
  <2>4. A # {} => Best(S) \in S
    <3> HIDE DEF S, A
    <3> QED
      BY <2>2, <2>3, BestIsFirst
  <2>5. \A i \in A : RequestScore(requests, i).id = i
    BY DEF RequestScore
  <2> QED
    BY <2>1, <2>4, <2>5
<1>2. DemandTarget(requests, focus, total, contiguous_end) =
          IF total = Unknown THEN target ELSE [target EXCEPT !.end = Smaller(@, total)]
  BY DEF DemandTarget
<1> HIDE DEF best, A
<1>3. /\ target.first \in Nat /\ target.end \in Int
      /\ [target EXCEPT !.end = Smaller(@, total)].first = target.first
      /\ [target EXCEPT !.end = Smaller(@, total)].end = Smaller(target.end, total)
  <2>1. CASE A # {}
    BY <1>1, <2>1 DEF RequestsOK
  <2>2. CASE A = {} /\ focus # NoFocus /\ FocusEnd(focus) > FocusFirst(focus)
    BY <2>2 DEF FocusOK, FocusFirst, FocusEnd
  <2>3. CASE A = {} /\ ~(focus # NoFocus /\ FocusEnd(focus) > FocusFirst(focus))
    BY <2>3, SchedulerAssumption
  <2> QED
    BY <2>1, <2>2, <2>3
<1> HIDE DEF target
<1> QED
  BY <1>2, <1>3 DEF Smaller

(* A demand starts at the first frame of its target that is missing and     *)
(* covers missing frames only, within the target and within one push: the   *)
(* host is never asked for PCM it has already delivered.                    *)
THEOREM DemandIsMissing ==
    ASSUME NEW accepted, accepted \subseteq Nat, NEW target,
           target.first \in Nat, target.end \in Int,
           MissingFrames(accepted, target) # {}
    PROVE  LET d == Demand(accepted, target) IN
           /\ d.first \in Nat /\ d.end \in Nat
           /\ target.first <= d.first /\ d.first < d.end /\ d.end <= target.end
           /\ d.end - d.first <= MaxPush
           /\ \A f \in target.first .. d.first - 1 : f \in accepted
           /\ \A f \in d.first .. d.end - 1 : f \notin accepted
<1> DEFINE M == MissingFrames(accepted, target)
           first == SmallestOf(M)
           stops == {f \in accepted : f > first} \cup {target.end, first + MaxPush}
           end == SmallestOf(stops)
<1>1. M = (target.first .. target.end - 1) \ accepted
  BY DEF MissingFrames
<1>2. M \subseteq Nat /\ M # {}
  BY <1>1
<1>3. first \in M /\ \A x \in M : first <= x
  <2> HIDE DEF M
  <2> QED
    BY <1>2, SmallestIsFirst
<1> HIDE DEF M, first
<1>4. /\ first \in Nat /\ target.first <= first /\ first < target.end
      /\ first \notin accepted
  BY <1>1, <1>2, <1>3
<1>5. stops \subseteq Nat /\ stops # {} /\ \A x \in stops : first < x
  <2>1. target.end \in Nat /\ first + MaxPush \in Nat /\ first < first + MaxPush
    BY <1>4, SchedulerAssumption
  <2>2. \A x \in stops : x \in Nat /\ first < x
    BY <1>4, <2>1
  <2> QED
    BY <2>2
<1>6. end \in stops /\ \A x \in stops : end <= x
  <2> HIDE DEF stops
  <2> QED
    BY <1>5, SmallestIsFirst
<1>7. /\ end \in Nat /\ first < end /\ end <= target.end /\ end <= first + MaxPush
      /\ \A f \in accepted : f > first => end <= f
  BY <1>5, <1>6
<1>8. \A f \in target.first .. first - 1 : f \in accepted
  BY <1>1, <1>3, <1>4
<1>9. \A f \in first .. end - 1 : f \notin accepted
  BY <1>4, <1>7
<1>10. Demand(accepted, target).first = first /\ Demand(accepted, target).end = end
  BY DEF Demand, first, M
<1> HIDE DEF end
<1> QED
  BY <1>4, <1>7, <1>8, <1>9, <1>10, SchedulerAssumption

================================================================================
