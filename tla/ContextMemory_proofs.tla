------------------------- MODULE ContextMemory_proofs -------------------------
(***************************************************************************)
(* Proofs about ContextMemory, for any number of sessions and any sizes.   *)
(* First the sums the accounting is stated with, then the lists of the     *)
(* arena, then three layers of the invariant: Shape, Accounts, Stored.     *)
(***************************************************************************)
EXTENDS ContextMemory, FiniteSetTheorems, TLAPS

---------------------------------------------------------------------------
(* Sums.                                                                   *)

(* A set of naturals has a least element: the sets 0 .. x - 1 cannot       *)
(* shrink for ever.                                                        *)
LEMMA LeastExists ==
    ASSUME NEW T \in SUBSET Nat, T # {}
    PROVE  \E x \in T : \A y \in T : x <= y
<1> DEFINE Below == {0 .. x - 1 : x \in T}
<1>1. Below \subseteq FiniteSubsetsOf(Nat) /\ Below # {}
  <2>1. \A x \in T : IsFiniteSet(0 .. x - 1) /\ 0 .. x - 1 \in SUBSET Nat
    BY FS_Interval
  <2> QED
    BY <2>1 DEF FiniteSubsetsOf
<1>2. \E X \in Below : \A Y \in Below : ~(<<Y, X>> \in StrictSubsetOrdering(Nat))
  BY <1>1, WFMin, FS_StrictSubsetOrderingWellFounded, Zenon
<1>3. PICK x \in T : \A y \in T : ~(<<0 .. y - 1, 0 .. x - 1>> \in StrictSubsetOrdering(Nat))
  BY <1>2
<1>4. ASSUME NEW y \in T, y < x PROVE FALSE
  <2>1. 0 .. y - 1 \subseteq 0 .. x - 1 /\ 0 .. y - 1 # 0 .. x - 1
    <3>1. x \in Nat /\ y \in Nat
      OBVIOUS
    <3>2. y \in 0 .. x - 1 /\ y \notin 0 .. y - 1
      BY <3>1, <1>4
    <3> QED
      BY <3>1, <3>2, <1>4
  <2>2. <<0 .. y - 1, 0 .. x - 1>> \in StrictSubsetOrdering(Nat)
    BY <2>1, <1>1, SMT DEF StrictSubsetOrdering, FiniteSubsetsOf
  <2> QED
    BY <2>2, <1>3
<1> QED
  BY <1>4

(* Induction over an interval, as a fact about sets.                       *)
LEMMA Induction ==
    ASSUME NEW n \in Nat, NEW T \in SUBSET (0 .. n), 0 \in T,
           \A i \in 1 .. n : i - 1 \in T => i \in T
    PROVE  T = 0 .. n
<1> SUFFICES ASSUME (0 .. n) \ T # {} PROVE FALSE
  OBVIOUS
<1>1. PICK x \in (0 .. n) \ T : \A y \in (0 .. n) \ T : x <= y
  <2>1. (0 .. n) \ T \in SUBSET Nat
    OBVIOUS
  <2> QED
    BY <2>1, LeastExists
<1>2. x \in 1 .. n
  BY <1>1
<1>3. x - 1 \in 0 .. n /\ ~(x <= x - 1)
  BY <1>2
<1> QED
  BY <1>1, <1>2, <1>3

(* A table of the partial sums of a list.                                  *)
IsSum(p, s) ==
    /\ p \in [0 .. Len(s) -> Nat]
    /\ p[0] = 0
    /\ \A i \in 1 .. Len(s) : p[i] = p[i - 1] + s[i]

(* The recursion of Total is well defined: every list of sizes has a table *)
(* of partial sums, built one entry after the other.                       *)
LEMMA SumExists ==
    ASSUME NEW s \in Seq(Nat)
    PROVE  \E p : IsSum(p, s)
<1> DEFINE n == Len(s)
           Upto(p, k) == /\ p \in [0 .. k -> Nat] /\ p[0] = 0
                         /\ \A i \in 1 .. k : p[i] = p[i - 1] + s[i]
           T == {k \in 0 .. n : \E p : Upto(p, k)}
<1>0. n \in Nat
  OBVIOUS
<1>1. 0 \in T
  <2> DEFINE p == [i \in 0 .. 0 |-> 0]
  <2>1. Upto(p, 0)
    OBVIOUS
  <2> HIDE DEF Upto, p
  <2> QED
    BY <2>1, <1>0
<1>2. ASSUME NEW k \in 1 .. n, k - 1 \in T PROVE k \in T
  <2>1. PICK p : Upto(p, k - 1)
    BY <1>2
  <2> DEFINE q == [i \in 0 .. k |-> IF i = k THEN p[k - 1] + s[k] ELSE p[i]]
  <2>2. s[k] \in Nat /\ p[k - 1] \in Nat
    BY <2>1
  <2>3. q \in [0 .. k -> Nat] /\ q[0] = 0
    BY <2>1, <2>2
  <2>4. ASSUME NEW i \in 1 .. k PROVE q[i] = q[i - 1] + s[i]
    <3>1. CASE i = k
      BY <3>1, <2>1
    <3>2. CASE i # k
      <4>1. i \in 1 .. k - 1
        BY <3>2
      <4> QED
        BY <4>1, <2>1
    <3> QED
      BY <3>1, <3>2
  <2>5. Upto(q, k)
    BY <2>3, <2>4
  <2> HIDE DEF Upto, q
  <2> QED
    BY <2>5
<1> HIDE DEF Upto
<1>3. T = 0 .. n
  <2>1. T \in SUBSET (0 .. n)
    OBVIOUS
  <2> HIDE DEF T
  <2> QED
    BY <1>0, <1>1, <1>2, <2>1, Induction
<1>4. \E p : Upto(p, n)
  <2>1. n \in T
    BY <1>3, <1>0
  <2> QED
    BY <2>1
<1> QED
  BY <1>4 DEF IsSum, Upto

LEMMA TotalIsSum ==
    ASSUME NEW s \in Seq(Nat)
    PROVE  \E p : IsSum(p, s) /\ Total(s) = p[Len(s)]
<1> DEFINE Table(p) == p = [i \in 0 .. Len(s) |-> IF i = 0 THEN 0 ELSE p[i - 1] + s[i]]
<1>1. PICK p : IsSum(p, s)
  BY SumExists
<1>2. Table(p)
  <2> DEFINE q == [i \in 0 .. Len(s) |-> IF i = 0 THEN 0 ELSE p[i - 1] + s[i]]
  <2>1. \A i \in 0 .. Len(s) : p[i] = q[i]
    BY <1>1 DEF IsSum
  <2>2. p \in [0 .. Len(s) -> Nat]
    BY <1>1 DEF IsSum
  <2> QED
    BY <2>1, <2>2
<1> DEFINE q == CHOOSE p1 : Table(p1)
<1>3. Table(q)
  <2> HIDE DEF Table
  <2> QED
    BY <1>2
<1>4. Total(s) = q[Len(s)]
  BY DEF Total
<1>5. IsSum(q, s)
  <2> DEFINE n == Len(s)
             T == {k \in 0 .. n : q[k] \in Nat}
  <2> HIDE DEF q
  <2>1. n \in Nat /\ \A i \in 1 .. n : s[i] \in Nat
    OBVIOUS
  <2>2. q[0] = 0 /\ \A i \in 1 .. n : q[i] = q[i - 1] + s[i]
    BY <1>3, <2>1
  <2>3. T = 0 .. n
    <3>1. T \in SUBSET (0 .. n) /\ 0 \in T
      BY <2>1, <2>2
    <3>2. \A i \in 1 .. n : i - 1 \in T => i \in T
      BY <2>1, <2>2
    <3> HIDE DEF T
    <3> QED
      BY <2>1, <3>1, <3>2, Induction
  <2>4. q \in [0 .. n -> Nat]
    <3>1. \A i \in 0 .. n : q[i] \in Nat
      BY <2>3
    <3> QED
      BY <1>3, <3>1
  <2> QED
    BY <2>2, <2>4 DEF IsSum
<1> QED
  BY <1>4, <1>5

(* Two tables of the same list are the same.                               *)
LEMMA SumIsUnique ==
    ASSUME NEW s \in Seq(Nat), NEW p, IsSum(p, s)
    PROVE  Total(s) = p[Len(s)]
<1>1. PICK q : IsSum(q, s) /\ Total(s) = q[Len(s)]
  BY TotalIsSum
<1> DEFINE n == Len(s)
           T == {k \in 0 .. n : p[k] = q[k]}
<1>2. n \in Nat
  OBVIOUS
<1>3. T \in SUBSET (0 .. n) /\ 0 \in T
  BY <1>1, <1>2 DEF IsSum
<1>4. \A i \in 1 .. n : i - 1 \in T => i \in T
  BY <1>1, <1>2 DEF IsSum
<1>5. T = 0 .. n
  <2> HIDE DEF T
  <2> QED
    BY <1>2, <1>3, <1>4, Induction
<1>6. n \in T
  BY <1>2, <1>5
<1> QED
  BY <1>1, <1>6

LEMMA TotalType ==
    ASSUME NEW s \in Seq(Nat)
    PROVE  Total(s) \in Nat
BY TotalIsSum DEF IsSum

LEMMA TotalNil == Total(<<>>) = 0
<1>1. <<>> \in Seq(Nat) /\ Len(<<>>) = 0
  OBVIOUS
<1> QED
  BY <1>1, TotalIsSum DEF IsSum

LEMMA TotalOne ==
    ASSUME NEW x \in Nat
    PROVE  Total(<<x>>) = x
<1>1. <<x>> \in Seq(Nat) /\ Len(<<x>>) = 1 /\ <<x>>[1] = x
  OBVIOUS
<1>2. PICK p : IsSum(p, <<x>>) /\ Total(<<x>>) = p[1]
  BY <1>1, TotalIsSum
<1>3. p[1] = p[1 - 1] + <<x>>[1] /\ p[0] = 0
  BY <1>1, <1>2 DEF IsSum
<1> QED
  BY <1>1, <1>2, <1>3

(* The sizes of two lists of allocations add up.                           *)
LEMMA TotalConcat ==
    ASSUME NEW s \in Seq(Nat), NEW t \in Seq(Nat)
    PROVE  Total(s \o t) = Total(s) + Total(t)
<1>1. PICK p : IsSum(p, s) /\ Total(s) = p[Len(s)]
  BY TotalIsSum
<1>2. PICK q : IsSum(q, t) /\ Total(t) = q[Len(t)]
  BY TotalIsSum
<1> DEFINE m == Len(s)
           n == Len(t)
           r == [i \in 0 .. m + n |-> IF i <= m THEN p[i] ELSE p[m] + q[i - m]]
<1>3. m \in Nat /\ n \in Nat /\ s \o t \in Seq(Nat) /\ Len(s \o t) = m + n
  OBVIOUS
<1>4. \A i \in 0 .. m : p[i] \in Nat
  BY <1>1 DEF IsSum
<1>5. \A i \in 0 .. n : q[i] \in Nat
  BY <1>2 DEF IsSum
<1>6. r \in [0 .. m + n -> Nat] /\ r[0] = 0
  <2>1. ASSUME NEW i \in 0 .. m + n PROVE r[i] \in Nat
    <3>1. CASE i <= m
      BY <3>1, <1>3, <1>4
    <3>2. CASE ~(i <= m)
      <4>1. i - m \in 0 .. n /\ m \in 0 .. m
        BY <3>2, <1>3
      <4>2. p[m] \in Nat /\ q[i - m] \in Nat
        BY <4>1, <1>4, <1>5
      <4>3. r[i] = p[m] + q[i - m]
        BY <3>2
      <4> QED
        BY <4>2, <4>3
    <3> QED
      BY <3>1, <3>2
  <2> QED
    BY <2>1, <1>1, <1>3 DEF IsSum
<1>7. ASSUME NEW i \in 1 .. m + n PROVE r[i] = r[i - 1] + (s \o t)[i]
  <2>1. CASE i <= m
    <3>1. i \in 1 .. m /\ i - 1 \in 0 .. m /\ (s \o t)[i] = s[i]
      BY <2>1, <1>3
    <3> QED
      BY <2>1, <3>1, <1>1, <1>3 DEF IsSum
  <2>2. CASE i = m + 1
    <3>1. (s \o t)[i] = t[1] /\ 1 \in 1 .. n /\ t[1] \in Nat
      BY <2>2, <1>3
    <3>2. q[1] = t[1]
      BY <3>1, <1>2 DEF IsSum
    <3> QED
      BY <2>2, <3>1, <3>2, <1>3, <1>4
  <2>3. CASE i > m + 1
    <3>1. (s \o t)[i] = t[i - m] /\ i - m \in 1 .. n /\ i - 1 - m \in 0 .. n
      BY <2>3, <1>3
    <3>2. q[i - m] = q[(i - m) - 1] + t[i - m] /\ t[i - m] \in Nat
      <4> DEFINE j == i - m
      <4>1. j \in 1 .. n
        BY <3>1
      <4> HIDE DEF j
      <4>2. q[j] = q[j - 1] + t[j] /\ t[j] \in Nat
        BY <4>1, <1>2 DEF IsSum
      <4> QED
        BY <4>2 DEF j
    <3>3. (i - m) - 1 = i - 1 - m
      BY <1>3
    <3>4. r[i] = p[m] + q[i - m] /\ r[i - 1] = p[m] + q[i - 1 - m]
      BY <2>3, <1>3
    <3>5. p[m] \in Nat /\ q[i - 1 - m] \in Nat
      BY <3>1, <1>3, <1>4, <1>5
    <3> HIDE DEF r
    <3> QED
      BY <3>1, <3>2, <3>3, <3>4, <3>5
  <2> QED
    BY <2>1, <2>2, <2>3, <1>3
<1>8. IsSum(r, s \o t)
  BY <1>3, <1>6, <1>7 DEF IsSum
<1>9. Total(s \o t) = r[m + n]
  <2> HIDE DEF r
  <2> QED
    BY <1>3, <1>8, SumIsUnique
<1>10. r[m + n] = p[m] + q[n]
  <2>1. CASE n = 0
    BY <2>1, <1>1, <1>2, <1>3, <1>4 DEF IsSum
  <2>2. CASE n # 0
    BY <2>2, <1>3
  <2> QED
    BY <2>1, <2>2
<1> QED
  BY <1>1, <1>2, <1>9, <1>10

LEMMA TotalAppend ==
    ASSUME NEW s \in Seq(Nat), NEW x \in Nat
    PROVE  Total(Append(s, x)) = Total(s) + x
<1>1. Append(s, x) = s \o <<x>> /\ <<x>> \in Seq(Nat)
  OBVIOUS
<1> QED
  BY <1>1, TotalConcat, TotalOne

LEMMA TotalTail ==
    ASSUME NEW s \in Seq(Nat), s # <<>>
    PROVE  /\ Head(s) \in Nat /\ Tail(s) \in Seq(Nat)
           /\ Total(s) = Head(s) + Total(Tail(s))
<1>1. s = <<Head(s)>> \o Tail(s) /\ <<Head(s)>> \in Seq(Nat) /\ Tail(s) \in Seq(Nat)
      /\ Head(s) \in Nat
  OBVIOUS
<1>2. Total(<<Head(s)>> \o Tail(s)) = Total(<<Head(s)>>) + Total(Tail(s))
  BY <1>1, TotalConcat
<1> QED
  BY <1>1, <1>2, TotalOne

(* Lists that differ in one entry have sums that differ by that entry.     *)
LEMMA TotalChange ==
    ASSUME NEW s \in Seq(Nat), NEW t \in Seq(Nat), Len(s) = Len(t),
           NEW k \in 1 .. Len(s), \A i \in 1 .. Len(s) : i # k => s[i] = t[i]
    PROVE  Total(t) + s[k] = Total(s) + t[k]
<1>1. PICK p : IsSum(p, s) /\ Total(s) = p[Len(s)]
  BY TotalIsSum
<1>2. PICK q : IsSum(q, t) /\ Total(t) = q[Len(t)]
  BY TotalIsSum
<1> DEFINE n == Len(s)
           T == {i \in 0 .. n : /\ i < k => p[i] = q[i]
                                /\ i >= k => q[i] + s[k] = p[i] + t[k]}
<1>3. /\ n \in Nat /\ k \in 1 .. n
      /\ \A i \in 1 .. n : s[i] \in Nat /\ t[i] \in Nat
  OBVIOUS
<1>4. \A i \in 0 .. n : p[i] \in Nat /\ q[i] \in Nat
  BY <1>1, <1>2 DEF IsSum
<1>5. T \in SUBSET (0 .. n) /\ 0 \in T
  BY <1>1, <1>2, <1>3 DEF IsSum
<1>6. ASSUME NEW i \in 1 .. n, i - 1 \in T PROVE i \in T
  <2>1. p[i] = p[i - 1] + s[i] /\ q[i] = q[i - 1] + t[i]
    BY <1>1, <1>2 DEF IsSum
  <2>2. /\ p[i - 1] \in Nat /\ q[i - 1] \in Nat /\ s[i] \in Nat /\ t[i] \in Nat
        /\ s[k] \in Nat /\ t[k] \in Nat
    BY <1>3, <1>4
  <2>3. CASE i < k
    BY <1>3, <1>6, <2>1, <2>3
  <2>4. CASE i = k
    BY <1>3, <1>6, <2>1, <2>2, <2>4
  <2>5. CASE i > k
    <3>1. q[i - 1] + s[k] = p[i - 1] + t[k] /\ s[i] = t[i]
      <4>1. i - 1 \in T /\ i - 1 >= k /\ i \in 1 .. Len(s) /\ i # k
        BY <1>3, <1>6, <2>5
      <4>2. q[i - 1] + s[k] = p[i - 1] + t[k]
        BY <4>1, <2>2
      <4>3. s[i] = t[i]
        BY <4>1
      <4> QED
        BY <4>2, <4>3, <2>2
    <3>2. q[i] + s[k] = p[i] + t[k]
      <4>1. p[i] \in Nat /\ q[i] \in Nat
        BY <1>3, <1>4
      <4>2. p[i] = p[i - 1] + s[i] /\ q[i] = q[i - 1] + s[i]
        BY <2>1, <3>1
      <4> DEFINE a == q[i - 1]
                 b == p[i - 1]
                 c == s[k]
                 d == t[k]
                 e == s[i]
      <4>3. a \in Nat /\ b \in Nat /\ c \in Nat /\ d \in Nat /\ e \in Nat /\ a + c = b + d
        BY <2>2, <3>1
      <4>4. q[i] = a + e /\ p[i] = b + e
        BY <4>2
      <4> HIDE DEF a, b, c, d, e
      <4>5. (a + e) + c = (b + e) + d
        BY <4>3
      <4> QED
        BY <4>4, <4>5 DEF c, d
    <3> QED
      BY <3>2, <2>5, <1>3
  <2> QED
    BY <2>3, <2>4, <2>5, <1>3
<1>7. T = 0 .. n
  <2> HIDE DEF T
  <2> QED
    BY <1>3, <1>5, <1>6, Induction
<1>8. n \in T /\ n >= k
  <2>1. n \in 0 .. n /\ n >= k
    BY <1>3
  <2> HIDE DEF T
  <2> QED
    BY <2>1, <1>7
<1>9. s[k] \in Nat /\ t[k] \in Nat /\ p[n] \in Nat /\ q[n] \in Nat
  BY <1>3, <1>4
<1> QED
  BY <1>1, <1>2, <1>8, <1>9

(* A list of zeros has no bytes.                                           *)
LEMMA TotalZero ==
    ASSUME NEW s \in Seq(Nat), \A i \in 1 .. Len(s) : s[i] = 0
    PROVE  Total(s) = 0
<1> DEFINE p == [i \in 0 .. Len(s) |-> 0]
<1>1. IsSum(p, s)
  BY DEF IsSum
<1>2. Total(s) = p[Len(s)]
  <2> HIDE DEF p
  <2> QED
    BY <1>1, SumIsUnique
<1> QED
  BY <1>2

(* The elements of a finite set in some order, each once.                  *)
LEMMA OrderOfSet ==
    ASSUME NEW S, IsFiniteSet(S)
    PROVE  LET order == SetToSeq(S)
           IN  \E n \in Nat : /\ order \in [1 .. n -> S] /\ IsInjective(order)
                              /\ \A x \in S : \E i \in 1 .. n : order[i] = x
<1> DEFINE n == Cardinality(S)
           Orders == {f \in [1 .. n -> S] : IsInjective(f)}
<1>1. n \in Nat /\ ExistsBijection(1 .. n, S)
  BY FS_CardinalityType
<1>2. \E f \in [1 .. n -> S] : IsInjective(f)
  BY <1>1, Zenon DEF ExistsBijection, Bijection, Injection
<1>3. SetToSeq(S) \in [1 .. n -> S] /\ IsInjective(SetToSeq(S))
  BY <1>2, Zenon DEF SetToSeq
<1>4. \A x \in S : \E i \in 1 .. n : SetToSeq(S)[i] = x
  <2> SUFFICES ASSUME NEW x \in S, \A i \in 1 .. n : SetToSeq(S)[i] # x PROVE FALSE
    OBVIOUS
  <2>1. /\ IsFiniteSet(S \ {x}) /\ Cardinality(S \ {x}) = n - 1
        /\ IsFiniteSet(1 .. n) /\ Cardinality(1 .. n) = n
    <3>1. IsFiniteSet(1 .. n) /\ Cardinality(1 .. n) = n
      <4>1. 1 \in Int /\ n \in Int
        BY <1>1
      <4> HIDE DEF n
      <4> QED
        BY <4>1, <1>1, FS_Interval
    <3>2. IsFiniteSet(S \ {x}) /\ Cardinality(S \ {x}) = n - 1
      BY FS_RemoveElement
    <3> QED
      BY <3>1, <3>2
  <2>2. SetToSeq(S) \in [1 .. n -> S \ {x}]
    BY <1>3
  <2>3. \E i, j \in 1 .. n : i # j /\ SetToSeq(S)[i] = SetToSeq(S)[j]
    <3>1. Cardinality(S \ {x}) < Cardinality(1 .. n)
      BY <2>1, <1>1
    <3> DEFINE I == 1 .. n
               R == S \ {x}
    <3>2. ASSUME NEW f \in [I -> R] PROVE \E i, j \in I : i # j /\ f[i] = f[j]
      <4>1. IsFiniteSet(I) /\ IsFiniteSet(R) /\ Cardinality(R) < Cardinality(I)
        BY <2>1, <3>1
      <4> HIDE DEF I, R
      <4> QED
        BY <4>1, FS_PigeonHole
    <3> QED
      BY <2>2, <3>2
  <2> QED
    BY <1>3, <2>3 DEF IsInjective
<1> QED
  BY <1>1, <1>3, <1>4

(* The list that SumOver adds up.                                          *)
Listed(f) == [i \in DOMAIN SetToSeq(DOMAIN f) |-> f[SetToSeq(DOMAIN f)[i]]]

LEMMA ListedType ==
    ASSUME NEW D, IsFiniteSet(D), NEW f \in [D -> Nat]
    PROVE  /\ Listed(f) \in Seq(Nat) /\ SumOver(f) = Total(Listed(f))
           /\ DOMAIN f = D /\ Len(Listed(f)) \in Nat
           /\ SetToSeq(D) \in [1 .. Len(Listed(f)) -> D]
           /\ \A i \in 1 .. Len(Listed(f)) : Listed(f)[i] = f[SetToSeq(D)[i]]
<1>1. DOMAIN f = D
  OBVIOUS
<1>2. PICK n \in Nat : SetToSeq(D) \in [1 .. n -> D]
  BY OrderOfSet
<1>3. Listed(f) \in [1 .. n -> Nat]
  BY <1>1, <1>2 DEF Listed
<1>4. Listed(f) \in Seq(Nat) /\ Len(Listed(f)) = n
  BY <1>3
<1> QED
  BY <1>1, <1>2, <1>4 DEF Listed, SumOver

LEMMA SumType ==
    ASSUME NEW D, IsFiniteSet(D), NEW f \in [D -> Nat]
    PROVE  SumOver(f) \in Nat
BY ListedType, TotalType

(* Changing a function at one point changes its sum by the difference.     *)
LEMMA SumChange ==
    ASSUME NEW D, IsFiniteSet(D), NEW f \in [D -> Nat], NEW g \in [D -> Nat],
           NEW x \in D, \A y \in D : y # x => f[y] = g[y]
    PROVE  SumOver(g) + f[x] = SumOver(f) + g[x]
<1> DEFINE order == SetToSeq(D)
           s == Listed(f)
           t == Listed(g)
<1>1. PICK n \in Nat : /\ order \in [1 .. n -> D] /\ IsInjective(order)
                       /\ \A y \in D : \E i \in 1 .. n : order[i] = y
  BY OrderOfSet
<1>2. /\ s \in Seq(Nat) /\ SumOver(f) = Total(s) /\ Len(s) \in Nat
      /\ order \in [1 .. Len(s) -> D] /\ \A i \in 1 .. Len(s) : s[i] = f[order[i]]
  BY ListedType
<1>3. /\ t \in Seq(Nat) /\ SumOver(g) = Total(t) /\ Len(t) \in Nat
      /\ order \in [1 .. Len(t) -> D] /\ \A i \in 1 .. Len(t) : t[i] = g[order[i]]
  BY ListedType
<1>4. Len(s) = n /\ Len(t) = n
  <2>1. 1 .. n = 1 .. Len(s) /\ 1 .. n = 1 .. Len(t)
    <3>1. DOMAIN order = 1 .. n /\ DOMAIN order = 1 .. Len(s) /\ DOMAIN order = 1 .. Len(t)
      BY <1>1, <1>2, <1>3
    <3> QED
      BY <3>1
  <2> HIDE DEF s, t
  <2>2. ASSUME NEW a \in Nat, NEW b \in Nat, 1 .. a = 1 .. b PROVE a = b
    <3>1. CASE a < b
      <4>1. b \in 1 .. b /\ b \notin 1 .. a
        BY <3>1
      <4> QED
        BY <4>1, <2>2
    <3>2. CASE b < a
      <4>1. a \in 1 .. a /\ a \notin 1 .. b
        BY <3>2
      <4> QED
        BY <4>1, <2>2
    <3> QED
      BY <3>1, <3>2
  <2> QED
    BY <2>1, <2>2, <1>2, <1>3
<1>5. PICK k \in 1 .. n : order[k] = x
  BY <1>1
<1> HIDE DEF s, t, order
<1>6. \A i \in 1 .. n : i # k => s[i] = t[i]
  <2> SUFFICES ASSUME NEW i \in 1 .. n, i # k PROVE s[i] = t[i]
    OBVIOUS
  <2>1. order[i] # x /\ order[i] \in D
    BY <1>1, <1>5 DEF IsInjective
  <2> QED
    BY <2>1, <1>2, <1>3, <1>4
<1>7. Total(t) + s[k] = Total(s) + t[k]
  <2>1. Len(s) = Len(t) /\ k \in 1 .. Len(s) /\ \A i \in 1 .. Len(s) : i # k => s[i] = t[i]
    BY <1>4, <1>5, <1>6
  <2> QED
    BY <1>2, <1>3, <2>1, TotalChange
<1> QED
  BY <1>2, <1>3, <1>4, <1>5, <1>7

LEMMA SumZero ==
    ASSUME NEW D, IsFiniteSet(D), NEW f \in [D -> Nat], \A x \in D : f[x] = 0
    PROVE  SumOver(f) = 0
<1> DEFINE s == Listed(f)
<1>1. /\ s \in Seq(Nat) /\ SumOver(f) = Total(s) /\ Len(s) \in Nat
      /\ SetToSeq(D) \in [1 .. Len(s) -> D]
      /\ \A i \in 1 .. Len(s) : s[i] = f[SetToSeq(D)[i]]
  BY ListedType
<1> HIDE DEF s
<1>2. \A i \in 1 .. Len(s) : s[i] = 0
  BY <1>1
<1> QED
  BY <1>1, <1>2, TotalZero

---------------------------------------------------------------------------
(* The lists of the arena.                                                 *)

IsList(list) == \E S : list \in Seq(S)

(* At most one block has the given use.                                    *)
AtMostOne(list, use) ==
    \A i, j \in DOMAIN list : list[i].use = use /\ list[j].use = use => i = j

Spliced(list, from, to, middle) ==
    SubSeq(list, 1, from - 1) \o middle \o SubSeq(list, to + 1, Len(list))

(* Where the elements of two lists are in their concatenation.             *)
Joined(s, t, st) ==
    /\ Len(st) = Len(s) + Len(t)
    /\ \A i \in 1 .. Len(s) : st[i] = s[i]
    /\ \A i \in 1 .. Len(t) : st[Len(s) + i] = t[i]

(* Concatenation puts them there.                                          *)
LEMMA Concatenated ==
    ASSUME NEW Q, NEW s \in Seq(Q), NEW t \in Seq(Q)
    PROVE  s \o t \in Seq(Q) /\ Joined(s, t, s \o t)
<1>1. s \o t \in Seq(Q) /\ Len(s \o t) = Len(s) + Len(t)
  OBVIOUS
<1>2. \A i \in 1 .. Len(s) : (s \o t)[i] = s[i]
  OBVIOUS
<1>3. ASSUME NEW i \in 1 .. Len(t) PROVE (s \o t)[Len(s) + i] = t[i]
  <2>1. Len(s) \in Nat /\ Len(t) \in Nat /\ i \in Nat
    OBVIOUS
  <2>2. Len(s) + i \in 1 .. Len(s) + Len(t) /\ Len(s) + i > Len(s) /\ Len(s) + i - Len(s) = i
    BY <2>1
  <2> QED
    BY <2>1, <2>2
<1> QED
  BY <1>1, <1>2, <1>3 DEF Joined

(* Where the blocks are in M, in which middle replaces the blocks from .. to. *)
Placed(list, from, to, middle, M) ==
    LET shift == Len(middle) - (to + 1 - from)
    IN  /\ IsList(M) /\ Len(list) \in Nat /\ Len(middle) \in Nat
        /\ DOMAIN list = 1 .. Len(list) /\ DOMAIN middle = 1 .. Len(middle)
        /\ DOMAIN M = 1 .. Len(list) + shift
        /\ \A i \in 1 .. from - 1 : M[i] = list[i]
        /\ \A i \in 1 .. Len(middle) : M[from - 1 + i] = middle[i]
        /\ \A i \in to + 1 .. Len(list) : M[i + shift] = list[i]

(* Replacing a part of a list puts them there.                             *)
LEMMA SplicedBlocks ==
    ASSUME NEW list, IsList(list), NEW middle, IsList(middle),
           NEW from \in 1 .. Len(list), NEW to \in from .. Len(list)
    PROVE  Placed(list, from, to, middle, Spliced(list, from, to, middle))
<1>1. PICK S : list \in Seq(S)
  BY DEF IsList
<1>2. PICK R : middle \in Seq(R)
  BY DEF IsList
<1> DEFINE Q == S \cup R
           a == SubSeq(list, 1, from - 1)
           c == SubSeq(list, to + 1, Len(list))
           M == Spliced(list, from, to, middle)
           shift == Len(middle) - (to + 1 - from)
<1>3. list \in Seq(Q) /\ middle \in Seq(Q)
  BY <1>1, <1>2
<1> HIDE DEF Q
<1>4. Len(list) \in Nat /\ Len(middle) \in Nat
  BY <1>3
<1>5. from \in Nat /\ to \in Nat /\ 1 <= from /\ from <= to /\ to <= Len(list)
  BY <1>4
<1>6. /\ a \in Seq(Q) /\ Len(a) = from - 1
      /\ \A i \in 1 .. from - 1 : a[i] = list[i]
  BY <1>3, <1>4, <1>5
<1>7. /\ c \in Seq(Q) /\ Len(c) = Len(list) - to
      /\ \A i \in 1 .. Len(list) - to : c[i] = list[i + to]
  <2>1. /\ c \in Seq(Q) /\ Len(c) = Len(list) - to
    BY <1>3, <1>4, <1>5
  <2>2. ASSUME NEW i \in 1 .. Len(list) - to PROVE c[i] = list[i + to]
    <3>1. c[i] = list[(to + 1) + i - 1]
      BY <1>3, <1>4, <1>5
    <3> QED
      BY <3>1, <1>5
  <2> QED
    BY <2>1, <2>2
<1>8. M = a \o middle \o c
  BY DEF Spliced
<1> HIDE DEF a, c, M
<1> DEFINE b == a \o middle
<1>9. /\ b \in Seq(Q) /\ Len(b) = from - 1 + Len(middle)
      /\ \A i \in 1 .. from - 1 : b[i] = a[i]
      /\ \A i \in 1 .. Len(middle) : b[from - 1 + i] = middle[i]
  <2>1. /\ b \in Seq(Q) /\ Len(b) = Len(a) + Len(middle)
        /\ \A i \in 1 .. Len(a) : b[i] = a[i]
        /\ \A i \in 1 .. Len(middle) : b[Len(a) + i] = middle[i]
    <3>1. b \in Seq(Q) /\ Joined(a, middle, b)
      BY <1>3, <1>6, Concatenated, Zenon
    <3> HIDE DEF b
    <3> QED
      BY <3>1 DEF Joined
  <2> QED
    BY <2>1, <1>6
<1> HIDE DEF b
<1>10. M = b \o c
  BY <1>8 DEF b
<1>11. /\ M \in Seq(Q) /\ Len(M) = Len(b) + Len(c)
       /\ \A i \in 1 .. Len(b) : M[i] = b[i]
       /\ \A i \in 1 .. Len(c) : M[Len(b) + i] = c[i]
  <2>1. M \in Seq(Q) /\ Joined(b, c, M)
    BY <1>7, <1>9, <1>10, Concatenated, Zenon
  <2> QED
    BY <2>1 DEF Joined
<1>12. \A i \in 1 .. from - 1 : M[i] = list[i]
  BY <1>4, <1>5, <1>6, <1>9, <1>11
<1>13. \A i \in 1 .. Len(middle) : M[from - 1 + i] = middle[i]
  <2> SUFFICES ASSUME NEW i \in 1 .. Len(middle) PROVE M[from - 1 + i] = middle[i]
    OBVIOUS
  <2>1. from - 1 + i \in 1 .. Len(b)
    BY <1>4, <1>5, <1>9
  <2> QED
    BY <2>1, <1>9, <1>11
<1>14. \A i \in to + 1 .. Len(list) : M[i + shift] = list[i]
  <2> SUFFICES ASSUME NEW i \in to + 1 .. Len(list) PROVE M[i + shift] = list[i]
    OBVIOUS
  <2> DEFINE j == i - to
  <2>1. j \in 1 .. Len(c) /\ j \in 1 .. Len(list) - to
    BY <1>4, <1>5, <1>7
  <2>2. M[Len(b) + j] = c[j] /\ c[j] = list[j + to]
    BY <2>1, <1>7, <1>11
  <2>3. Len(b) + j = i + shift /\ j + to = i
    BY <1>4, <1>5, <1>9
  <2> QED
    BY <2>2, <2>3
<1>15. DOMAIN M = 1 .. Len(list) + shift
  <2>1. Len(M) = Len(list) + shift
    BY <1>4, <1>5, <1>7, <1>9, <1>11
  <2> QED
    BY <2>1, <1>11
<1>16. IsList(M)
  BY <1>11 DEF IsList
<1> QED
  BY <1>3, <1>4, <1>12, <1>13, <1>14, <1>15, <1>16 DEF M, Placed

(* A use that neither the replaced blocks nor the new ones have stays      *)
(* where it was.                                                           *)
LEMMA SplicedUses ==
    ASSUME NEW list, IsList(list), NEW middle, IsList(middle),
           NEW from \in 1 .. Len(list), NEW to \in from .. Len(list), NEW use,
           \A i \in from .. to : list[i].use # use,
           \A i \in 1 .. Len(middle) : middle[i].use # use
    PROVE  LET M == Spliced(list, from, to, middle)
           IN  /\ Holds(M, use) <=> Holds(list, use)
               /\ AtMostOne(list, use) => AtMostOne(M, use)
<1> DEFINE M == Spliced(list, from, to, middle)
           shift == Len(middle) - (to + 1 - from)
           Old(i) == IF i < from THEN i ELSE i - shift
<1>1. /\ Len(list) \in Nat /\ Len(middle) \in Nat
      /\ DOMAIN list = 1 .. Len(list) /\ DOMAIN middle = 1 .. Len(middle)
      /\ DOMAIN M = 1 .. Len(list) + shift
      /\ \A i \in 1 .. from - 1 : M[i] = list[i]
      /\ \A i \in 1 .. Len(middle) : M[from - 1 + i] = middle[i]
      /\ \A i \in to + 1 .. Len(list) : M[i + shift] = list[i]
  <2>1. Placed(list, from, to, middle, M)
    BY SplicedBlocks
  <2> HIDE DEF M
  <2> QED
    BY <2>1 DEF Placed
<1>2. from \in Nat /\ to \in Nat /\ 1 <= from /\ from <= to /\ to <= Len(list)
  BY <1>1
<1> HIDE DEF M
<1>3. ASSUME NEW i \in DOMAIN M, M[i].use = use
      PROVE  /\ Old(i) \in DOMAIN list /\ M[i] = list[Old(i)]
             /\ i >= from => Old(i) > to
  <2>1. CASE i < from
    BY <2>1, <1>1, <1>2
  <2>2. CASE i >= from /\ i <= from - 1 + Len(middle)
    <3> DEFINE j == i - (from - 1)
    <3>1. j \in 1 .. Len(middle) /\ from - 1 + j = i
      BY <2>2, <1>1, <1>2
    <3>2. M[i] = middle[j]
      BY <3>1, <1>1
    <3> QED
      BY <3>1, <3>2, <1>3
  <2>3. CASE i > from - 1 + Len(middle)
    <3> DEFINE j == i - shift
    <3>1. j \in to + 1 .. Len(list) /\ j + shift = i /\ j \in 1 .. Len(list)
      BY <2>3, <1>1, <1>2
    <3>2. M[i] = list[j]
      BY <3>1, <1>1
    <3>3. Old(i) = j
      BY <2>3, <1>1, <1>2
    <3> QED
      BY <3>1, <3>2, <3>3, <1>1, <1>2
  <2> QED
    BY <2>1, <2>2, <2>3, <1>1, <1>2
<1>4. ASSUME NEW i \in DOMAIN list, list[i].use = use
      PROVE  \E j \in DOMAIN M : M[j].use = use
  <2>1. CASE i < from
    <3>1. i \in 1 .. from - 1 /\ i \in DOMAIN M
      BY <2>1, <1>1, <1>2
    <3> QED
      BY <3>1, <1>1, <1>4
  <2>2. CASE i > to
    <3>1. i \in to + 1 .. Len(list) /\ i + shift \in DOMAIN M
      BY <2>2, <1>1, <1>2
    <3> QED
      BY <3>1, <1>1, <1>4
  <2>3. CASE i >= from /\ i <= to
    <3>1. i \in from .. to
      BY <2>3, <1>1, <1>2
    <3> QED
      BY <3>1, <1>4
  <2> QED
    BY <2>1, <2>2, <2>3, <1>1, <1>2
<1>5. Holds(M, use) <=> Holds(list, use)
  BY <1>3, <1>4 DEF Holds
<1>6. ASSUME AtMostOne(list, use) PROVE AtMostOne(M, use)
  <2> SUFFICES ASSUME NEW i \in DOMAIN M, NEW j \in DOMAIN M, M[i].use = use, M[j].use = use
               PROVE  i = j
    BY DEF AtMostOne
  <2>1. /\ Old(i) \in DOMAIN list /\ list[Old(i)].use = use
        /\ Old(j) \in DOMAIN list /\ list[Old(j)].use = use
        /\ i >= from => Old(i) > to
        /\ j >= from => Old(j) > to
    BY <1>3
  <2>2. Old(i) = Old(j)
    BY <2>1, <1>6 DEF AtMostOne
  <2>3. i < from <=> j < from
    BY <2>1, <2>2, <1>1, <1>2
  <2> QED
    BY <2>2, <2>3, <1>1, <1>2
<1> QED
  BY <1>5, <1>6 DEF M

(* What an operation on the arena does to the objects it does not touch.   *)
Leaves(list, M, use) ==
    /\ Holds(M, use) <=> Holds(list, use)
    /\ AtMostOne(list, use) => AtMostOne(M, use)

(* First fit puts the object in one block and touches no other object.     *)
LEMMA AllocateUses ==
    ASSUME NEW list, IsList(list), NEW size, CanAllocate(list, size),
           NEW use, use # "free"
    PROVE  LET M == Allocate(list, size, use)
           IN  /\ IsList(M) /\ Holds(M, use)
               /\ \A u : u # "free" /\ u # use => Leaves(list, M, u)
               /\ ~Holds(list, use) => AtMostOne(M, use)
<1> DEFINE M == Allocate(list, size, use)
           F == Fits(list, size)
           k == CHOOSE i \in F : \A j \in F : i <= j
           rest == list[k].capacity - Required(size)
           split == rest >= BlockHeader + Prefix + Alignment
           middle == IF split THEN <<Block(Required(size), use), Free(rest - BlockHeader)>>
                     ELSE <<Block(list[k].capacity, use)>>
<1>1. PICK S : list \in Seq(S)
  BY DEF IsList
<1>2. DOMAIN list = 1 .. Len(list) /\ Len(list) \in Nat
  BY <1>1
<1>3. F \in SUBSET Nat /\ F # {} /\ F \subseteq DOMAIN list
  BY <1>2 DEF Fits, CanAllocate
<1>4. \E i \in F : \A j \in F : i <= j
  <2> HIDE DEF F
  <2> QED
    BY <1>3, LeastExists
<1>5. k \in F
  <2> HIDE DEF F
  <2> QED
    BY <1>4
<1>6. k \in 1 .. Len(list) /\ k \in k .. Len(list) /\ list[k].use = "free"
  BY <1>2, <1>5 DEF Fits, IsFree
<1>7. M = Spliced(list, k, k, middle)
  BY DEF Allocate, Spliced
<1> DEFINE first == IF split THEN Block(Required(size), use) ELSE Block(list[k].capacity, use)
           R == {first, Free(rest - BlockHeader)}
<1>8. /\ IsList(middle) /\ Len(middle) \in 1 .. 2 /\ middle[1].use = use
      /\ Len(middle) = 2 => middle[2].use = "free"
  <2>1. CASE split
    <3>1. middle = <<Block(Required(size), use), Free(rest - BlockHeader)>>
      BY <2>1
    <3> HIDE DEF middle
    <3>2. middle \in Seq({Block(Required(size), use), Free(rest - BlockHeader)})
      BY <3>1
    <3>3. IsList(middle)
      BY <3>2 DEF IsList
    <3>4. /\ Len(middle) = 2 /\ middle[1] = Block(Required(size), use)
          /\ middle[2] = Free(rest - BlockHeader)
      BY <3>1
    <3> QED
      BY <3>3, <3>4 DEF Block, Free
  <2>2. CASE ~split
    <3>1. middle = <<Block(list[k].capacity, use)>>
      BY <2>2
    <3> HIDE DEF middle
    <3>2. middle \in Seq({Block(list[k].capacity, use)})
      BY <3>1
    <3>3. IsList(middle)
      BY <3>2 DEF IsList
    <3>4. Len(middle) = 1 /\ middle[1] = Block(list[k].capacity, use)
      BY <3>1
    <3> QED
      BY <3>3, <3>4 DEF Block
  <2> QED
    BY <2>1, <2>2
<1> HIDE DEF middle, k, M
<1>9. Placed(list, k, k, middle, M)
  BY <1>6, <1>7, <1>8, SplicedBlocks
<1> DEFINE shift == Len(middle) - (k + 1 - k)
<1>10. /\ IsList(M) /\ DOMAIN M = 1 .. Len(list) + shift
       /\ \A i \in 1 .. k - 1 : M[i] = list[i]
       /\ \A i \in 1 .. Len(middle) : M[k - 1 + i] = middle[i]
       /\ \A i \in k + 1 .. Len(list) : M[i + shift] = list[i]
  BY <1>9 DEF Placed
<1>11. shift \in 0 .. 1 /\ shift = Len(middle) - 1
  BY <1>6, <1>8
<1>12. ASSUME NEW u, u # "free", u # use PROVE Leaves(list, M, u)
  <2>1. \A i \in k .. k : list[i].use # u
    BY <1>6, <1>12
  <2>2. \A i \in 1 .. Len(middle) : middle[i].use # u
    BY <1>8, <1>12
  <2> QED
    BY <1>6, <1>7, <1>8, <2>1, <2>2, SplicedUses DEF Leaves
<1>13. k \in DOMAIN M /\ M[k].use = use
  <2>1. M[k - 1 + 1] = middle[1] /\ k - 1 + 1 = k
    <3>1. 1 \in 1 .. Len(middle) /\ k - 1 + 1 = k
      BY <1>6, <1>8
    <3> QED
      BY <3>1, <1>10
  <2> QED
    BY <2>1, <1>2, <1>6, <1>8, <1>10, <1>11
<1>14. ASSUME ~Holds(list, use), NEW i \in DOMAIN M, M[i].use = use PROVE i = k
  <2>1. \A j \in 1 .. Len(list) : list[j].use # use
    BY <1>2, <1>14 DEF Holds
  <2>2. ~(i < k)
    <3> SUFFICES ASSUME i < k PROVE FALSE
      OBVIOUS
    <3>1. i \in 1 .. k - 1 /\ i \in 1 .. Len(list)
      BY <1>2, <1>6, <1>10, <1>11
    <3> QED
      BY <3>1, <2>1, <1>10, <1>14
  <2>3. ~(i > k + shift)
    <3> SUFFICES ASSUME i > k + shift PROVE FALSE
      OBVIOUS
    <3> DEFINE j == i - shift
    <3>1. j \in k + 1 .. Len(list) /\ j \in 1 .. Len(list) /\ j + shift = i
      BY <1>2, <1>6, <1>10, <1>11
    <3>2. M[i] = list[j]
      BY <3>1, <1>10
    <3> QED
      BY <3>1, <3>2, <2>1, <1>14
  <2>4. ~(i = k + 1 /\ shift = 1)
    <3> SUFFICES ASSUME i = k + 1, shift = 1 PROVE FALSE
      OBVIOUS
    <3>1. Len(middle) = 2 /\ k - 1 + 2 = i
      BY <1>6, <1>8, <1>11
    <3>2. M[i] = middle[2]
      BY <3>1, <1>10
    <3> QED
      BY <3>1, <3>2, <1>8, <1>14
  <2> QED
    <3>1. i \in Int /\ k \in Int
      BY <1>2, <1>6, <1>10, <1>11
    <3> HIDE DEF shift, M
    <3>2. CASE shift = 0
      <4>1. ~(i < k) /\ ~(i > k)
        BY <3>1, <3>2, <2>2, <2>3
      <4> QED
        BY <4>1, <3>1
    <3>3. CASE shift = 1
      <4>1. ~(i < k) /\ ~(i > k + 1) /\ i # k + 1
        BY <3>1, <3>3, <2>2, <2>3, <2>4
      <4> QED
        BY <4>1, <3>1
    <3> QED
      BY <3>2, <3>3, <1>11
<1>15. ~Holds(list, use) => AtMostOne(M, use)
  BY <1>14 DEF AtMostOne
<1>16. Holds(M, use)
  BY <1>13 DEF Holds
<1> QED
  BY <1>10, <1>12, <1>15, <1>16 DEF M

(* Releasing an object frees its block, merged with the free blocks next   *)
(* to it, and touches no other object.                                     *)
LEMMA ReleaseUses ==
    ASSUME NEW list, IsList(list), NEW use, use # "free"
    PROVE  LET M == Release(list, use)
           IN  /\ IsList(M)
               /\ \A u : u # "free" /\ u # use => Leaves(list, M, u)
               /\ AtMostOne(list, use) => ~Holds(M, use)
<1>1. CASE ~Holds(list, use)
  <2>1. Release(list, use) = list
    BY <1>1, Zenon DEF Release
  <2> QED
    BY <1>1, <2>1 DEF Leaves
<1>2. CASE Holds(list, use)
  <2> DEFINE M == Release(list, use)
             k == CHOOSE i \in DOMAIN list : list[i].use = use
             from == IF IsFree(list, k - 1) THEN k - 1 ELSE k
             to == IF IsFree(list, k + 1) THEN k + 1 ELSE k
  <2>1. k \in DOMAIN list /\ list[k].use = use
    BY <1>2 DEF Holds
  <2>2. PICK capacity1 : M = Spliced(list, from, to, <<Free(capacity1)>>)
    BY <1>2, Zenon DEF Release, Spliced
  <2> DEFINE middle == <<Free(capacity1)>>
  <2> HIDE DEF k, M
  <2>3. DOMAIN list = 1 .. Len(list) /\ Len(list) \in Nat
    BY DEF IsList
  <2>4. from \in 1 .. Len(list) /\ to \in from .. Len(list) /\ k \in from .. to
    BY <2>1, <2>3 DEF IsFree
  <2>5. \A i \in from .. to : i # k => list[i].use = "free"
    BY <2>1, <2>3 DEF IsFree
  <2> HIDE DEF from, to
  <2>6. IsList(middle) /\ Len(middle) = 1 /\ middle[1].use = "free"
    <3>1. middle \in Seq({Free(capacity1)})
      OBVIOUS
    <3> QED
      BY <3>1 DEF IsList, Free, Block
  <2> HIDE DEF middle
  <2>7. M = Spliced(list, from, to, middle)
    BY <2>2 DEF middle
  <2>8. Placed(list, from, to, middle, M)
    BY <2>4, <2>6, <2>7, SplicedBlocks
  <2>9. ASSUME NEW u, u # "free", u # use PROVE Leaves(list, M, u)
    <3>1. \A i \in from .. to : list[i].use # u
      BY <2>1, <2>5, <2>9
    <3>2. \A i \in 1 .. Len(middle) : middle[i].use # u
      BY <2>6, <2>9
    <3> QED
      BY <2>4, <2>6, <2>7, <3>1, <3>2, SplicedUses DEF Leaves
  <2>10. ASSUME AtMostOne(list, use) PROVE ~Holds(M, use)
    <3> SUFFICES ASSUME NEW i \in DOMAIN M, M[i].use = use PROVE FALSE
      BY DEF Holds
    <3> DEFINE shift == Len(middle) - (to + 1 - from)
    <3>1. /\ DOMAIN M = 1 .. Len(list) + shift
          /\ \A j \in 1 .. from - 1 : M[j] = list[j]
          /\ \A j \in 1 .. Len(middle) : M[from - 1 + j] = middle[j]
          /\ \A j \in to + 1 .. Len(list) : M[j + shift] = list[j]
      BY <2>8 DEF Placed
    <3>2. from \in Nat /\ to \in Nat /\ from >= 1 /\ to <= Len(list) /\ from <= k /\ k <= to
      BY <2>3, <2>4
    <3>3. \A j \in DOMAIN list : list[j].use = use => j = k
      BY <2>1, <2>10 DEF AtMostOne
    <3>4. CASE i < from
      <4>1. i \in 1 .. from - 1 /\ i \in DOMAIN list /\ i # k
        <5>1. i \in 1 .. Len(list) + shift
          BY <3>1
        <5> QED
          <6>1. i \in Int /\ i >= 1 /\ Len(list) \in Nat /\ k \in Int
            BY <5>1, <2>3, <2>4
          <6>2. i \in 1 .. from - 1 /\ i \in 1 .. Len(list) /\ i # k
            BY <6>1, <3>4, <3>2
          <6> QED
            BY <6>2, <2>3
      <4> QED
        BY <4>1, <3>1, <3>3
    <3>5. CASE i = from
      <4>1. 1 \in 1 .. Len(middle) /\ from - 1 + 1 = i
        BY <3>5, <3>2, <2>6
      <4>2. M[i] = middle[1]
        BY <4>1, <3>1
      <4> QED
        BY <4>2, <2>6
    <3>6. CASE i > from
      <4> DEFINE j == i - shift
      <4>1. j \in to + 1 .. Len(list) /\ j + shift = i /\ j \in DOMAIN list /\ j # k
        BY <3>6, <3>1, <3>2, <2>3, <2>6
      <4>2. M[i] = list[j]
        BY <4>1, <3>1
      <4> QED
        BY <4>1, <4>2, <3>3
    <3> QED
      BY <3>4, <3>5, <3>6, <3>1, <3>2, <2>3, <2>6
  <2>11. IsList(M)
    BY <2>8 DEF Placed
  <2> QED
    BY <2>9, <2>10, <2>11 DEF M
<1> QED
  BY <1>1, <1>2

(* The object in the replacement gets the name of what it replaces.        *)
LEMMA RenameUses ==
    ASSUME NEW list, IsList(list), NEW from, NEW to, from # to
    PROVE  LET M == Rename(list, from, to)
           IN  /\ IsList(M) /\ ~Holds(M, from)
               /\ \A u : u # from /\ u # to => Leaves(list, M, u)
               /\ Holds(M, to) <=> Holds(list, to) \/ Holds(list, from)
               /\ ~Holds(list, to) /\ AtMostOne(list, from) => AtMostOne(M, to)
<1> DEFINE M == Rename(list, from, to)
<1>1. PICK S : list \in Seq(S)
  BY DEF IsList
<1>2. DOMAIN M = DOMAIN list
  BY DEF Rename
<1>3. \A k \in DOMAIN list : M[k] = IF list[k].use = from THEN Block(list[k].capacity, to)
                                    ELSE list[k]
  BY DEF Rename
<1>4. \A k \in DOMAIN list : M[k].use = IF list[k].use = from THEN to ELSE list[k].use
  <2> SUFFICES ASSUME NEW k \in DOMAIN list
               PROVE  M[k].use = IF list[k].use = from THEN to ELSE list[k].use
    OBVIOUS
  <2> HIDE DEF M
  <2>1. CASE list[k].use = from
    <3>1. M[k] = Block(list[k].capacity, to)
      BY <2>1, <1>3
    <3> QED
      BY <2>1, <3>1 DEF Block
  <2>2. CASE list[k].use # from
    BY <2>2, <1>3
  <2> QED
    BY <2>1, <2>2
<1>5. IsList(M)
  <2>1. M \in Seq({M[k] : k \in DOMAIN list})
    <3>1. DOMAIN list = 1 .. Len(list) /\ Len(list) \in Nat
      BY <1>1
    <3>2. M \in [1 .. Len(list) -> {M[k] : k \in DOMAIN list}]
      BY <1>2, <3>1 DEF Rename
    <3> HIDE DEF M
    <3> QED
      BY <3>1, <3>2
  <2> QED
    BY <2>1 DEF IsList
<1> HIDE DEF M
<1>6. ~Holds(M, from)
  BY <1>2, <1>4 DEF Holds
<1>7. ASSUME NEW u, u # from, u # to PROVE Leaves(list, M, u)
  BY <1>2, <1>4, <1>7 DEF Leaves, Holds, AtMostOne
<1>8. Holds(M, to) <=> Holds(list, to) \/ Holds(list, from)
  BY <1>2, <1>4 DEF Holds
<1>9. ~Holds(list, to) /\ AtMostOne(list, from) => AtMostOne(M, to)
  BY <1>2, <1>4 DEF Holds, AtMostOne
<1> QED
  BY <1>5, <1>6, <1>7, <1>8, <1>9 DEF M

(* Growing an array leaves every other object where it was.                *)
LEMMA ReplaceUses ==
    ASSUME NEW list, IsList(list), NEW size, CanAllocate(list, size),
           NEW use, use \notin {"free", "replacement"}, ~Holds(list, "replacement")
    PROVE  LET M == Replace(list, size, use)
           IN  /\ IsList(M) /\ ~Holds(M, "replacement")
               /\ \A u : u \notin {"free", "replacement", use} => Leaves(list, M, u)
<1> DEFINE A == Allocate(list, size, "replacement")
           B == Release(A, use)
           M == Rename(B, "replacement", use)
<1>1. IsList(A) /\ \A u : u \notin {"free", "replacement", use} => Leaves(list, A, u)
  BY AllocateUses
<1> HIDE DEF A
<1>2. IsList(B) /\ \A u : u \notin {"free", "replacement", use} => Leaves(A, B, u)
  BY <1>1, ReleaseUses
<1> HIDE DEF B
<1>3. /\ IsList(M) /\ ~Holds(M, "replacement")
      /\ \A u : u \notin {"free", "replacement", use} => Leaves(B, M, u)
  BY <1>2, RenameUses
<1>4. M = Replace(list, size, use)
  BY DEF A, B, Replace
<1> HIDE DEF M
<1> QED
  BY <1>1, <1>2, <1>3, <1>4 DEF Leaves

---------------------------------------------------------------------------
(* The shape of the state.                                                 *)

Busy == {"load", "exchange", "allocate", "install"}

Operations == {"none", "create", "metadata", "publish", "release", "destroy", "process"}

CallType == [pc : Busy \cup {"idle", "free", "analyse"}, op : Operations,
             todo : Seq(Nat), got : Seq(Nat), junk : Seq(Nat), seen : Int, metadata : Nat]
NodeType == [node : Nodes, frames : Nat]
ResultType == [parts : Seq(Nat), metadata : Nat, shared : BOOLEAN]

Types ==
    /\ allocated_bytes \in Int
    /\ call \in [Threads -> CallType]
    /\ state \in [Sessions -> {"NONE", "CREATED", "ACTIVE"}]
    /\ metadata \in [Sessions -> Nat]
    /\ result \in [Sessions -> ResultType]
    /\ kept \in ResultType
    /\ done \in Nat
    /\ queue \in Seq(NodeType)

(* What the session itself keeps of the allocations of a call.             *)
Storage(t, c) == IF c.op = "create" THEN OnHeap(t, SessionBytes)
                 ELSE IF c.op = "metadata" THEN OnHeap(t, c.metadata) ELSE <<>>

(* A call in progress, of a session in the given state and with the given  *)
(* metadata: what it has and what it still wants are the storage of the    *)
(* session and then the result.                                            *)
IsWorking(t, c, current, size) ==
    /\ t \in Sessions
    /\ c.junk = <<>>
    /\ c.op \in {"create", "metadata", "publish"}
    /\ \E rest \in Seq(Nat) : rest # <<>> /\ c.got \o c.todo = Storage(t, c) \o rest
    /\ c.op = "create" <=> current = "NONE"
    /\ c.op = "create" => c.metadata = 0
    /\ c.op = "publish" => c.metadata = size

CallIsWhole(t, c, current, size) ==
    /\ c.pc \in {"load", "exchange", "allocate"} => c.todo # <<>>
    /\ c.pc = "install" => c.todo = <<>>
    /\ c.pc = "idle" => c.got = <<>> /\ c.junk = <<>>
    /\ c.pc = "free" => c.got = <<>> /\ c.junk # <<>>
    /\ c.pc = "analyse" => /\ t \in Sessions /\ current # "NONE"
                           /\ c.got = <<>> /\ c.junk = <<>>
    /\ c.pc \in Busy => IsWorking(t, c, current, size)

CallsAreWhole == \A t \in Threads : CallIsWhole(t, call[t], state[t], metadata[t])

(* No session, no storage; and between the calls of a session its metadata *)
(* is the metadata of its result.                                          *)
SessionsAreWhole ==
    \A s \in Sessions :
        /\ state[s] = "NONE" => metadata[s] = 0 /\ result[s] = NoResult
        /\ result[s].metadata = metadata[s]

(* A result in two hands is the same result in both.                       *)
Sharing ==
    /\ kept.parts = <<>> => kept = NoResult
    /\ kept.shared => \E s \in Sessions : result[s].shared
    /\ \A s \in Sessions :
        /\ result[s].parts = <<>> => result[s] = NoResult
        /\ result[s].shared => kept = result[s]
        /\ \A u \in Sessions : result[s].shared /\ result[u].shared => s = u

Shape == Types /\ CallsAreWhole /\ SessionsAreWhole /\ Sharing

(* The constants as the proofs use them.                                   *)
LEMMA Constants ==
    /\ IsFiniteSet(Sessions) /\ IsFiniteSet(Threads)
    /\ Arena \in Sessions /\ Application \notin Sessions /\ Application \in Threads
    /\ Sessions \subseteq Threads /\ \A t \in Threads : t \notin Sessions => t = Application
    /\ Limit \in Nat /\ SessionBytes \in Nat /\ ResultBytes \in Nat
    /\ ColumnBytes \in Nat /\ SpanBytes \in Nat
    /\ MetadataSizes \subseteq Nat /\ Snapshots \subseteq Seq(Nat) /\ Blocks \subseteq Nat
    /\ ColumnFrames \in Nat \ {0} /\ TrackFrames \in Nat
<1>1. IsFiniteSet(Sessions \cup {Application})
  BY ContextAssumption, FS_AddElement
<1>2. MetadataBytes \in Nat /\ MaxPushFrames \in Nat
  BY WorkspaceAssumption
<1> QED
  BY <1>1, <1>2, ContextAssumption, WorkspaceAssumption DEF Threads

(* Lists of sizes.                                                         *)
LEMMA ListTypes ==
    /\ \A s : \A n \in Nat : OnHeap(s, n) \in Seq(Nat) /\ Copy(n) \in Seq(Nat)
    /\ \A n \in Nat : <<n>> \in Seq(Nat)
    /\ <<>> \in Seq(Nat)
<1>1. ASSUME NEW n \in Nat PROVE <<n>> \in Seq(Nat) /\ <<>> \in Seq(Nat)
  OBVIOUS
<1> QED
  BY <1>1 DEF OnHeap, Copy

LEMMA ListsJoin ==
    ASSUME NEW a \in Seq(Nat), NEW b \in Seq(Nat)
    PROVE  /\ a \o b \in Seq(Nat)
           /\ a # <<>> \/ b # <<>> => a \o b # <<>>
           /\ <<>> \o a = a /\ a \o <<>> = a
           /\ SubSeq(a \o b, Len(a) + 1, Len(a \o b)) = b
<1>1. a \o b \in Seq(Nat) /\ Len(a \o b) = Len(a) + Len(b)
  OBVIOUS
<1>2. a # <<>> \/ b # <<>> => a \o b # <<>>
  OBVIOUS
<1>3. <<>> \o a = a /\ a \o <<>> = a
  OBVIOUS
<1>4. SubSeq(a \o b, Len(a) + 1, Len(a \o b)) = b
  <2> DEFINE w == SubSeq(a \o b, Len(a) + 1, Len(a \o b))
  <2>1. Len(a) \in Nat /\ Len(b) \in Nat
    OBVIOUS
  <2>2. w \in Seq(Nat) /\ Len(w) = Len(b)
    BY <1>1, <2>1
  <2>3. ASSUME NEW i \in 1 .. Len(b) PROVE w[i] = b[i]
    <3>1. w[i] = (a \o b)[Len(a) + 1 + i - 1]
      <4> DEFINE z == a \o b
                 m == Len(a) + 1
      <4>1. z \in Seq(Nat) /\ m \in Nat /\ 1 <= m /\ i \in 1 .. Len(z) + 1 - m
        BY <1>1, <2>1
      <4> HIDE DEF z, m
      <4>2. SubSeq(z, m, Len(z))[i] = z[m + i - 1]
        BY <4>1
      <4> QED
        BY <4>2 DEF z, m
    <3>2. Len(a) + 1 + i - 1 = Len(a) + i
      BY <2>1
    <3>3. (a \o b)[Len(a) + i] = b[i]
      <4>1. Joined(a, b, a \o b)
        BY Concatenated
      <4> QED
        BY <4>1 DEF Joined
    <3> QED
      BY <3>1, <3>2, <3>3
  <2> HIDE DEF w
  <2>4. w = b
    BY <2>2, <2>3
  <2> QED
    BY <2>4 DEF w
<1> QED
  BY <1>1, <1>2, <1>3, <1>4

LEMMA ListsAssociate ==
    ASSUME NEW a \in Seq(Nat), NEW b \in Seq(Nat), NEW c \in Seq(Nat)
    PROVE  (a \o b) \o c = a \o (b \o c)
OBVIOUS

(* Moving the first element of what is wanted to the end of what is there. *)
LEMMA ListsMove ==
    ASSUME NEW a \in Seq(Nat), NEW b \in Seq(Nat), b # <<>>
    PROVE  /\ Append(a, Head(b)) \in Seq(Nat) /\ Tail(b) \in Seq(Nat) /\ Head(b) \in Nat
           /\ Append(a, Head(b)) \o Tail(b) = a \o b
           /\ Len(b) = 1 <=> Tail(b) = <<>>
<1>1. /\ Append(a, Head(b)) \in Seq(Nat) /\ Tail(b) \in Seq(Nat) /\ Head(b) \in Nat
      /\ Len(b) = 1 <=> Tail(b) = <<>>
  <2>1. Append(a, Head(b)) \in Seq(Nat) /\ Tail(b) \in Seq(Nat) /\ Head(b) \in Nat
    OBVIOUS
  <2>2. Len(Tail(b)) = Len(b) - 1 /\ Len(b) \in Nat
    OBVIOUS
  <2>3. Len(Tail(b)) = 0 <=> Tail(b) = <<>>
    <3>1. \A x \in Seq(Nat) : Len(x) = 0 <=> x = <<>>
      OBVIOUS
    <3> QED
      BY <2>1, <3>1
  <2> QED
    BY <2>1, <2>2, <2>3
<1>2. b = <<Head(b)>> \o Tail(b) /\ Append(a, Head(b)) = a \o <<Head(b)>>
      /\ <<Head(b)>> \in Seq(Nat)
  <2>1. b = <<Head(b)>> \o Tail(b)
    OBVIOUS
  <2>2. ASSUME NEW x \in Nat PROVE Append(a, x) = a \o <<x>> /\ <<x>> \in Seq(Nat)
    OBVIOUS
  <2> QED
    BY <1>1, <2>1, <2>2
<1>3. (a \o <<Head(b)>>) \o Tail(b) = a \o (<<Head(b)>> \o Tail(b))
  BY <1>1, <1>2, ListsAssociate
<1> QED
  BY <1>1, <1>2, <1>3

(* A step that changes one call keeps all calls whole, as long as it       *)
(* changes the state and metadata of no other session.                     *)
LEMMA OneCall ==
    ASSUME Shape, NEW t \in Threads, NEW c \in CallType,
           call' = [call EXCEPT ![t] = c],
           CallIsWhole(t, c, state'[t], metadata'[t]),
           \A s \in Sessions : s # t => state'[s] = state[s] /\ metadata'[s] = metadata[s]
    PROVE  call' \in [Threads -> CallType] /\ CallsAreWhole'
<1>1. call \in [Threads -> CallType]
  BY DEF Shape, Types
<1>2. /\ call' \in [Threads -> CallType] /\ call'[t] = c
      /\ \A u \in Threads : u # t => call'[u] = call[u]
  BY <1>1
<1>3. ASSUME NEW u \in Threads, u # t
      PROVE  CallIsWhole(u, call[u], state'[u], metadata'[u])
  <2>1. CallIsWhole(u, call[u], state[u], metadata[u])
    BY DEF Shape, CallsAreWhole
  <2>2. CASE u \in Sessions
    BY <2>1, <2>2, <1>3
  <2>3. CASE u \notin Sessions
    BY <2>1, <2>3 DEF CallIsWhole, IsWorking
  <2> QED
    BY <2>2, <2>3
<1> QED
  BY <1>2, <1>3 DEF CallsAreWhole

(* The record a call starts with, and one that has only to free.           *)
Started(op, todo, size) ==
    [pc |-> "load", op |-> op, todo |-> todo, got |-> <<>>, junk |-> <<>>, seen |-> 0,
     metadata |-> size]
Freeing(op, junk) ==
    [pc |-> "free", op |-> op, todo |-> <<>>, got |-> <<>>, junk |-> junk, seen |-> 0,
     metadata |-> 0]

LEMMA StartRecord ==
    ASSUME NEW t, NEW op, NEW todo, NEW size, Start(t, op, todo, size)
    PROVE  call' = [call EXCEPT ![t] = Started(op, todo, size)]
<1>1. [Idle EXCEPT !.pc = "load", !.op = op, !.todo = todo, !.metadata = size]
        = Started(op, todo, size)
  <2> DEFINE a == [Idle EXCEPT !.pc = "load"]
             b == [a EXCEPT !.op = op]
             d == [b EXCEPT !.todo = todo]
             e == [d EXCEPT !.metadata = size]
  <2>1. a = Started("none", <<>>, 0)
    BY DEF Idle, Started
  <2> HIDE DEF a
  <2>2. b = Started(op, <<>>, 0)
    BY <2>1 DEF Started
  <2> HIDE DEF b
  <2>3. d = Started(op, todo, 0)
    BY <2>2 DEF Started
  <2> HIDE DEF d
  <2>4. e = Started(op, todo, size)
    BY <2>3 DEF Started
  <2> QED
    BY <2>4 DEF a, b, d, e
<1> QED
  BY <1>1, Zenon DEF Start

(* A call that starts is whole when its list begins with its storage.      *)
LEMMA StartIsWhole ==
    ASSUME NEW s \in Sessions, NEW op \in {"create", "metadata", "publish"},
           NEW todo, NEW rest \in Seq(Nat), rest # <<>>, NEW size \in Nat, NEW current, NEW old,
           NEW storage \in Seq(Nat),
           storage = Storage(s, Started(op, todo, size)), todo = storage \o rest,
           op = "create" <=> current = "NONE", op = "create" => size = 0,
           op = "publish" => size = old
    PROVE  /\ Started(op, todo, size) \in CallType
           /\ CallIsWhole(s, Started(op, todo, size), current, old)
<1> DEFINE c == Started(op, todo, size)
<1>1. todo \in Seq(Nat) /\ todo # <<>> /\ <<>> \o todo = todo /\ <<>> \in Seq(Nat)
  <2>1. storage \o rest \in Seq(Nat) /\ storage \o rest # <<>>
    BY ListsJoin
  <2>2. todo \in Seq(Nat) /\ todo # <<>>
    BY <2>1, Zenon
  <2>3. <<>> \o todo = todo
    BY <2>2, ListsJoin
  <2> QED
    BY <2>2, <2>3, ListTypes
<1>2. /\ c.pc = "load" /\ c.op = op /\ c.todo = todo /\ c.got = <<>> /\ c.junk = <<>>
      /\ c.seen = 0 /\ c.metadata = size
  BY DEF Started
<1>3. c \in CallType
  BY <1>1 DEF Started, CallType, Busy, Operations
<1> HIDE DEF c
<1>4. c.got \o c.todo = Storage(s, c) \o rest
  BY <1>1, <1>2 DEF c
<1>5. IsWorking(s, c, current, old)
  BY <1>2, <1>4 DEF IsWorking
<1> QED
  BY <1>1, <1>2, <1>3, <1>5 DEF CallIsWhole, c

LEMMA FreeIsWhole ==
    ASSUME NEW t, NEW op \in {"none", "release", "destroy"}, NEW junk \in Seq(Nat), junk # <<>>,
           NEW current, NEW old
    PROVE  /\ Freeing(op, junk) \in CallType
           /\ CallIsWhole(t, Freeing(op, junk), current, old)
BY ListTypes DEF Freeing, CallType, CallIsWhole, Busy, Operations

LEMMA IdleIsWhole ==
    ASSUME NEW t, NEW current, NEW old
    PROVE  Idle \in CallType /\ CallIsWhole(t, Idle, current, old)
BY ListTypes DEF Idle, CallType, CallIsWhole, Busy, Operations

LEMMA InitShape == Init => Shape
<1> SUFFICES ASSUME Init PROVE Shape
  OBVIOUS
<1>1. NoResult \in ResultType
  BY ListTypes DEF NoResult, ResultType
<1>2. Types
  <2>1. <<>> \in Seq(NodeType)
    OBVIOUS
  <2> QED
    BY <1>1, <2>1, IdleIsWhole DEF Init, Types
<1>3. CallsAreWhole
  BY IdleIsWhole DEF Init, CallsAreWhole
<1>4. SessionsAreWhole /\ Sharing
  BY DEF Init, SessionsAreWhole, Sharing, NoResult
<1> QED
  BY <1>2, <1>3, <1>4 DEF Shape

(* The calls that begin.                                                   *)
LEMMA BeginKeepsShape ==
    ASSUME Shape,
           \/ \E s \in Sessions :
                 \/ Create(s)
                 \/ \E size \in MetadataSizes \cup {0} : SetMetadata(s, size)
                 \/ \E snapshot \in Snapshots : Process(s, snapshot)
           \/ Activate
           \/ EndAnalysis
    PROVE  Shape'
<1>1. ASSUME NEW s \in Sessions, NEW op \in {"create", "metadata", "publish"},
             NEW storage \in Seq(Nat), NEW rest \in Seq(Nat), rest # <<>>, NEW size \in Nat,
             Start(s, op, storage \o rest, size),
             storage = Storage(s, Started(op, storage \o rest, size)),
             op = "create" <=> state[s] = "NONE", op = "create" => size = 0,
             op = "publish" => size = metadata[s],
             UNCHANGED <<allocated_bytes, state, metadata, result, kept>>,
             done' \in Nat, queue' \in Seq(NodeType)
      PROVE  Shape'
  <2> DEFINE c == Started(op, storage \o rest, size)
  <2>1. call' = [call EXCEPT ![s] = c] /\ s \in Threads
    <3> DEFINE todo == storage \o rest
    <3>1. Start(s, op, todo, size)
      BY <1>1
    <3> HIDE DEF todo
    <3>2. call' = [call EXCEPT ![s] = Started(op, todo, size)]
      BY <3>1, StartRecord
    <3> QED
      BY <3>2, Constants DEF todo
  <2>2. c \in CallType /\ CallIsWhole(s, c, state[s], metadata[s])
    BY <1>1, StartIsWhole
  <2> HIDE DEF c
  <2>3. call' \in [Threads -> CallType] /\ CallsAreWhole'
    BY <1>1, <2>1, <2>2, OneCall
  <2> QED
    BY <1>1, <2>3 DEF Shape, Types, SessionsAreWhole, Sharing
<1>2. /\ metadata \in [Sessions -> Nat] /\ state \in [Sessions -> {"NONE", "CREATED", "ACTIVE"}]
      /\ done \in Nat /\ queue \in Seq(NodeType) /\ call \in [Threads -> CallType]
  BY DEF Shape, Types
<1>3. ASSUME NEW s \in Sessions, Create(s) PROVE Shape'
  <2> DEFINE storage == OnHeap(s, SessionBytes)
             rest == <<ResultBytes>>
  <2>1. storage \in Seq(Nat) /\ rest \in Seq(Nat) /\ rest # <<>>
    BY Constants, ListTypes
  <2>2. Start(s, "create", storage \o rest, 0) /\ state[s] = "NONE"
        /\ UNCHANGED <<allocated_bytes, state, metadata, result, kept, arena>>
    BY <1>3 DEF Create
  <2>3. storage = Storage(s, Started("create", storage \o rest, 0))
    BY DEF Storage, Started
  <2> HIDE DEF storage, rest
  <2> QED
    BY <1>1, <1>2, <2>1, <2>2, <2>3 DEF arena
<1>4. ASSUME NEW s \in Sessions, NEW size \in MetadataSizes \cup {0}, SetMetadata(s, size)
      PROVE  Shape'
  <2> DEFINE storage == OnHeap(s, size)
             rest == <<ResultBytes>> \o Copy(size)
  <2>0. size \in Nat
    BY Constants
  <2>1. storage \in Seq(Nat) /\ <<ResultBytes>> \in Seq(Nat) /\ Copy(size) \in Seq(Nat)
    BY <2>0, Constants, ListTypes
  <2>2. rest \in Seq(Nat) /\ rest # <<>>
    BY <2>1, ListsJoin
  <2>3. storage \o rest = OnHeap(s, size) \o <<ResultBytes>> \o Copy(size)
    BY <2>1, ListsAssociate
  <2>4. Start(s, "metadata", OnHeap(s, size) \o <<ResultBytes>> \o Copy(size), size)
        /\ state[s] = "CREATED"
        /\ UNCHANGED <<allocated_bytes, state, metadata, result, kept, done, queue>>
    BY <1>4 DEF SetMetadata
  <2>5. Start(s, "metadata", storage \o rest, size)
    BY <2>3, <2>4
  <2>6. storage = Storage(s, Started("metadata", storage \o rest, size))
    BY DEF Storage, Started
  <2> HIDE DEF storage, rest
  <2> QED
    BY <1>1, <1>2, <2>0, <2>1, <2>2, <2>4, <2>5, <2>6
<1>5. ASSUME NEW s \in Sessions, NEW rest \in Seq(Nat), rest # <<>>, state[s] # "NONE",
             Start(s, "publish", rest, metadata[s]),
             UNCHANGED <<allocated_bytes, state, metadata, result, kept>>,
             done' \in Nat, queue' \in Seq(NodeType)
      PROVE  Shape'
  <2>1. <<>> \in Seq(Nat) /\ <<>> \o rest = rest /\ metadata[s] \in Nat
    BY <1>2, <1>5, ListTypes, ListsJoin
  <2>2. <<>> = Storage(s, Started("publish", <<>> \o rest, metadata[s]))
    BY DEF Storage, Started
  <2>3. Start(s, "publish", <<>> \o rest, metadata[s])
    BY <2>1, <1>5
  <2> QED
    BY <1>1, <1>5, <2>1, <2>2, <2>3
<1>6. ASSUME NEW s \in Sessions, NEW tail \in Seq(Nat)
      PROVE  /\ <<ResultBytes>> \o Copy(metadata[s]) \in Seq(Nat)
             /\ <<ResultBytes>> \o Copy(metadata[s]) # <<>>
             /\ <<ResultBytes>> \o Copy(metadata[s]) \o tail \in Seq(Nat)
             /\ <<ResultBytes>> \o Copy(metadata[s]) \o tail # <<>>
  <2>1. /\ <<ResultBytes>> \in Seq(Nat) /\ <<ResultBytes>> # <<>>
        /\ Copy(metadata[s]) \in Seq(Nat)
    BY <1>2, Constants, ListTypes
  <2> DEFINE a == <<ResultBytes>> \o Copy(metadata[s])
  <2>2. a \in Seq(Nat) /\ a # <<>>
    BY <2>1, ListsJoin
  <2> HIDE DEF a
  <2>3. a \o tail \in Seq(Nat) /\ a \o tail # <<>>
    BY <2>2, ListsJoin
  <2> QED
    BY <2>2, <2>3 DEF a
<1>7. ASSUME NEW s \in Sessions, NEW snapshot \in Snapshots, Process(s, snapshot)
      PROVE  Shape'
  <2> DEFINE tail == IF state[s] = "CREATED" THEN <<>> ELSE snapshot
             rest == <<ResultBytes>> \o Copy(metadata[s]) \o tail
  <2>1. tail \in Seq(Nat)
    BY Constants, ListTypes
  <2>2. Start(s, "publish", rest, metadata[s]) /\ state[s] # "NONE"
        /\ UNCHANGED <<allocated_bytes, state, metadata, result, kept, arena>>
    BY <1>7 DEF Process
  <2> HIDE DEF tail
  <2>3. rest \in Seq(Nat) /\ rest # <<>>
    BY <1>6, <2>1
  <2> HIDE DEF rest
  <2> QED
    BY <1>2, <1>5, <2>2, <2>3 DEF arena
<1>8. CASE Activate
  <2> DEFINE rest == <<ResultBytes>> \o Copy(metadata[Arena])
  <2>1. Start(Arena, "publish", rest, metadata[Arena]) /\ state[Arena] # "NONE"
        /\ UNCHANGED <<allocated_bytes, state, metadata, result, kept, arena>>
    BY <1>8 DEF Activate
  <2>2. rest \in Seq(Nat) /\ rest # <<>> /\ Arena \in Sessions
    BY <1>6, Constants, ListTypes
  <2> HIDE DEF rest
  <2> QED
    BY <1>2, <1>5, <2>1, <2>2 DEF arena
<1>9. CASE EndAnalysis
  <2> DEFINE complete == done \div ColumnFrames
             tail == <<complete * ColumnBytes, SpanBytes>>
             rest == <<ResultBytes>> \o Copy(metadata[Arena]) \o tail
  <2>1. /\ UNCHANGED <<allocated_bytes, state, metadata, result, kept, arena>>
        /\ call[Arena].pc = "analyse"
        /\ \/ Start(Arena, "publish", rest, metadata[Arena])
           \/ call' = [call EXCEPT ![Arena] = Idle]
    BY <1>9, Zenon DEF EndAnalysis
  <2>2. complete \in Nat /\ Arena \in Sessions /\ Arena \in Threads
    <3>1. ASSUME NEW x \in Nat, NEW y \in Nat \ {0} PROVE x \div y \in Nat
      OBVIOUS
    <3> QED
      BY <1>2, <3>1, Constants, Zenon
  <2>3. complete * ColumnBytes \in Nat
    BY <2>2, Constants
  <2> HIDE DEF complete
  <2>4. tail \in Seq(Nat)
    BY <2>3, Constants
  <2> HIDE DEF tail
  <2>5. rest \in Seq(Nat) /\ rest # <<>>
    BY <1>6, <2>2, <2>4
  <2> HIDE DEF rest
  <2>6. done' \in Nat /\ queue' \in Seq(NodeType)
    BY <1>2, <2>1 DEF arena
  <2>7. CASE Start(Arena, "publish", rest, metadata[Arena])
    <3>1. state[Arena] # "NONE"
      BY <2>1, <2>2 DEF Shape, CallsAreWhole, CallIsWhole
    <3> QED
      BY <1>5, <2>1, <2>2, <2>5, <2>6, <2>7, <3>1, Zenon
  <2>8. CASE call' = [call EXCEPT ![Arena] = Idle]
    <3>1. call' \in [Threads -> CallType] /\ CallsAreWhole'
      BY <2>1, <2>2, <2>8, IdleIsWhole, OneCall
    <3> QED
      BY <2>1, <2>6, <3>1 DEF Shape, Types, SessionsAreWhole, Sharing
  <2> QED
    BY <2>1, <2>7, <2>8
<1> QED
  BY <1>3, <1>4, <1>7, <1>8, <1>9

(* The record of a call that has only moved on, one that has taken what    *)
(* the allocator returned, and the updates of the actions as whole         *)
(* records.                                                                *)
Moved(c, p, n) ==
    [pc |-> p, op |-> c.op, todo |-> c.todo, got |-> c.got, junk |-> c.junk, seen |-> n,
     metadata |-> c.metadata]
Taken(c) ==
    [pc |-> IF Len(c.todo) = 1 THEN "install" ELSE "load", op |-> c.op, todo |-> Tail(c.todo),
     got |-> Append(c.got, Head(c.todo)), junk |-> c.junk, seen |-> c.seen,
     metadata |-> c.metadata]
Shortened(c) ==
    [pc |-> c.pc, op |-> c.op, todo |-> c.todo, got |-> c.got, junk |-> Tail(c.junk),
     seen |-> c.seen, metadata |-> c.metadata]

LEMMA CallFields ==
    ASSUME NEW c \in CallType
    PROVE  /\ c = Moved(c, c.pc, c.seen)
           /\ c.pc \in Busy \cup {"idle", "free", "analyse"} /\ c.todo \in Seq(Nat) /\ c.got \in Seq(Nat)
           /\ c.junk \in Seq(Nat) /\ c.seen \in Int /\ c.metadata \in Nat
           /\ c.op \in Operations
BY DEF CallType, Moved

SetPc(c, x) == [c EXCEPT !.pc = x]
SetSeen(c, x) == [c EXCEPT !.seen = x]
SetTodo(c, x) == [c EXCEPT !.todo = x]
SetGot(c, x) == [c EXCEPT !.got = x]
SetJunk(c, x) == [c EXCEPT !.junk = x]

Record(pc, op, todo, got, junk, seen, size) ==
    [pc |-> pc, op |-> op, todo |-> todo, got |-> got, junk |-> junk, seen |-> seen,
     metadata |-> size]

LEMMA SetFields ==
    ASSUME NEW pc, NEW op, NEW todo, NEW got, NEW junk, NEW seen, NEW size, NEW x, NEW c,
           c = Record(pc, op, todo, got, junk, seen, size)
    PROVE  /\ SetPc(c, x) = Record(x, op, todo, got, junk, seen, size)
           /\ SetSeen(c, x) = Record(pc, op, todo, got, junk, x, size)
           /\ SetTodo(c, x) = Record(pc, op, x, got, junk, seen, size)
           /\ SetGot(c, x) = Record(pc, op, todo, x, junk, seen, size)
           /\ SetJunk(c, x) = Record(pc, op, todo, got, x, seen, size)
<1>1. SetPc(c, x) = Record(x, op, todo, got, junk, seen, size)
  BY DEF SetPc, Record
<1>2. SetSeen(c, x) = Record(pc, op, todo, got, junk, x, size)
  BY DEF SetSeen, Record
<1>3. SetTodo(c, x) = Record(pc, op, x, got, junk, seen, size)
  BY DEF SetTodo, Record
<1>4. SetGot(c, x) = Record(pc, op, todo, x, junk, seen, size)
  BY DEF SetGot, Record
<1>5. SetJunk(c, x) = Record(pc, op, todo, got, x, seen, size)
  BY DEF SetJunk, Record
<1> QED
  BY <1>1, <1>2, <1>3, <1>4, <1>5

LEMMA Updates ==
    ASSUME NEW c \in CallType, NEW p, NEW n
    PROVE  /\ SetPc(c, p) = Moved(c, p, c.seen)
           /\ SetSeen(c, n) = Moved(c, c.pc, n)
           /\ SetSeen(SetPc(c, p), n) = Moved(c, p, n)
           /\ SetPc(SetTodo(SetGot(c, Append(c.got, Head(c.todo))), Tail(c.todo)),
                    IF Len(c.todo) = 1 THEN "install" ELSE "load") = Taken(c)
           /\ SetJunk(c, Tail(c.junk)) = Shortened(c)
<1> DEFINE op == c.op
           todo == c.todo
           got == c.got
           junk == c.junk
           seen == c.seen
           size == c.metadata
           pc == c.pc
           q == IF Len(todo) = 1 THEN "install" ELSE "load"
           more == Append(got, Head(todo))
           less == Tail(todo)
           free == Tail(junk)
           a == SetPc(c, p)
           b == SetGot(c, more)
           d == SetTodo(b, less)
<1>1. c = Record(pc, op, todo, got, junk, seen, size)
  BY CallFields DEF Moved, Record
<1> HIDE DEF pc, op, todo, got, junk, seen, size, q, more, less, free, a, b, d
<1>2. /\ a = Record(p, op, todo, got, junk, seen, size)
      /\ SetSeen(c, n) = Record(pc, op, todo, got, junk, n, size)
      /\ b = Record(pc, op, todo, more, junk, seen, size)
      /\ SetJunk(c, free) = Record(pc, op, todo, got, free, seen, size)
  BY <1>1, SetFields DEF a, b
<1>3. /\ SetSeen(a, n) = Record(p, op, todo, got, junk, n, size)
      /\ d = Record(pc, op, less, more, junk, seen, size)
  BY <1>2, SetFields DEF d
<1>4. SetPc(d, q) = Record(q, op, less, more, junk, seen, size)
  BY <1>3, SetFields
<1> QED
  BY <1>2, <1>3, <1>4 DEF a, b, d, pc, op, todo, got, junk, seen, size, q, more, less, free,
                          Moved, Taken, Shortened, Record

LEMMA MovedIsWhole ==
    ASSUME NEW t, NEW c \in CallType, NEW current, NEW old, CallIsWhole(t, c, current, old),
           c.pc \in {"load", "exchange", "allocate"},
           NEW p \in {"load", "exchange", "allocate"}, NEW n \in Int
    PROVE  Moved(c, p, n) \in CallType /\ CallIsWhole(t, Moved(c, p, n), current, old)
<1> DEFINE d == Moved(c, p, n)
<1>1. /\ d.pc = p /\ d.op = c.op /\ d.todo = c.todo /\ d.got = c.got /\ d.junk = c.junk
      /\ d.metadata = c.metadata
  BY DEF Moved
<1>2. d \in CallType
  BY CallFields DEF Moved, CallType, Busy
<1>3. IsWorking(t, c, current, old) /\ c.todo # <<>>
  BY DEF CallIsWhole, Busy
<1> HIDE DEF d
<1>4. Storage(t, d) = Storage(t, c)
  BY <1>1 DEF Storage
<1>5. IsWorking(t, d, current, old)
  BY <1>1, <1>3, <1>4 DEF IsWorking
<1> QED
  BY <1>1, <1>2, <1>3, <1>5 DEF CallIsWhole, Busy, d

LEMMA TakenIsWhole ==
    ASSUME NEW t, NEW c \in CallType, NEW current, NEW old, CallIsWhole(t, c, current, old),
           c.pc = "allocate"
    PROVE  Taken(c) \in CallType /\ CallIsWhole(t, Taken(c), current, old)
<1> DEFINE d == Taken(c)
<1>1. c.todo # <<>> /\ c.todo \in Seq(Nat) /\ c.got \in Seq(Nat) /\ IsWorking(t, c, current, old)
  BY CallFields DEF CallIsWhole, Busy
<1>2. /\ Append(c.got, Head(c.todo)) \in Seq(Nat) /\ Tail(c.todo) \in Seq(Nat)
      /\ Append(c.got, Head(c.todo)) \o Tail(c.todo) = c.got \o c.todo
      /\ Len(c.todo) = 1 <=> Tail(c.todo) = <<>>
  BY <1>1, ListsMove
<1>3. /\ d.pc = IF Len(c.todo) = 1 THEN "install" ELSE "load"
      /\ d.op = c.op /\ d.todo = Tail(c.todo)
      /\ d.got = Append(c.got, Head(c.todo)) /\ d.junk = c.junk /\ d.metadata = c.metadata
      /\ d.seen = c.seen
  BY DEF Taken
<1>4. d \in CallType
  BY <1>2, CallFields DEF Taken, CallType, Busy
<1> HIDE DEF d
<1>5. Storage(t, d) = Storage(t, c)
  BY <1>3 DEF Storage
<1>6. d.got \o d.todo = c.got \o c.todo
  BY <1>2, <1>3
<1>7. IsWorking(t, d, current, old)
  BY <1>1, <1>3, <1>5, <1>6 DEF IsWorking
<1>8. d.pc \in {"install", "load"} /\ (d.pc = "install" <=> d.todo = <<>>)
  BY <1>2, <1>3
<1> QED
  BY <1>4, <1>7, <1>8 DEF CallIsWhole, Busy, d

LEMMA FreeRecords ==
    ASSUME NEW op, NEW list
    PROVE  /\ [Idle EXCEPT !.pc = "free", !.junk = list] = Freeing("none", list)
           /\ [Idle EXCEPT !.pc = "free", !.op = op, !.junk = list] = Freeing(op, list)
<1> DEFINE a == [Idle EXCEPT !.pc = "free"]
           b == [a EXCEPT !.op = op]
<1>1. a = Freeing("none", <<>>)
  BY DEF Idle, Freeing
<1> HIDE DEF a
<1>2. [a EXCEPT !.junk = list] = Freeing("none", list) /\ b = Freeing(op, <<>>)
  BY <1>1 DEF Freeing
<1> HIDE DEF b
<1>3. [b EXCEPT !.junk = list] = Freeing(op, list)
  BY <1>2 DEF Freeing
<1> QED
  BY <1>2, <1>3 DEF a, b

(* A call that is undone has nothing left or only to free.                 *)
LEMMA RolledBackIsWhole ==
    ASSUME NEW t, NEW c \in CallType, NEW current, NEW old
    PROVE  /\ RolledBack(c) = IF c.got = <<>> THEN Idle ELSE Freeing("none", c.got)
           /\ RolledBack(c) \in CallType /\ CallIsWhole(t, RolledBack(c), current, old)
<1>1. RolledBack(c) = IF c.got = <<>> THEN Idle ELSE [Idle EXCEPT !.pc = "free", !.junk = c.got]
  BY Zenon DEF RolledBack
<1>2. RolledBack(c) = IF c.got = <<>> THEN Idle ELSE Freeing("none", c.got)
  BY <1>1, FreeRecords, Zenon
<1>3. c.got \in Seq(Nat)
  BY CallFields
<1>4. CASE c.got = <<>>
  BY <1>2, <1>4, IdleIsWhole
<1>5. CASE c.got # <<>>
  BY <1>2, <1>3, <1>5, FreeIsWhole
<1> QED
  BY <1>2, <1>4, <1>5

(* A step that changes no more than one call.                              *)
LEMMA CallKeepsShape ==
    ASSUME Shape, NEW t \in Threads, NEW c \in CallType, call' = [call EXCEPT ![t] = c],
           CallIsWhole(t, c, state[t], metadata[t]), allocated_bytes' \in Int,
           UNCHANGED <<state, metadata, result, kept, done, queue>>
    PROVE  Shape'
<1>1. call' \in [Threads -> CallType] /\ CallsAreWhole'
  BY OneCall
<1> QED
  BY <1>1 DEF Shape, Types, SessionsAreWhole, Sharing

(* The record of a process call that has made its reservation.             *)
Analysing(n) ==
    [pc |-> "analyse", op |-> "process", todo |-> <<>>, got |-> <<>>, junk |-> <<>>, seen |-> n,
     metadata |-> 0]

LEMMA AnalysingRecord ==
    ASSUME NEW n
    PROVE  [Idle EXCEPT !.pc = "analyse", !.op = "process", !.seen = n] = Analysing(n)
<1> DEFINE a == [Idle EXCEPT !.pc = "analyse"]
           b == [a EXCEPT !.op = "process"]
<1>1. a = Record("analyse", "none", <<>>, <<>>, <<>>, 0, 0)
  BY DEF Idle, Record
<1> HIDE DEF a
<1>2. b = Record("analyse", "process", <<>>, <<>>, <<>>, 0, 0)
  BY <1>1 DEF Record
<1> HIDE DEF b
<1>3. [b EXCEPT !.seen = n] = Analysing(n)
  BY <1>2 DEF Record, Analysing
<1> QED
  BY <1>3 DEF a, b

LEMMA ReserveCall ==
    ASSUME Reserve
    PROVE  \/ UNCHANGED call
           \/ call' = [call EXCEPT ![Arena] = Analysing(done \div ColumnFrames)]
<1>1. \/ UNCHANGED call
      \/ call' = [call EXCEPT ![Arena] = [Idle EXCEPT !.pc = "analyse", !.op = "process",
                                                     !.seen = done \div ColumnFrames]]
  <2>1. \/ UNCHANGED <<capacity, call>>
        \/ call' = [call EXCEPT ![Arena] = [Idle EXCEPT !.pc = "analyse", !.op = "process",
                                                       !.seen = done \div ColumnFrames]]
    BY Zenon DEF Reserve
  <2>2. UNCHANGED <<capacity, call>> => UNCHANGED call
    OBVIOUS
  <2> QED
    BY <2>1, <2>2, Zenon
<1> QED
  BY <1>1, AnalysingRecord, Zenon

(* The reservation of a process call and the nodes it works off.           *)
LEMMA AnalysisKeepsShape ==
    ASSUME Shape, Reserve \/ AnalyseNode
    PROVE  Shape'
<1>1. /\ allocated_bytes \in Int /\ done \in Nat /\ queue \in Seq(NodeType)
      /\ Arena \in Sessions /\ Arena \in Threads /\ ColumnFrames \in Nat \ {0}
  BY Constants DEF Shape, Types
<1>2. CASE Reserve
  <2>1. /\ UNCHANGED <<allocated_bytes, state, metadata, result, kept, done, queue>>
        /\ state[Arena] = "ACTIVE"
    BY <1>2 DEF Reserve
  <2>2. CASE UNCHANGED call
    BY <2>1, <2>2 DEF Shape, Types, CallsAreWhole, SessionsAreWhole, Sharing
  <2>3. CASE call' = [call EXCEPT ![Arena] = Analysing(done \div ColumnFrames)]
    <3> DEFINE n == done \div ColumnFrames
               c == Analysing(n)
    <3>1. n \in Int
      BY <1>1
    <3> HIDE DEF n
    <3>2. /\ c.pc = "analyse" /\ c.got = <<>> /\ c.junk = <<>>
          /\ c \in CallType
      BY <3>1, ListTypes DEF Analysing, CallType, Operations
    <3>3. call' = [call EXCEPT ![Arena] = c]
      BY <2>3 DEF n
    <3> HIDE DEF c
    <3>4. CallIsWhole(Arena, c, state[Arena], metadata[Arena])
      BY <1>1, <2>1, <3>2 DEF CallIsWhole, Busy
    <3> QED
      BY <1>1, <2>1, <3>2, <3>3, <3>4, CallKeepsShape
  <2> QED
    BY <1>2, <2>2, <2>3, ReserveCall
<1>3. CASE AnalyseNode
  <2>1. /\ UNCHANGED <<allocated_bytes, call, state, metadata, result, kept>>
        /\ queue # <<>> /\ done' = done + Head(queue).frames /\ queue' = Tail(queue)
    BY <1>3 DEF AnalyseNode
  <2>2. Head(queue) \in NodeType /\ queue' \in Seq(NodeType)
    BY <1>1, <2>1
  <2>3. done' \in Nat
    BY <1>1, <2>1, <2>2 DEF NodeType
  <2> QED
    BY <2>1, <2>2, <2>3 DEF Shape, Types, CallsAreWhole, SessionsAreWhole, Sharing
<1> QED
  BY <1>2, <1>3

LEMMA TakeRecord ==
    ASSUME NEW t \in Threads, call[t] \in CallType, AllocatorReturns(t)
    PROVE  call' = [call EXCEPT ![t] = Taken(call[t])]
<1>1. [call[t] EXCEPT !.got = Append(call[t].got, Head(call[t].todo))].todo = call[t].todo
  BY DEF CallType
<1>2. call' = [call EXCEPT ![t] =
                  SetPc(SetTodo(SetGot(call[t], Append(call[t].got, Head(call[t].todo))),
                                Tail(call[t].todo)),
                        IF Len(call[t].todo) = 1 THEN "install" ELSE "load")]
  BY <1>1 DEF AllocatorReturns, Wanted, SetPc, SetTodo, SetGot
<1> QED
  BY <1>2, Updates

(* One allocation of a call.                                               *)
LEMMA RefusedKeepsShape ==
    ASSUME Shape, NEW t \in Threads, Refused(t), allocated_bytes' \in Int,
           UNCHANGED <<state, metadata, result, kept, done, queue>>
    PROVE  Shape'
<1>1. call[t] \in CallType
  BY DEF Shape, Types
<1>2. call' = [call EXCEPT ![t] = RolledBack(call[t])]
  BY DEF Refused
<1>3. RolledBack(call[t]) \in CallType
      /\ CallIsWhole(t, RolledBack(call[t]), state[t], metadata[t])
  BY <1>1, RolledBackIsWhole
<1> QED
  BY <1>2, <1>3, CallKeepsShape

LEMMA AllocationKeepsShape ==
    ASSUME Shape, NEW t \in Threads,
           Load(t) \/ Exchange(t) \/ AllocatorReturns(t) \/ AllocatorFails(t)
    PROVE  Shape'
<1> DEFINE c == call[t]
<1>1. /\ call \in [Threads -> CallType] /\ c \in CallType /\ allocated_bytes \in Int
      /\ CallIsWhole(t, c, state[t], metadata[t]) /\ 0 \in Int
  BY DEF Shape, Types, CallsAreWhole
<1>2. c.todo \in Seq(Nat) /\ c.got \in Seq(Nat) /\ c.seen \in Int
  BY <1>1, CallFields
<1> HIDE DEF c
<1>3. ASSUME c.pc \in {"load", "exchange", "allocate"}
      PROVE  c.todo # <<>> /\ Wanted(t) \in Nat
  <2>1. c.todo # <<>>
    BY <1>1, <1>3 DEF CallIsWhole
  <2> QED
    BY <1>2, <2>1 DEF Wanted, c
<1>4. ASSUME NEW p \in {"load", "exchange", "allocate"}, NEW n \in Int,
             call' = [call EXCEPT ![t] = Moved(c, p, n)],
             c.pc \in {"load", "exchange", "allocate"}, allocated_bytes' \in Int,
             UNCHANGED <<state, metadata, result, kept, done, queue>>
      PROVE  Shape'
  <2>1. Moved(c, p, n) \in CallType /\ CallIsWhole(t, Moved(c, p, n), state[t], metadata[t])
    BY <1>1, <1>4, MovedIsWhole
  <2> QED
    BY <1>4, <2>1, CallKeepsShape
<1>5. CASE Load(t)
  <2>1. c.pc = "load" /\ UNCHANGED <<state, metadata, result, kept, done, queue>>
    BY <1>5 DEF Load, c
  <2>2. CASE allocated_bytes' = allocated_bytes + Wanted(t) /\ call' = [call EXCEPT ![t].pc = "allocate"]
    <3>1. call' = [call EXCEPT ![t] = Moved(c, "allocate", c.seen)]
      <4>1. call' = [call EXCEPT ![t] = SetPc(call[t], "allocate")]
        BY <2>2 DEF SetPc
      <4> QED
        BY <1>1, <4>1, Updates DEF c
    <3>2. allocated_bytes' \in Int
      BY <1>1, <1>3, <2>1, <2>2
    <3> QED
      BY <1>2, <1>4, <2>1, <3>1, <3>2
  <2>3. CASE Refused(t) /\ UNCHANGED allocated_bytes
    BY <1>1, <2>1, <2>3, RefusedKeepsShape
  <2>4. CASE /\ call' = [call EXCEPT ![t].pc = "exchange", ![t].seen = allocated_bytes]
             /\ UNCHANGED allocated_bytes
    <3>1. call' = [call EXCEPT ![t] = Moved(c, "exchange", allocated_bytes)]
      <4>1. call' = [call EXCEPT ![t] = SetSeen(SetPc(call[t], "exchange"), allocated_bytes)]
        BY <2>4 DEF SetPc, SetSeen
      <4> QED
        BY <1>1, <4>1, Updates DEF c
    <3> QED
      BY <1>1, <1>4, <2>1, <2>4, <3>1
  <2> QED
    BY <1>5, <2>2, <2>3, <2>4 DEF Load
<1>6. CASE Exchange(t)
  <2>1. c.pc = "exchange" /\ UNCHANGED <<state, metadata, result, kept, done, queue>>
    BY <1>6 DEF Exchange, c
  <2>2. CASE Refused(t) /\ UNCHANGED allocated_bytes
    BY <1>1, <2>1, <2>2, RefusedKeepsShape
  <2>3. CASE /\ allocated_bytes' = allocated_bytes + Wanted(t)
             /\ call' = [call EXCEPT ![t].pc = "allocate", ![t].seen = 0]
    <3>1. call' = [call EXCEPT ![t] = Moved(c, "allocate", 0)]
      <4>1. call' = [call EXCEPT ![t] = SetSeen(SetPc(call[t], "allocate"), 0)]
        BY <2>3 DEF SetPc, SetSeen
      <4> QED
        BY <1>1, <4>1, Updates DEF c
    <3>2. allocated_bytes' \in Int
      BY <1>1, <1>3, <2>1, <2>3
    <3> QED
      BY <1>1, <1>4, <2>1, <3>1, <3>2
  <2>4. CASE call' = [call EXCEPT ![t].seen = allocated_bytes] /\ UNCHANGED allocated_bytes
    <3>1. call' = [call EXCEPT ![t] = Moved(c, "exchange", allocated_bytes)]
      <4>1. call' = [call EXCEPT ![t] = SetSeen(call[t], allocated_bytes)]
        BY <2>4 DEF SetSeen
      <4> QED
        BY <1>1, <2>1, <4>1, Updates DEF c
    <3> QED
      BY <1>1, <1>4, <2>1, <2>4, <3>1
  <2> QED
    BY <1>6, <2>2, <2>3, <2>4 DEF Exchange
<1>7. CASE AllocatorReturns(t)
  <2>1. /\ c.pc = "allocate"
        /\ UNCHANGED <<allocated_bytes, state, metadata, result, kept, done, queue>>
    BY <1>7 DEF AllocatorReturns, arena, c
  <2>2. call' = [call EXCEPT ![t] = Taken(c)]
    BY <1>1, <1>7, TakeRecord DEF c
  <2>3. Taken(c) \in CallType /\ CallIsWhole(t, Taken(c), state[t], metadata[t])
    BY <1>1, <2>1, TakenIsWhole
  <2> QED
    BY <1>1, <2>1, <2>2, <2>3, CallKeepsShape
<1>8. CASE AllocatorFails(t)
  <2>1. /\ c.pc = "allocate" /\ Refused(t) /\ allocated_bytes' = allocated_bytes - Wanted(t)
        /\ UNCHANGED <<state, metadata, result, kept, done, queue>>
    BY <1>8 DEF AllocatorFails, c
  <2>2. allocated_bytes' \in Int
    BY <1>1, <1>3, <2>1
  <2> QED
    BY <2>1, <2>2, RefusedKeepsShape
<1> QED
  BY <1>5, <1>6, <1>7, <1>8
(* Results as records.                                                     *)
Result(parts, size, shared) == [parts |-> parts, metadata |-> size, shared |-> shared]
SetShared(r, x) == [r EXCEPT !.shared = x]

LEMMA ResultFields ==
    ASSUME NEW r \in ResultType, NEW x \in BOOLEAN
    PROVE  /\ r = Result(r.parts, r.metadata, r.shared)
           /\ r.parts \in Seq(Nat) /\ r.metadata \in Nat /\ r.shared \in BOOLEAN
           /\ SetShared(r, x) = Result(r.parts, r.metadata, x)
           /\ SetShared(r, x) \in ResultType
           /\ SetShared(r, x).parts = r.parts /\ SetShared(r, x).metadata = r.metadata
           /\ SetShared(r, x).shared = x
           /\ NoResult \in ResultType /\ NoResult.parts = <<>> /\ NoResult.metadata = 0
           /\ NoResult.shared = FALSE
<1>1. r = Result(r.parts, r.metadata, r.shared)
  BY DEF ResultType, Result
<1>2. r.parts \in Seq(Nat) /\ r.metadata \in Nat /\ r.shared \in BOOLEAN
  BY DEF ResultType
<1>3. SetShared(r, x) = Result(r.parts, r.metadata, x)
  <2> DEFINE a == r.parts
             b == r.metadata
             d == r.shared
  <2>1. r = Result(a, b, d)
    BY <1>1
  <2> HIDE DEF a, b, d
  <2>2. SetShared(r, x) = Result(a, b, x)
    BY <2>1 DEF SetShared, Result
  <2> QED
    BY <2>2 DEF a, b
<1>4. SetShared(r, x) \in ResultType
  BY <1>2, <1>3 DEF Result, ResultType
<1>5. /\ SetShared(r, x).parts = r.parts /\ SetShared(r, x).metadata = r.metadata
      /\ SetShared(r, x).shared = x
  BY <1>3 DEF Result
<1>6. /\ NoResult \in ResultType /\ NoResult.parts = <<>> /\ NoResult.metadata = 0
      /\ NoResult.shared = FALSE
  BY ListTypes DEF NoResult, ResultType
<1> QED
  BY <1>1, <1>2, <1>3, <1>4, <1>5, <1>6

LEMMA AcquireKeepsShape ==
    ASSUME Shape, NEW s \in Watched, Acquire(s)
    PROVE  Shape'
<1> DEFINE r == SetShared(result[s], TRUE)
<1>1. s \in Sessions /\ TRUE \in BOOLEAN
  BY ContextAssumption
<1>2. result \in [Sessions -> ResultType] /\ result[s] \in ResultType
  BY <1>1 DEF Shape, Types
<1>3. result' = [result EXCEPT ![s] = r] /\ kept' = r
  BY DEF Acquire, SetShared
<1>4. /\ r \in ResultType /\ r.parts = result[s].parts /\ r.metadata = result[s].metadata
      /\ r.shared = TRUE
  BY <1>1, <1>2, ResultFields
<1>5. /\ UNCHANGED <<allocated_bytes, call, state, metadata, done, queue>>
      /\ kept = NoResult /\ result[s] # NoResult
  BY DEF Acquire, arena
<1> HIDE DEF r
<1>6. /\ result' \in [Sessions -> ResultType] /\ result'[s] = r
      /\ \A u \in Sessions : u # s => result'[u] = result[u]
  BY <1>1, <1>2, <1>3, <1>4
<1>7. ASSUME NEW u \in Sessions PROVE ~result[u].shared
  BY <1>5 DEF Shape, Sharing, NoResult
<1>8. result[s].parts # <<>>
  BY <1>1, <1>5 DEF Shape, Sharing
<1>9. Sharing'
  BY <1>1, <1>3, <1>4, <1>6, <1>7, <1>8 DEF Shape, Sharing
<1>10. state[s] # "NONE"
  BY <1>1, <1>5 DEF Shape, SessionsAreWhole
<1>11. SessionsAreWhole'
  BY <1>1, <1>4, <1>5, <1>6, <1>10 DEF Shape, SessionsAreWhole
<1>12. CallsAreWhole' /\ Types'
  BY <1>3, <1>4, <1>5, <1>6 DEF Shape, CallsAreWhole, Types
<1> QED
  BY <1>9, <1>11, <1>12 DEF Shape

LEMMA ReleaseKeepsShape ==
    ASSUME Shape, ReleaseResult
    PROVE  Shape'
<1>1. /\ UNCHANGED <<allocated_bytes, state, metadata, done, queue>>
      /\ kept # NoResult /\ kept' = NoResult
  BY DEF ReleaseResult, arena
<1>2. result \in [Sessions -> ResultType] /\ kept \in ResultType
  BY DEF Shape, Types
<1>3. /\ NoResult \in ResultType /\ NoResult.shared = FALSE /\ kept.parts \in Seq(Nat)
      /\ NoResult.parts = <<>> /\ FALSE \in BOOLEAN
  BY <1>2, ResultFields
<1>4. CASE kept.shared
  <2>1. /\ result' = [s \in Sessions |-> SetShared(result[s], FALSE)]
        /\ UNCHANGED call
    BY <1>4 DEF ReleaseResult, SetShared
  <2>2. ASSUME NEW s \in Sessions
        PROVE  /\ result'[s] \in ResultType /\ result'[s].parts = result[s].parts
               /\ result'[s].metadata = result[s].metadata /\ result'[s].shared = FALSE
               /\ result[s] = NoResult => result'[s] = NoResult
    <3>1. /\ result'[s] = SetShared(result[s], FALSE) /\ result[s] \in ResultType
      BY <1>2, <2>1
    <3>2. SetShared(NoResult, FALSE) = NoResult
      BY <1>3, ResultFields DEF Result, NoResult
    <3> DEFINE r == result[s]
    <3>3. r \in ResultType /\ FALSE \in BOOLEAN
      BY <3>1
    <3> HIDE DEF r
    <3>4. /\ SetShared(r, FALSE) \in ResultType /\ SetShared(r, FALSE).parts = r.parts
          /\ SetShared(r, FALSE).metadata = r.metadata /\ SetShared(r, FALSE).shared = FALSE
      BY <3>3, ResultFields
    <3> QED
      BY <3>1, <3>2, <3>4 DEF r
  <2>3. result' \in [Sessions -> ResultType]
    BY <2>1, <2>2
  <2>4. SessionsAreWhole'
    BY <1>1, <2>2 DEF Shape, SessionsAreWhole
  <2>5. ASSUME NEW s \in Sessions
        PROVE  /\ result'[s].parts = <<>> => result'[s] = NoResult
               /\ ~result'[s].shared
    BY <2>2 DEF Shape, Sharing
  <2>6. Sharing'
    BY <1>1, <1>3, <2>5 DEF Sharing
  <2> QED
    BY <1>1, <1>3, <2>1, <2>3, <2>4, <2>6 DEF Shape, Types, CallsAreWhole
<1>5. CASE ~kept.shared
  <2> DEFINE c == Freeing("release", kept.parts)
  <2>1. call' = [call EXCEPT ![Application] =
                    [Idle EXCEPT !.pc = "free", !.op = "release", !.junk = kept.parts]]
        /\ UNCHANGED result
    BY <1>5 DEF ReleaseResult
  <2>2. call' = [call EXCEPT ![Application] = c] /\ Application \in Threads
    BY <2>1, FreeRecords, Constants, Zenon
  <2>3. kept.parts # <<>>
    BY <1>1 DEF Shape, Sharing
  <2>4. c \in CallType /\ CallIsWhole(Application, c, state'[Application], metadata'[Application])
    BY <1>3, <2>3, FreeIsWhole
  <2> HIDE DEF c
  <2>5. call' \in [Threads -> CallType] /\ CallsAreWhole'
    BY <1>1, <2>2, <2>4, OneCall
  <2>6. SessionsAreWhole' /\ Sharing'
    BY <1>1, <1>3, <1>5, <2>1 DEF Shape, SessionsAreWhole, Sharing
  <2> QED
    BY <1>1, <1>2, <1>3, <2>1, <2>5, <2>6 DEF Shape, Types
<1> QED
  BY <1>4, <1>5

LEMMA DeallocateRecord ==
    ASSUME Shape, NEW t \in Threads, Deallocate(t)
    PROVE  /\ call' = [call EXCEPT ![t] = IF Len(call[t].junk) = 1 THEN Idle ELSE Shortened(call[t])]
           /\ (IF Len(call[t].junk) = 1 THEN Idle ELSE Shortened(call[t])) \in CallType
           /\ CallIsWhole(t, IF Len(call[t].junk) = 1 THEN Idle ELSE Shortened(call[t]),
                          state[t], metadata[t])
           /\ allocated_bytes' \in Int
<1> DEFINE c == call[t]
           d == IF Len(c.junk) = 1 THEN Idle ELSE Shortened(c)
<1>1. /\ call \in [Threads -> CallType] /\ c \in CallType /\ allocated_bytes \in Int
      /\ CallIsWhole(t, c, state[t], metadata[t])
  BY DEF Shape, Types, CallsAreWhole
<1>2. /\ c.pc = "free" /\ allocated_bytes' = allocated_bytes - Head(c.junk)
      /\ UNCHANGED <<state, metadata, result, kept, done, queue>>
  BY DEF Deallocate, arena
<1>3. call' = [call EXCEPT ![t] = d]
  <2>1. call' = [call EXCEPT ![t] = IF Len(call[t].junk) = 1 THEN Idle ELSE SetJunk(call[t], Tail(call[t].junk))]
    BY DEF Deallocate, SetJunk
  <2>2. SetJunk(call[t], Tail(call[t].junk)) = Shortened(call[t])
    BY <1>1, Updates
  <2> QED
    BY <2>1, <2>2, Zenon
<1> HIDE DEF c, d
<1>4. c.junk \in Seq(Nat) /\ c.junk # <<>> /\ c.got = <<>>
  BY <1>1, <1>2, CallFields DEF CallIsWhole
<1>5. Head(c.junk) \in Nat /\ Tail(c.junk) \in Seq(Nat) /\ (Len(c.junk) = 1 <=> Tail(c.junk) = <<>>)
  BY <1>4, ListsMove, ListTypes
<1>6. d \in CallType /\ CallIsWhole(t, d, state[t], metadata[t])
  <2>1. CASE Len(c.junk) = 1
    BY <2>1, IdleIsWhole DEF d
  <2>2. CASE Len(c.junk) # 1
    <3> DEFINE e == Shortened(c)
    <3>1. e \in CallType /\ e.pc = "free" /\ e.got = <<>> /\ e.junk = Tail(c.junk)
      BY <1>1, <1>2, <1>4, <1>5, CallFields DEF Shortened, CallType
    <3>2. e = d
      BY <2>2 DEF d
    <3> HIDE DEF e
    <3> QED
      BY <1>5, <2>2, <3>1, <3>2 DEF CallIsWhole, Busy
  <2> QED
    BY <2>1, <2>2
<1>7. allocated_bytes' \in Int
  BY <1>1, <1>2, <1>5
<1> QED
  BY <1>3, <1>6, <1>7 DEF c, d

LEMMA DeallocateKeepsShape ==
    ASSUME Shape, NEW t \in Threads, Deallocate(t)
    PROVE  Shape'
<1> DEFINE d == IF Len(call[t].junk) = 1 THEN Idle ELSE Shortened(call[t])
<1>1. /\ call' = [call EXCEPT ![t] = d] /\ d \in CallType
      /\ CallIsWhole(t, d, state[t], metadata[t]) /\ allocated_bytes' \in Int
  BY DeallocateRecord
<1>2. UNCHANGED <<state, metadata, result, kept, done, queue>>
  BY DEF Deallocate, arena
<1> HIDE DEF d
<1> QED
  BY <1>1, <1>2, CallKeepsShape

LEMMA PushKeepsShape ==
    ASSUME Shape, NEW n \in Blocks, PushPcm(n)
    PROVE  Shape'
<1>1. UNCHANGED <<allocated_bytes, call, state, metadata, result, kept, done>>
  BY Zenon DEF PushPcm
<1>2. queue' = queue \/ \E x, m : queue' = Append(queue, [node |-> x, frames |-> m])
                                /\ x \in Nodes /\ m \in Nat
  <2> DEFINE table == IF Holds(blocks, "ranges") THEN blocks
                      ELSE Allocate(blocks, FirstRanges * RangeBytes, "ranges")
             frames == IF accepted + n > TrackFrames THEN TrackFrames - accepted ELSE n
             halvings == {frames \div 2^k : k \in 0 .. 12} \cap 1 .. frames
             room == {m \in halvings : CanAllocate(table, NodeBytes + m * SampleBytes)}
             unused == {x \in Nodes : ~Holds(blocks, x)}
             node == CHOOSE x \in unused : TRUE
  <2>1. /\ unused # {}
        /\ queue' = queue \/ \E m \in room : queue' = Append(queue, [node |-> node, frames |-> m])
    <3>1. /\ unused # {}
          /\ IF room = {} THEN blocks' = table /\ UNCHANGED <<accepted, queue, backlog>>
             ELSE \E m \in room :
                     /\ \A x \in room : x <= m
                     /\ blocks' = Allocate(table, NodeBytes + m * SampleBytes, node)
                     /\ accepted' = accepted + m
                     /\ queue' = Append(queue, [node |-> node, frames |-> m])
                     /\ backlog' = (backlog \/ queue # <<>>)
      BY Zenon DEF PushPcm
    <3>2. UNCHANGED <<accepted, queue, backlog>> => queue' = queue
      OBVIOUS
    <3> HIDE DEF table, room, unused, node
    <3> QED
      BY <3>1, <3>2, Zenon
  <2>2. node \in Nodes
    <3>1. \A S : S # {} => (CHOOSE x \in S : TRUE) \in S
      OBVIOUS
    <3> QED
      BY <2>1, <3>1, Zenon
  <2>3. \A m \in room : m \in Nat
    <3>1. \A m \in room : m \in 1 .. frames
      BY Zenon
    <3>2. \A x : \A m \in 1 .. x : m \in Nat
      OBVIOUS
    <3> QED
      BY <3>1, <3>2, Zenon
  <2> HIDE DEF room, unused, node
  <2> QED
    BY <2>1, <2>2, <2>3, Zenon
<1>3. queue \in Seq(NodeType)
  BY DEF Shape, Types
<1>4. queue' \in Seq(NodeType)
  <2>1. ASSUME NEW x \in Nodes, NEW m \in Nat
        PROVE  Append(queue, [node |-> x, frames |-> m]) \in Seq(NodeType)
    <3>1. [node |-> x, frames |-> m] \in NodeType
      BY DEF NodeType
    <3> QED
      BY <1>3, <3>1
  <2> QED
    BY <1>2, <1>3, <2>1
<1> QED
  BY <1>1, <1>4 DEF Shape, Types, CallsAreWhole, SessionsAreWhole, Sharing
(* What becomes of the results when a session gives up its own.            *)
LEMMA DropFacts ==
    ASSUME Shape, NEW s \in Sessions
    PROVE  /\ Dropped(s) \in Seq(Nat)
           /\ KeptAfterDrop(s) \in ResultType
           /\ KeptAfterDrop(s).parts = kept.parts
           /\ ~result[s].shared => KeptAfterDrop(s) = kept
           /\ result[s].shared => ~KeptAfterDrop(s).shared
           /\ kept.parts = <<>> => KeptAfterDrop(s) = NoResult
<1>1. kept \in ResultType /\ result[s] \in ResultType
  BY DEF Shape, Types
<1>2. /\ result[s].parts \in Seq(Nat) /\ SetShared(kept, FALSE) \in ResultType
      /\ SetShared(kept, FALSE).parts = kept.parts /\ SetShared(kept, FALSE).shared = FALSE
      /\ NoResult.shared = FALSE
  BY <1>1, ResultFields
<1>3. KeptAfterDrop(s) = IF result[s].shared THEN SetShared(kept, FALSE) ELSE kept
  BY Zenon DEF KeptAfterDrop, SetShared
<1>4. Dropped(s) \in Seq(Nat)
  BY <1>2, ListTypes DEF Dropped
<1>5. kept.parts = <<>> => ~result[s].shared /\ kept = NoResult
  BY <1>2 DEF Shape, Sharing
<1> QED
  BY <1>1, <1>2, <1>3, <1>4, <1>5

LEMMA ReplaceKeepsSharing ==
    ASSUME Shape, NEW s \in Sessions, NEW r \in ResultType,
           result' = [result EXCEPT ![s] = r], kept' = KeptAfterDrop(s),
           ~r.shared, r.parts = <<>> => r = NoResult
    PROVE  /\ Sharing' /\ result' \in [Sessions -> ResultType] /\ kept' \in ResultType
           /\ result'[s] = r
           /\ \A u \in Sessions : u # s => result'[u] = result[u]
<1>1. result \in [Sessions -> ResultType]
  BY DEF Shape, Types
<1>2. /\ result' \in [Sessions -> ResultType] /\ result'[s] = r
      /\ \A u \in Sessions : u # s => result'[u] = result[u]
  BY <1>1
<1>3. /\ kept' \in ResultType /\ kept'.parts = kept.parts
      /\ ~result[s].shared => kept' = kept
      /\ result[s].shared => ~kept'.shared
      /\ kept.parts = <<>> => kept' = NoResult
  BY DropFacts
<1>4. kept'.parts = <<>> => kept' = NoResult
  BY <1>3
<1>5. kept'.shared => \E u \in Sessions : result'[u].shared
  <2> SUFFICES ASSUME kept'.shared PROVE \E u \in Sessions : result'[u].shared
    OBVIOUS
  <2>1. ~result[s].shared /\ kept' = kept
    BY <1>3
  <2>2. PICK u \in Sessions : result[u].shared
    BY <2>1 DEF Shape, Sharing
  <2> QED
    BY <1>2, <2>1, <2>2
<1>6. ASSUME NEW u \in Sessions, result'[u].shared
      PROVE  u # s /\ result[u].shared /\ kept' = result'[u]
  <2>1. u # s /\ result'[u] = result[u]
    BY <1>2, <1>6
  <2>2. ~result[s].shared
    BY <1>6, <2>1 DEF Shape, Sharing
  <2> QED
    BY <1>3, <1>6, <2>1, <2>2 DEF Shape, Sharing
<1>7. ASSUME NEW u \in Sessions, result'[u].parts = <<>> PROVE result'[u] = NoResult
  BY <1>2, <1>7 DEF Shape, Sharing
<1>8. Sharing'
  BY <1>4, <1>5, <1>6, <1>7 DEF Shape, Sharing
<1> QED
  BY <1>2, <1>3, <1>8

(* The record a session's call ends with.                                  *)
LEMMA EndIsWhole ==
    ASSUME NEW t, NEW op \in {"none", "release", "destroy"}, NEW junk \in Seq(Nat), NEW current,
           NEW old, NEW c, c = IF junk = <<>> THEN Idle ELSE Freeing(op, junk)
    PROVE  c \in CallType /\ CallIsWhole(t, c, current, old)
<1>1. CASE junk = <<>>
  BY <1>1, IdleIsWhole
<1>2. CASE junk # <<>>
  BY <1>2, FreeIsWhole
<1> QED
  BY <1>1, <1>2

LEMMA DestroyKeepsShape ==
    ASSUME Shape, NEW s \in Sessions, Destroy(s)
    PROVE  Shape'
<1> DEFINE junk == Dropped(s) \o OnHeap(s, metadata[s]) \o OnHeap(s, SessionBytes)
           c == IF junk = <<>> THEN Idle ELSE Freeing("destroy", junk)
<1>1. /\ result' = [result EXCEPT ![s] = NoResult] /\ kept' = KeptAfterDrop(s)
      /\ state' = [state EXCEPT ![s] = "NONE"] /\ metadata' = [metadata EXCEPT ![s] = 0]
      /\ call[s].pc = "idle" /\ UNCHANGED allocated_bytes
  BY Zenon DEF Destroy
<1>2. (done' = 0 /\ queue' = <<>>) \/ (done' = done /\ queue' = queue)
  BY DEF Destroy, arena
<1>3. /\ metadata \in [Sessions -> Nat] /\ state \in [Sessions -> {"NONE", "CREATED", "ACTIVE"}]
      /\ call \in [Threads -> CallType] /\ done \in Nat /\ queue \in Seq(NodeType)
      /\ allocated_bytes \in Int
  BY DEF Shape, Types
<1>4. junk \in Seq(Nat)
  <2>1. Dropped(s) \in Seq(Nat) /\ OnHeap(s, metadata[s]) \in Seq(Nat)
        /\ OnHeap(s, SessionBytes) \in Seq(Nat)
    BY <1>3, DropFacts, Constants, ListTypes
  <2>2. Dropped(s) \o OnHeap(s, metadata[s]) \in Seq(Nat)
    BY <2>1, ListsJoin
  <2> QED
    BY <2>1, <2>2, ListsJoin
<1>5. call' = IF junk = <<>> THEN call
              ELSE [call EXCEPT ![s] = [Idle EXCEPT !.pc = "free", !.op = "destroy", !.junk = junk]]
  BY Zenon DEF Destroy
<1> HIDE DEF junk
<1>6. s \in Threads
  BY Constants
<1>7. call' \in [Threads -> CallType] /\ CallsAreWhole'
  <2>1. c \in CallType /\ CallIsWhole(s, c, state'[s], metadata'[s])
    BY <1>4, EndIsWhole
  <2>2. \A u \in Sessions : u # s => state'[u] = state[u] /\ metadata'[u] = metadata[u]
    BY <1>1, <1>3
  <2>3. CASE junk # <<>>
    <3>1. call' = [call EXCEPT ![s] = c]
      BY <1>5, <2>3, FreeRecords, Zenon
    <3> HIDE DEF c
    <3> QED
      BY <1>6, <2>1, <2>2, <3>1, OneCall
  <2>4. CASE junk = <<>>
    <3>1. call' = [call EXCEPT ![s] = call[s]]
      BY <1>3, <1>5, <1>6, <2>4
    <3>2. call[s] \in CallType /\ CallIsWhole(s, call[s], state[s], metadata[s])
      BY <1>3, <1>6 DEF Shape, CallsAreWhole
    <3>3. CallIsWhole(s, call[s], state'[s], metadata'[s])
      BY <1>1, <3>2 DEF CallIsWhole, Busy
    <3> QED
      BY <1>6, <2>2, <3>1, <3>2, <3>3, OneCall
  <2> QED
    BY <2>3, <2>4
<1>8. NoResult \in ResultType /\ NoResult.shared = FALSE /\ NoResult.metadata = 0
  <2>1. kept \in ResultType /\ TRUE \in BOOLEAN
    BY DEF Shape, Types
  <2> QED
    BY <2>1, ResultFields
<1>9. /\ Sharing' /\ result' \in [Sessions -> ResultType] /\ kept' \in ResultType
      /\ result'[s] = NoResult
      /\ \A u \in Sessions : u # s => result'[u] = result[u]
  BY <1>1, <1>8, ReplaceKeepsSharing
<1>10. /\ state' \in [Sessions -> {"NONE", "CREATED", "ACTIVE"}] /\ metadata' \in [Sessions -> Nat]
       /\ state'[s] = "NONE" /\ metadata'[s] = 0
       /\ \A u \in Sessions : u # s => state'[u] = state[u] /\ metadata'[u] = metadata[u]
  BY <1>1, <1>3
<1>11. SessionsAreWhole'
  BY <1>8, <1>9, <1>10 DEF Shape, SessionsAreWhole
<1>12. done' \in Nat /\ queue' \in Seq(NodeType) /\ allocated_bytes' \in Int
  <2>1. <<>> \in Seq(NodeType) /\ 0 \in Nat
    OBVIOUS
  <2>2. done' \in Nat /\ queue' \in Seq(NodeType)
    BY <1>2, <1>3, <2>1, Zenon
  <2> QED
    BY <1>1, <1>3, <2>2
<1> QED
  BY <1>7, <1>9, <1>10, <1>11, <1>12 DEF Shape, Types
(* The result a call installs: the allocations after the session's own.    *)
Installed(s) == SubSeq(call[s].got, Len(Storage(s, call[s])) + 1, Len(call[s].got))
Junk(s) == Dropped(s) \o (IF call[s].op = "metadata" THEN OnHeap(s, metadata[s]) ELSE <<>>)

LEMMA InstallFacts ==
    ASSUME Shape, NEW s \in Sessions, Install(s)
    PROVE  /\ s \in Threads /\ call[s] \in CallType /\ call[s].pc = "install"
           /\ call[s].junk = <<>> /\ call[s].metadata \in Nat
           /\ call[s].op \in {"create", "metadata", "publish"}
           /\ call[s].op = "create" <=> state[s] = "NONE"
           /\ call[s].op = "create" => call[s].metadata = 0
           /\ call[s].op = "publish" => call[s].metadata = metadata[s]
           /\ Storage(s, call[s]) \in Seq(Nat)
           /\ Installed(s) \in Seq(Nat) /\ Installed(s) # <<>>
           /\ call[s].got = Storage(s, call[s]) \o Installed(s)
           /\ Junk(s) \in Seq(Nat)
           /\ result' = [result EXCEPT ![s] = Result(Installed(s), call[s].metadata, FALSE)]
           /\ kept' = KeptAfterDrop(s)
           /\ metadata' = [metadata EXCEPT ![s] = call[s].metadata]
           /\ state' = [state EXCEPT ![s] = CASE call[s].op = "create" -> "CREATED"
                                              [] call[s].op = "publish" -> "ACTIVE"
                                              [] OTHER -> state[s]]
           /\ call' = [call EXCEPT ![s] = IF Junk(s) = <<>> THEN Idle ELSE Freeing("none", Junk(s))]
           /\ UNCHANGED <<allocated_bytes, done, queue>>
<1> DEFINE c == call[s]
           storage == Storage(s, c)
<1>1. s \in Threads /\ c \in CallType /\ CallIsWhole(s, c, state[s], metadata[s])
  BY Constants DEF Shape, Types, CallsAreWhole
<1>2. c.pc = "install"
  BY DEF Install
<1>3. IsWorking(s, c, state[s], metadata[s]) /\ c.todo = <<>>
  BY <1>1, <1>2 DEF CallIsWhole, Busy
<1>4. c.got \in Seq(Nat) /\ c.metadata \in Nat
  BY <1>1, CallFields
<1>5. storage \in Seq(Nat)
  BY <1>4, Constants, ListTypes DEF Storage
<1>6. PICK rest \in Seq(Nat) : rest # <<>> /\ c.got \o c.todo = storage \o rest
  BY <1>3 DEF IsWorking
<1>7. c.got = storage \o rest
  <2>1. c.got \o <<>> = c.got
    BY <1>4, ListsJoin
  <2> QED
    BY <1>3, <1>6, <2>1
<1>8. Installed(s) = rest
  <2>1. SubSeq(storage \o rest, Len(storage) + 1, Len(storage \o rest)) = rest
    BY <1>5, ListsJoin
  <2> QED
    BY <1>7, <2>1 DEF Installed
<1>9. Junk(s) \in Seq(Nat)
  <2>1. /\ Dropped(s) \in Seq(Nat)
        /\ (IF call[s].op = "metadata" THEN OnHeap(s, metadata[s]) ELSE <<>>) \in Seq(Nat)
    <3>1. metadata[s] \in Nat
      BY DEF Shape, Types
    <3> QED
      BY <3>1, DropFacts, ListTypes
  <2> QED
    BY <2>1, ListsJoin DEF Junk
<1>10. result' = [result EXCEPT ![s] = Result(Installed(s), c.metadata, FALSE)]
  BY Zenon DEF Install, Result, Installed, Storage
<1>11. call' = [call EXCEPT ![s] = IF Junk(s) = <<>> THEN Idle ELSE Freeing("none", Junk(s))]
  <2>1. call' = [call EXCEPT ![s] = IF Junk(s) = <<>> THEN Idle
                                    ELSE [Idle EXCEPT !.pc = "free", !.junk = Junk(s)]]
    BY Zenon DEF Install, Junk
  <2> QED
    BY <2>1, FreeRecords, Zenon
<1>12. /\ kept' = KeptAfterDrop(s)
       /\ metadata' = [metadata EXCEPT ![s] = c.metadata]
       /\ state' = [state EXCEPT ![s] = CASE c.op = "create" -> "CREATED"
                                          [] c.op = "publish" -> "ACTIVE"
                                          [] OTHER -> state[s]]
  BY Zenon DEF Install
<1>13. UNCHANGED <<allocated_bytes, done, queue>>
  BY DEF Install
<1> QED
  BY <1>1, <1>2, <1>3, <1>4, <1>5, <1>6, <1>7, <1>8, <1>9, <1>10, <1>11, <1>12, <1>13 DEF IsWorking

LEMMA InstallKeepsShape ==
    ASSUME Shape, NEW s \in Sessions, Install(s)
    PROVE  Shape'
<1> DEFINE c == call[s]
           r == Result(Installed(s), c.metadata, FALSE)
           d == IF Junk(s) = <<>> THEN Idle ELSE Freeing("none", Junk(s))
           next == CASE c.op = "create" -> "CREATED"
                     [] c.op = "publish" -> "ACTIVE"
                     [] OTHER -> state[s]
<1>1. /\ result' = [result EXCEPT ![s] = r] /\ kept' = KeptAfterDrop(s)
      /\ metadata' = [metadata EXCEPT ![s] = c.metadata] /\ state' = [state EXCEPT ![s] = next]
      /\ call' = [call EXCEPT ![s] = d]
      /\ UNCHANGED <<allocated_bytes, done, queue>>
      /\ s \in Threads /\ Junk(s) \in Seq(Nat) /\ c.metadata \in Nat
      /\ Installed(s) \in Seq(Nat) /\ Installed(s) # <<>>
  BY InstallFacts, Zenon
<1>2. c.op \in {"create", "metadata", "publish"} /\ (c.op = "create" <=> state[s] = "NONE")
  BY InstallFacts, Zenon
<1>3. /\ metadata \in [Sessions -> Nat] /\ state \in [Sessions -> {"NONE", "CREATED", "ACTIVE"}]
      /\ done \in Nat /\ queue \in Seq(NodeType) /\ allocated_bytes \in Int
  BY DEF Shape, Types
<1>4. next \in {"CREATED", "ACTIVE"}
  <2>1. CASE c.op = "create"
    BY <2>1
  <2>2. CASE c.op = "publish"
    BY <2>2
  <2>3. CASE c.op = "metadata"
    <3>1. state[s] \in {"CREATED", "ACTIVE"}
      BY <1>2, <1>3, <2>3
    <3> QED
      BY <2>3, <3>1
  <2> QED
    BY <1>2, <2>1, <2>2, <2>3
<1>5. r \in ResultType /\ r.parts # <<>> /\ r.metadata = c.metadata /\ ~r.shared
  BY <1>1 DEF Result, ResultType
<1> HIDE DEF r, next
<1>6. /\ Sharing' /\ result' \in [Sessions -> ResultType] /\ kept' \in ResultType
      /\ result'[s] = r
      /\ \A u \in Sessions : u # s => result'[u] = result[u]
  BY <1>1, <1>5, ReplaceKeepsSharing
<1>7. /\ state' \in [Sessions -> {"NONE", "CREATED", "ACTIVE"}] /\ metadata' \in [Sessions -> Nat]
      /\ state'[s] # "NONE" /\ metadata'[s] = c.metadata
      /\ \A u \in Sessions : u # s => state'[u] = state[u] /\ metadata'[u] = metadata[u]
  BY <1>1, <1>3, <1>4
<1>8. d \in CallType /\ CallIsWhole(s, d, state'[s], metadata'[s])
  BY <1>1, EndIsWhole
<1> HIDE DEF d
<1>9. call' \in [Threads -> CallType] /\ CallsAreWhole'
  BY <1>1, <1>7, <1>8, OneCall
<1>10. SessionsAreWhole'
  BY <1>5, <1>6, <1>7 DEF Shape, SessionsAreWhole
<1> QED
  BY <1>1, <1>3, <1>6, <1>7, <1>9, <1>10 DEF Shape, Types

LEMMA StepKeepsShape ==
    ASSUME Shape, [Next]_vars
    PROVE  Shape'
<1>1. CASE UNCHANGED vars
  BY <1>1 DEF vars, arena, Shape, Types, CallsAreWhole, SessionsAreWhole, Sharing
<1>2. CASE Next
  BY <1>2, BeginKeepsShape, DestroyKeepsShape, InstallKeepsShape, AcquireKeepsShape,
     ReleaseKeepsShape, PushKeepsShape, AnalysisKeepsShape, AllocationKeepsShape,
     DeallocateKeepsShape, Zenon
  DEF Next
<1> QED
  BY <1>1, <1>2

LEMMA ShapeAlways == Spec => []Shape
BY InitShape, StepKeepsShape, PTL DEF Spec
---------------------------------------------------------------------------
(* The accounting.                                                         *)

WorkingOf(c) == Total(c.got) + Total(c.junk)
ReservedOf(c) == IF c.pc = "allocate" THEN Head(c.todo) ELSE 0

WorkingBytes == SumOver([t \in Threads |-> Working(t)])
OwnedBytes == SumOver([s \in Sessions |-> Owned(s)])

WithinLimit == Limit # 0 => allocated_bytes <= Limit
Accounts == BytesAreAccounted /\ WithinLimit

LEMMA CallBytes ==
    ASSUME NEW c \in CallType, c.pc = "allocate" => c.todo # <<>>
    PROVE  /\ WorkingOf(c) \in Nat /\ ReservedOf(c) \in Nat
           /\ Total(c.got) \in Nat /\ Total(c.junk) \in Nat
<1>1. c.got \in Seq(Nat) /\ c.junk \in Seq(Nat) /\ c.todo \in Seq(Nat)
  BY CallFields
<1>2. Total(c.got) \in Nat /\ Total(c.junk) \in Nat
  BY <1>1, TotalType
<1>3. ReservedOf(c) \in Nat
  BY <1>1, TotalTail DEF ReservedOf
<1> QED
  BY <1>2, <1>3 DEF WorkingOf

SumsDiffer(f, g, x) == SumOver(g) + f[x] = SumOver(f) + g[x]

LEMMA SumsChange ==
    ASSUME NEW D, IsFiniteSet(D), NEW f \in [D -> Nat], NEW g \in [D -> Nat],
           NEW x \in D, \A y \in D : y # x => f[y] = g[y]
    PROVE  SumsDiffer(f, g, x)
BY SumChange DEF SumsDiffer

CallBalance(f, g, t, c) ==
    /\ SumOver([u \in Threads |-> WorkingOf(g[u])]) + WorkingOf(f[t])
         = SumOver([u \in Threads |-> WorkingOf(f[u])]) + WorkingOf(c)
    /\ SumOver([u \in Threads |-> ReservedOf(g[u])]) + ReservedOf(f[t])
         = SumOver([u \in Threads |-> ReservedOf(f[u])]) + ReservedOf(c)
    /\ SumOver([u \in Threads |-> WorkingOf(f[u])]) \in Nat
    /\ SumOver([u \in Threads |-> WorkingOf(g[u])]) \in Nat
    /\ SumOver([u \in Threads |-> ReservedOf(f[u])]) \in Nat
    /\ SumOver([u \in Threads |-> ReservedOf(g[u])]) \in Nat

(* A step of one call changes the sums by what it changes there.           *)
LEMMA CallSums ==
    ASSUME NEW f \in [Threads -> CallType], NEW t \in Threads, NEW c \in CallType,
           NEW g, g = [f EXCEPT ![t] = c],
           \A u \in Threads : f[u].pc = "allocate" => f[u].todo # <<>>,
           c.pc = "allocate" => c.todo # <<>>
    PROVE  CallBalance(f, g, t, c)
<1> DEFINE wf == [u \in Threads |-> WorkingOf(f[u])]
           wg == [u \in Threads |-> WorkingOf(g[u])]
           rf == [u \in Threads |-> ReservedOf(f[u])]
           rg == [u \in Threads |-> ReservedOf(g[u])]
<1>1. IsFiniteSet(Threads)
  BY Constants
<1>2. g[t] = c /\ \A u \in Threads : u # t => g[u] = f[u]
  OBVIOUS
<1>3. ASSUME NEW u \in Threads
      PROVE  /\ WorkingOf(f[u]) \in Nat /\ ReservedOf(f[u]) \in Nat
             /\ WorkingOf(g[u]) \in Nat /\ ReservedOf(g[u]) \in Nat
  <2>1. f[u] \in CallType /\ WorkingOf(f[u]) \in Nat /\ ReservedOf(f[u]) \in Nat
    BY CallBytes
  <2>2. CASE u = t
    BY <1>2, <2>1, <2>2, CallBytes
  <2>3. CASE u # t
    BY <1>2, <2>1, <2>3
  <2> QED
    BY <2>2, <2>3
<1>4. /\ wf \in [Threads -> Nat] /\ wg \in [Threads -> Nat]
      /\ rf \in [Threads -> Nat] /\ rg \in [Threads -> Nat]
  BY <1>3
<1>5. /\ wf[t] = WorkingOf(f[t]) /\ wg[t] = WorkingOf(c)
      /\ rf[t] = ReservedOf(f[t]) /\ rg[t] = ReservedOf(c)
      /\ \A u \in Threads : u # t => wf[u] = wg[u]
      /\ \A u \in Threads : u # t => rf[u] = rg[u]
  BY <1>2
<1> HIDE DEF wf, wg, rf, rg
<1>6. SumOver(wg) + wf[t] = SumOver(wf) + wg[t] /\ SumOver(rg) + rf[t] = SumOver(rf) + rg[t]
  <2>1. SumOver(wg) + wf[t] = SumOver(wf) + wg[t]
    <3>1. SumsDiffer(wf, wg, t)
      BY <1>1, <1>4, <1>5, SumsChange
    <3> QED
      BY <3>1 DEF SumsDiffer
  <2>2. SumOver(rg) + rf[t] = SumOver(rf) + rg[t]
    <3>1. SumsDiffer(rf, rg, t)
      BY <1>1, <1>4, <1>5, SumsChange
    <3> QED
      BY <3>1 DEF SumsDiffer
  <2> QED
    BY <2>1, <2>2
<1>7. /\ SumOver(wf) \in Nat /\ SumOver(wg) \in Nat
      /\ SumOver(rf) \in Nat /\ SumOver(rg) \in Nat
  BY <1>1, <1>4, SumType
<1> QED
  BY <1>5, <1>6, <1>7 DEF wf, wg, rf, rg, CallBalance

LEMMA CallAccounts ==
    ASSUME Shape, NEW t \in Threads, NEW c \in CallType, call' = [call EXCEPT ![t] = c],
           c.pc = "allocate" => c.todo # <<>>
    PROVE  /\ WorkingBytes' + WorkingOf(call[t]) = WorkingBytes + WorkingOf(c)
           /\ InFlight' + ReservedOf(call[t]) = InFlight + ReservedOf(c)
           /\ WorkingBytes \in Nat /\ WorkingBytes' \in Nat
           /\ InFlight \in Nat /\ InFlight' \in Nat
<1>1. /\ call \in [Threads -> CallType]
      /\ \A u \in Threads : call[u].pc = "allocate" => call[u].todo # <<>>
  BY DEF Shape, Types, CallsAreWhole, CallIsWhole
<1>2. /\ WorkingBytes = SumOver([u \in Threads |-> WorkingOf(call[u])])
      /\ WorkingBytes' = SumOver([u \in Threads |-> WorkingOf(call'[u])])
      /\ InFlight = SumOver([u \in Threads |-> ReservedOf(call[u])])
      /\ InFlight' = SumOver([u \in Threads |-> ReservedOf(call'[u])])
  BY Zenon DEF WorkingBytes, InFlight, Working, Reserved, Wanted, WorkingOf, ReservedOf
<1>3. CallBalance(call, call', t, c)
  BY <1>1, CallSums
<1> QED
  BY <1>2, <1>3, Zenon DEF CallBalance

OwnedOf(s, parts, size, current) ==
    Total(parts) + Total(OnHeap(s, size))
    + (IF current = "NONE" THEN 0 ELSE Total(OnHeap(s, SessionBytes)))

LEMMA OwnedType ==
    ASSUME NEW s, NEW parts \in Seq(Nat), NEW size \in Nat, NEW current
    PROVE  /\ OwnedOf(s, parts, size, current) \in Nat
           /\ Total(parts) \in Nat /\ Total(OnHeap(s, size)) \in Nat
           /\ Total(OnHeap(s, SessionBytes)) \in Nat /\ Total(OnHeap(s, 0)) = 0
<1>1. OnHeap(s, size) \in Seq(Nat) /\ OnHeap(s, SessionBytes) \in Seq(Nat) /\ OnHeap(s, 0) = <<>>
  BY Constants, ListTypes DEF OnHeap
<1>2. /\ Total(parts) \in Nat /\ Total(OnHeap(s, size)) \in Nat
      /\ Total(OnHeap(s, SessionBytes)) \in Nat /\ Total(OnHeap(s, 0)) = 0
  BY <1>1, TotalType, TotalNil
<1> QED
  BY <1>2 DEF OwnedOf

LEMMA SessionAccounts ==
    ASSUME Shape, NEW s \in Sessions,
           result' \in [Sessions -> ResultType], metadata' \in [Sessions -> Nat],
           \A u \in Sessions :
               u # s => /\ result'[u].parts = result[u].parts
                        /\ metadata'[u] = metadata[u] /\ state'[u] = state[u]
    PROVE  /\ OwnedBytes'
                + OwnedOf(s, result[s].parts, metadata[s], state[s])
                = OwnedBytes + OwnedOf(s, result'[s].parts, metadata'[s], state'[s])
           /\ OwnedBytes \in Nat /\ OwnedBytes' \in Nat
<1> DEFINE f == [u \in Sessions |-> OwnedOf(u, result[u].parts, metadata[u], state[u])]
           g == [u \in Sessions |-> OwnedOf(u, result'[u].parts, metadata'[u], state'[u])]
<1>1. OwnedBytes = SumOver(f) /\ OwnedBytes' = SumOver(g)
  BY Zenon DEF OwnedBytes, Owned, OwnedOf
<1>2. ASSUME NEW u \in Sessions
      PROVE  /\ OwnedOf(u, result[u].parts, metadata[u], state[u]) \in Nat
             /\ OwnedOf(u, result'[u].parts, metadata'[u], state'[u]) \in Nat
  <2>1. /\ result[u].parts \in Seq(Nat) /\ metadata[u] \in Nat
        /\ result'[u].parts \in Seq(Nat) /\ metadata'[u] \in Nat
    BY DEF Shape, Types, ResultType
  <2> QED
    BY <2>1, OwnedType
<1>3. f \in [Sessions -> Nat] /\ g \in [Sessions -> Nat]
  BY <1>2
<1>4. /\ f[s] = OwnedOf(s, result[s].parts, metadata[s], state[s])
      /\ g[s] = OwnedOf(s, result'[s].parts, metadata'[s], state'[s])
      /\ \A u \in Sessions : u # s => f[u] = g[u]
  OBVIOUS
<1>5. IsFiniteSet(Sessions)
  BY Constants
<1> HIDE DEF f, g
<1>6. SumOver(g) + f[s] = SumOver(f) + g[s] /\ SumOver(f) \in Nat /\ SumOver(g) \in Nat
  BY <1>3, <1>4, <1>5, SumChange, SumType
<1> QED
  BY <1>1, <1>4, <1>6

LEMMA SameOwned ==
    ASSUME Shape, UNCHANGED <<result, metadata, state>>
    PROVE  OwnedBytes' = OwnedBytes /\ OwnedBytes \in Nat
<1>1. /\ result' \in [Sessions -> ResultType] /\ metadata' \in [Sessions -> Nat]
      /\ Arena \in Sessions
  BY Constants DEF Shape, Types
<1>2. OwnedBytes \in Nat
  BY <1>1, SessionAccounts
<1>3. OwnedBytes' = OwnedBytes
  BY DEF OwnedBytes, Owned
<1> QED
  BY <1>2, <1>3

LEMMA KeptType ==
    ASSUME Shape
    PROVE  Kept \in Nat /\ Total(kept.parts) \in Nat
<1>1. kept.parts \in Seq(Nat)
  BY DEF Shape, Types, ResultType
<1> QED
  BY <1>1, TotalType DEF Kept

(* A step of one call that moves no bytes of a session or of the           *)
(* application: the counter follows what the call has and has reserved.    *)
LEMMA CallKeepsAccounts ==
    ASSUME Shape, Accounts, NEW t \in Threads, NEW c \in CallType, call' = [call EXCEPT ![t] = c],
           c.pc = "allocate" => c.todo # <<>>, UNCHANGED <<state, metadata, result, kept>>,
           allocated_bytes' - allocated_bytes
             = WorkingOf(c) + ReservedOf(c) - WorkingOf(call[t]) - ReservedOf(call[t]),
           allocated_bytes' \in Int
    PROVE  BytesAreAccounted'
<1>1. /\ WorkingBytes' + WorkingOf(call[t]) = WorkingBytes + WorkingOf(c)
      /\ InFlight' + ReservedOf(call[t]) = InFlight + ReservedOf(c)
      /\ WorkingBytes \in Nat /\ WorkingBytes' \in Nat
      /\ InFlight \in Nat /\ InFlight' \in Nat
  BY CallAccounts
<1>2. OwnedBytes' = OwnedBytes /\ OwnedBytes \in Nat
  BY SameOwned
<1>3. Kept' = Kept /\ Kept \in Nat
  BY KeptType DEF Kept
<1>4. /\ allocated_bytes = WorkingBytes + OwnedBytes + Kept + InFlight
      /\ BytesAreAccounted' <=> allocated_bytes' = WorkingBytes' + OwnedBytes' + Kept' + InFlight'
  BY DEF Accounts, BytesAreAccounted, LiveBytes, WorkingBytes, OwnedBytes
<1>5. call[t] \in CallType /\ (call[t].pc = "allocate" => call[t].todo # <<>>)
  BY DEF Shape, Types, CallsAreWhole, CallIsWhole
<1>6. /\ WorkingOf(call[t]) \in Nat /\ ReservedOf(call[t]) \in Nat
      /\ WorkingOf(c) \in Nat /\ ReservedOf(c) \in Nat
  BY <1>5, CallBytes
<1>7. allocated_bytes \in Int
  BY DEF Shape, Types
<1> DEFINE a == WorkingOf(c)
           b == ReservedOf(c)
           d == WorkingOf(call[t])
           e == ReservedOf(call[t])
<1>8. /\ a \in Nat /\ b \in Nat /\ d \in Nat /\ e \in Nat
      /\ WorkingBytes' + d = WorkingBytes + a /\ InFlight' + e = InFlight + b
      /\ allocated_bytes' - allocated_bytes = a + b - d - e
  BY <1>1, <1>6
<1> HIDE DEF a, b, d, e
<1>9. allocated_bytes' = WorkingBytes' + OwnedBytes' + Kept' + InFlight'
  <2> DEFINE A == allocated_bytes
             B == allocated_bytes'
             U == WorkingBytes
             V == WorkingBytes'
             F == InFlight
             G == InFlight'
             O == OwnedBytes
             K == Kept
  <2>1. /\ A \in Int /\ B \in Int /\ U \in Int /\ V \in Int /\ F \in Int /\ G \in Int
        /\ O \in Int /\ K \in Int
    BY <1>1, <1>2, <1>3, <1>7
  <2>0. /\ A = U + O + K + F /\ V + d = U + a /\ G + e = F + b
        /\ B - A = a + b - d - e
    BY <1>4, <1>8
  <2> HIDE DEF A, B, U, V, F, G, O, K
  <2>2. B = V + O + K + G
    BY <2>0, <2>1, <1>8
  <2> QED
    BY <1>2, <1>3, <2>2 DEF B, V, G, O, K
<1> QED
  BY <1>4, <1>9
(* Bytes of the calls the actions leave.                                   *)
LEMMA NothingWorks ==
    ASSUME NEW c, c.got = <<>>, c.junk = <<>>, c.pc # "allocate"
    PROVE  WorkingOf(c) = 0 /\ ReservedOf(c) = 0
BY TotalNil DEF WorkingOf, ReservedOf

LEMMA IdleBytes ==
    /\ WorkingOf(Idle) = 0 /\ ReservedOf(Idle) = 0
    /\ \A op, todo, size : WorkingOf(Started(op, todo, size)) = 0
                           /\ ReservedOf(Started(op, todo, size)) = 0
    /\ \A op : \A junk \in Seq(Nat) : WorkingOf(Freeing(op, junk)) = Total(junk)
                                      /\ ReservedOf(Freeing(op, junk)) = 0
<1>1. WorkingOf(Idle) = 0 /\ ReservedOf(Idle) = 0
  BY NothingWorks DEF Idle
<1>2. ASSUME NEW op, NEW todo, NEW size
      PROVE  WorkingOf(Started(op, todo, size)) = 0 /\ ReservedOf(Started(op, todo, size)) = 0
  BY NothingWorks DEF Started
<1>3. ASSUME NEW op, NEW junk \in Seq(Nat)
      PROVE  WorkingOf(Freeing(op, junk)) = Total(junk) /\ ReservedOf(Freeing(op, junk)) = 0
  <2> DEFINE c == Freeing(op, junk)
  <2>1. c.got = <<>> /\ c.junk = junk /\ c.pc = "free"
    BY DEF Freeing
  <2> HIDE DEF c
  <2>2. Total(junk) \in Nat
    BY TotalType
  <2>3. WorkingOf(c) = Total(junk) /\ ReservedOf(c) = 0
    BY <2>1, <2>2, TotalNil DEF WorkingOf, ReservedOf
  <2> QED
    BY <2>3 DEF c
<1> QED
  BY <1>1, <1>2, <1>3

LEMMA MovedBytes ==
    ASSUME NEW c \in CallType, NEW p, NEW n
    PROVE  /\ WorkingOf(Moved(c, p, n)) = WorkingOf(c)
           /\ ReservedOf(Moved(c, p, n)) = IF p = "allocate" THEN Head(c.todo) ELSE 0
           /\ Moved(c, p, n).pc = p /\ Moved(c, p, n).todo = c.todo
BY DEF WorkingOf, ReservedOf, Moved

LEMMA TakenBytes ==
    ASSUME NEW c \in CallType, c.pc = "allocate", c.todo # <<>>
    PROVE  /\ WorkingOf(Taken(c)) = WorkingOf(c) + Head(c.todo)
           /\ ReservedOf(Taken(c)) = 0 /\ ReservedOf(c) = Head(c.todo)
           /\ Taken(c).pc # "allocate" /\ Head(c.todo) \in Nat
<1> DEFINE d == Taken(c)
<1>1. c.got \in Seq(Nat) /\ c.todo \in Seq(Nat) /\ c.junk \in Seq(Nat)
  BY CallFields
<1>2. Head(c.todo) \in Nat
  BY <1>1, TotalTail
<1>3. Total(Append(c.got, Head(c.todo))) = Total(c.got) + Head(c.todo)
  BY <1>1, <1>2, TotalAppend
<1>4. Total(c.got) \in Nat /\ Total(c.junk) \in Nat
  BY <1>1, TotalType
<1>5. d.got = Append(c.got, Head(c.todo)) /\ d.junk = c.junk /\ d.pc # "allocate"
  BY DEF Taken
<1> HIDE DEF d
<1>6. WorkingOf(d) = WorkingOf(c) + Head(c.todo)
  BY <1>2, <1>3, <1>4, <1>5 DEF WorkingOf
<1>7. ReservedOf(d) = 0 /\ ReservedOf(c) = Head(c.todo)
  BY <1>5 DEF ReservedOf
<1> QED
  BY <1>2, <1>5, <1>6, <1>7 DEF d

LEMMA RolledBackBytes ==
    ASSUME NEW c \in CallType, c.junk = <<>>
    PROVE  WorkingOf(RolledBack(c)) = WorkingOf(c) /\ ReservedOf(RolledBack(c)) = 0
           /\ RolledBack(c).pc # "allocate"
<1>1. c.got \in Seq(Nat) /\ Total(c.got) \in Nat
  BY CallFields, TotalType
<1>2. WorkingOf(c) = Total(c.got)
  BY <1>1, TotalNil DEF WorkingOf
<1>3. RolledBack(c) = IF c.got = <<>> THEN Idle ELSE Freeing("none", c.got)
  BY RolledBackIsWhole
<1>4. CASE c.got = <<>>
  BY <1>2, <1>3, <1>4, TotalNil, IdleBytes DEF Idle
<1>5. CASE c.got # <<>>
  <2>1. RolledBack(c) = Freeing("none", c.got)
    BY <1>3, <1>5
  <2>2. Freeing("none", c.got).pc = "free"
    BY DEF Freeing
  <2> QED
    BY <1>1, <1>2, <2>1, <2>2, IdleBytes
<1> QED
  BY <1>4, <1>5

(* Beginning a call reserves nothing yet.                                  *)
LEMMA BeginKeepsAccounts ==
    ASSUME Shape, Accounts,
           \/ \E s \in Sessions :
                 \/ Create(s)
                 \/ \E size \in MetadataSizes \cup {0} : SetMetadata(s, size)
                 \/ \E snapshot \in Snapshots : Process(s, snapshot)
           \/ Activate \/ Reserve \/ AnalyseNode \/ EndAnalysis,
           Shape'
    PROVE  Accounts'
<1>1. UNCHANGED <<allocated_bytes, state, metadata, result, kept>>
  BY Zenon DEF Create, SetMetadata, Process, Activate, Reserve, AnalyseNode, EndAnalysis, arena
<1>2. \/ UNCHANGED call
      \/ \E s \in Sessions : \E op, todo, size :
            (call[s].pc = "idle" \/ call[s].pc = "analyse") /\ Start(s, op, todo, size)
      \/ \E n : call[Arena].pc = "idle" /\ call' = [call EXCEPT ![Arena] = Analysing(n)]
      \/ call[Arena].pc = "analyse" /\ call' = [call EXCEPT ![Arena] = Idle]
  <2>1. Arena \in Sessions
    BY Constants
  <2>2. Reserve => \/ UNCHANGED call
                   \/ \E n : call[Arena].pc = "idle" /\ call' = [call EXCEPT ![Arena] = Analysing(n)]
    BY ReserveCall, Zenon DEF Reserve
  <2>3. AnalyseNode => UNCHANGED call
    BY DEF AnalyseNode
  <2>4. Activate => \E op, todo, size : call[Arena].pc = "idle" /\ Start(Arena, op, todo, size)
    BY Zenon DEF Activate
  <2>5. EndAnalysis => /\ call[Arena].pc = "analyse"
                       /\ \/ \E op, todo, size : Start(Arena, op, todo, size)
                          \/ call' = [call EXCEPT ![Arena] = Idle]
    BY Zenon DEF EndAnalysis
  <2>6. ASSUME NEW s \in Sessions,
               \/ Create(s)
               \/ \E size \in MetadataSizes \cup {0} : SetMetadata(s, size)
               \/ \E snapshot \in Snapshots : Process(s, snapshot)
        PROVE  \E op, todo, size : call[s].pc = "idle" /\ Start(s, op, todo, size)
    BY <2>6, Zenon DEF Create, SetMetadata, Process
  <2> QED
    BY <2>1, <2>2, <2>3, <2>4, <2>5, <2>6, Zenon
<1>3. CASE UNCHANGED call
  BY <1>1, <1>3 DEF Accounts, BytesAreAccounted, WithinLimit, LiveBytes, InFlight, Working,
     Owned, Kept, Reserved, Wanted
<1>4. ASSUME NEW s \in Sessions, NEW c, call[s].pc = "idle" \/ call[s].pc = "analyse",
             call' = [call EXCEPT ![s] = c], c.pc # "allocate", WorkingOf(c) = 0, ReservedOf(c) = 0
      PROVE  Accounts'
  <2>2. s \in Threads /\ call[s] \in CallType /\ call[s].got = <<>> /\ call[s].junk = <<>>
    BY <1>4, Constants DEF Shape, Types, CallsAreWhole, CallIsWhole
  <2>4. WorkingOf(call[s]) = 0 /\ ReservedOf(call[s]) = 0
    BY <1>4, <2>2, NothingWorks
  <2>5. c \in CallType
    <3>1. call' \in [Threads -> CallType] /\ call \in [Threads -> CallType]
      BY DEF Shape, Types
    <3> QED
      BY <1>4, <2>2, <3>1
  <2>6. allocated_bytes \in Int /\ allocated_bytes' = allocated_bytes
    BY <1>1 DEF Shape, Types
  <2>7. allocated_bytes' - allocated_bytes
          = WorkingOf(c) + ReservedOf(c) - WorkingOf(call[s]) - ReservedOf(call[s])
    BY <1>4, <2>4, <2>6
  <2>8. BytesAreAccounted'
    BY <1>1, <1>4, <2>2, <2>5, <2>6, <2>7, CallKeepsAccounts
  <2> QED
    BY <2>6, <2>8 DEF Accounts, WithinLimit
<1>5. ASSUME NEW s \in Sessions, NEW op, NEW todo, NEW size,
             call[s].pc = "idle" \/ call[s].pc = "analyse",
             Start(s, op, todo, size)
      PROVE  Accounts'
  <2> DEFINE c == Started(op, todo, size)
  <2>1. call' = [call EXCEPT ![s] = c]
    BY <1>5, StartRecord, Zenon
  <2>2. c.pc # "allocate" /\ WorkingOf(c) = 0 /\ ReservedOf(c) = 0
    BY IdleBytes DEF Started
  <2> HIDE DEF c
  <2> QED
    BY <1>4, <1>5, <2>1, <2>2, Zenon
<1>6. ASSUME NEW n, call[Arena].pc = "idle", call' = [call EXCEPT ![Arena] = Analysing(n)]
      PROVE  Accounts'
  <2> DEFINE c == Analysing(n)
  <2>1. c.got = <<>> /\ c.junk = <<>> /\ c.pc # "allocate"
    BY DEF Analysing
  <2>2. call' = [call EXCEPT ![Arena] = c] /\ call[Arena].pc = "idle" /\ Arena \in Sessions
    BY <1>6, Constants
  <2> HIDE DEF c
  <2>3. WorkingOf(c) = 0 /\ ReservedOf(c) = 0
    BY <2>1, NothingWorks
  <2> QED
    BY <1>4, <2>1, <2>2, <2>3, Zenon
<1>7. ASSUME call[Arena].pc = "analyse", call' = [call EXCEPT ![Arena] = Idle]
      PROVE  Accounts'
  <2>1. Idle.pc # "allocate" /\ WorkingOf(Idle) = 0 /\ ReservedOf(Idle) = 0
    BY IdleBytes DEF Idle
  <2>2. Arena \in Sessions
    BY Constants
  <2> QED
    BY <1>4, <1>7, <2>1, <2>2, Zenon
<1> QED
  BY <1>2, <1>3, <1>5, <1>6, <1>7

(* One allocation: the counter grows with the reservation and shrinks when *)
(* the allocator has none.                                                 *)
LEMMA AllocationKeepsAccounts ==
    ASSUME Shape, Accounts, NEW t \in Threads,
           Load(t) \/ Exchange(t) \/ AllocatorReturns(t) \/ AllocatorFails(t)
    PROVE  Accounts'
<1> DEFINE c == call[t]
           w == Head(c.todo)
<1>1. /\ call \in [Threads -> CallType] /\ c \in CallType /\ allocated_bytes \in Int
      /\ CallIsWhole(t, c, state[t], metadata[t]) /\ Limit \in Nat
      /\ UNCHANGED <<state, metadata, result, kept>>
  BY Constants DEF Shape, Types, CallsAreWhole, Load, Exchange, AllocatorReturns, AllocatorFails
<1>2. c.pc \in {"load", "exchange", "allocate"} /\ Wanted(t) = w
  BY DEF Load, Exchange, AllocatorReturns, AllocatorFails, Wanted
<1> HIDE DEF c
<1>3. c.todo # <<>> /\ c.todo \in Seq(Nat) /\ c.junk = <<>>
  BY <1>1, <1>2, CallFields DEF CallIsWhole, IsWorking, Busy
<1>4. w \in Nat
  BY <1>3, TotalTail
<1>5. WorkingOf(c) \in Nat /\ ReservedOf(c) = IF c.pc = "allocate" THEN w ELSE 0
  BY <1>1, <1>3, CallBytes DEF ReservedOf
<1> HIDE DEF w
<1>6. ASSUME NEW d \in CallType, call' = [call EXCEPT ![t] = d], d.pc = "allocate" => d.todo # <<>>,
             NEW delta \in Int, allocated_bytes' = allocated_bytes + delta,
             WorkingOf(d) \in Nat, ReservedOf(d) \in Nat,
             WorkingOf(d) + ReservedOf(d) = WorkingOf(c) + ReservedOf(c) + delta
      PROVE  BytesAreAccounted'
  <2>1. allocated_bytes' \in Int /\ ReservedOf(c) \in Nat
    BY <1>1, <1>4, <1>5, <1>6
  <2>2. allocated_bytes' - allocated_bytes = WorkingOf(d) + ReservedOf(d) - WorkingOf(c) - ReservedOf(c)
    BY <1>1, <1>5, <1>6, <2>1
  <2> QED
    BY <1>1, <1>6, <2>1, <2>2, CallKeepsAccounts DEF c
<1>7. ASSUME NEW p \in {"exchange", "allocate"}, NEW n \in Int, c.pc \in {"load", "exchange"},
             call' = [call EXCEPT ![t] = Moved(c, p, n)],
             p = "allocate" => allocated_bytes' = allocated_bytes + w,
             p = "exchange" => allocated_bytes' = allocated_bytes
      PROVE  BytesAreAccounted'
  <2> DEFINE d == Moved(c, p, n)
             delta == IF p = "allocate" THEN w ELSE 0
  <2>1. d \in CallType
    BY <1>1, <1>7, MovedIsWhole
  <2>2. WorkingOf(d) = WorkingOf(c) /\ ReservedOf(d) = delta /\ d.todo # <<>>
    BY <1>1, <1>3, MovedBytes DEF w
  <2>3. ReservedOf(c) = 0 /\ delta \in Nat
    BY <1>4, <1>5, <1>7
  <2>4. call' = [call EXCEPT ![t] = d] /\ allocated_bytes' = allocated_bytes + delta
    BY <1>1, <1>7
  <2> HIDE DEF d, delta
  <2>5. WorkingOf(d) + ReservedOf(d) = WorkingOf(c) + ReservedOf(c) + delta
        /\ WorkingOf(d) \in Nat /\ ReservedOf(d) \in Nat /\ delta \in Int
    BY <1>5, <2>2, <2>3
  <2> QED
    BY <1>6, <2>1, <2>2, <2>4, <2>5
<1>8. ASSUME Refused(t), NEW delta \in Int, delta = 0 - ReservedOf(c),
             allocated_bytes' = allocated_bytes + delta
      PROVE  BytesAreAccounted'
  <2> DEFINE d == RolledBack(c)
  <2>1. call' = [call EXCEPT ![t] = d]
    BY <1>8 DEF Refused, c
  <2>2. d \in CallType
    BY <1>1, RolledBackIsWhole
  <2>3. WorkingOf(d) = WorkingOf(c) /\ ReservedOf(d) = 0 /\ d.pc # "allocate"
    BY <1>1, <1>3, RolledBackBytes
  <2> HIDE DEF d
  <2>4. ReservedOf(c) \in Nat
    BY <1>4, <1>5
  <2>5. WorkingOf(d) + ReservedOf(d) = WorkingOf(c) + ReservedOf(c) + delta
        /\ WorkingOf(d) \in Nat /\ ReservedOf(d) \in Nat
    BY <1>5, <1>8, <2>3, <2>4
  <2> QED
    BY <1>6, <1>8, <2>1, <2>2, <2>3, <2>5
<1>9. CASE Load(t)
  <2>1. c.pc = "load" /\ ReservedOf(c) = 0
    BY <1>5, <1>9 DEF Load, c
  <2>2. CASE Limit = 0
    <3>1. /\ allocated_bytes' = allocated_bytes + w
          /\ call' = [call EXCEPT ![t] = SetPc(call[t], "allocate")]
      BY <1>2, <1>9, <2>2 DEF Load, SetPc
    <3>2. call' = [call EXCEPT ![t] = Moved(c, "allocate", c.seen)] /\ c.seen \in Int
      BY <1>1, <3>1, Updates, CallFields DEF c
    <3>3. BytesAreAccounted'
      BY <1>7, <2>1, <3>1, <3>2
    <3> QED
      BY <2>2, <3>3 DEF Accounts, WithinLimit
  <2>3. CASE Limit # 0 /\ Wanted(t) > Limit
    <3>1. Refused(t) /\ allocated_bytes' = allocated_bytes
      BY <1>9, <2>3 DEF Load
    <3>2. BytesAreAccounted'
      BY <1>1, <1>8, <2>1, <3>1
    <3> QED
      BY <3>1, <3>2 DEF Accounts, WithinLimit
  <2>4. CASE Limit # 0 /\ ~(Wanted(t) > Limit)
    <3>1. /\ allocated_bytes' = allocated_bytes
          /\ call' = [call EXCEPT ![t] = SetSeen(SetPc(call[t], "exchange"), allocated_bytes)]
      BY <1>9, <2>4 DEF Load, SetPc, SetSeen
    <3>2. call' = [call EXCEPT ![t] = Moved(c, "exchange", allocated_bytes)]
      BY <1>1, <3>1, Updates DEF c
    <3>3. BytesAreAccounted'
      BY <1>1, <1>7, <2>1, <3>1, <3>2
    <3> QED
      BY <3>1, <3>3 DEF Accounts, WithinLimit
  <2> QED
    BY <2>2, <2>3, <2>4
<1>10. CASE Exchange(t)
  <2>1. c.pc = "exchange" /\ ReservedOf(c) = 0
    BY <1>5, <1>10 DEF Exchange, c
  <2>2. CASE c.seen > Limit - w
    <3>1. Refused(t) /\ allocated_bytes' = allocated_bytes
      BY <1>2, <1>10, <2>2 DEF Exchange, c
    <3>2. BytesAreAccounted'
      BY <1>1, <1>8, <2>1, <3>1
    <3> QED
      BY <3>1, <3>2 DEF Accounts, WithinLimit
  <2>3. CASE ~(c.seen > Limit - w) /\ c.seen = allocated_bytes
    <3>1. /\ allocated_bytes' = allocated_bytes + w
          /\ call' = [call EXCEPT ![t] = SetSeen(SetPc(call[t], "allocate"), 0)]
      BY <1>2, <1>10, <2>3 DEF Exchange, SetPc, SetSeen, c
    <3>2. call' = [call EXCEPT ![t] = Moved(c, "allocate", 0)]
      BY <1>1, <3>1, Updates DEF c
    <3>3. BytesAreAccounted'
      <4>1. 0 \in Int /\ "allocate" \in {"exchange", "allocate"} /\ "allocate" # "exchange"
        OBVIOUS
      <4> QED
        BY <1>7, <2>1, <3>1, <3>2, <4>1
    <3>4. allocated_bytes' <= Limit
      BY <1>1, <1>4, <2>3, <3>1
    <3> QED
      BY <3>3, <3>4 DEF Accounts, WithinLimit
  <2>4. CASE ~(c.seen > Limit - w) /\ c.seen # allocated_bytes
    <3>1. /\ allocated_bytes' = allocated_bytes
          /\ call' = [call EXCEPT ![t] = SetSeen(call[t], allocated_bytes)]
      BY <1>2, <1>10, <2>4 DEF Exchange, SetSeen, c
    <3>2. call' = [call EXCEPT ![t] = Moved(c, "exchange", allocated_bytes)]
      BY <1>1, <2>1, <3>1, Updates DEF c
    <3>3. BytesAreAccounted'
      BY <1>1, <1>7, <2>1, <3>1, <3>2
    <3> QED
      BY <3>1, <3>3 DEF Accounts, WithinLimit
  <2> QED
    BY <2>2, <2>3, <2>4
<1>11. CASE AllocatorReturns(t)
  <2> DEFINE d == Taken(c)
  <2>1. c.pc = "allocate" /\ allocated_bytes' = allocated_bytes + 0
    BY <1>1, <1>11 DEF AllocatorReturns, c
  <2>2. call' = [call EXCEPT ![t] = d]
    BY <1>1, <1>11, TakeRecord DEF c
  <2>3. /\ WorkingOf(d) = WorkingOf(c) + w /\ ReservedOf(d) = 0 /\ ReservedOf(c) = w
        /\ d.pc # "allocate"
    BY <1>1, <1>3, <2>1, TakenBytes DEF w
  <2>4. d \in CallType
    BY <1>1, <2>1, TakenIsWhole
  <2> HIDE DEF d
  <2>5. WorkingOf(d) + ReservedOf(d) = WorkingOf(c) + ReservedOf(c) + 0
        /\ WorkingOf(d) \in Nat /\ ReservedOf(d) \in Nat
    BY <1>4, <1>5, <2>3
  <2>6. BytesAreAccounted'
    <3>1. 0 \in Int
      OBVIOUS
    <3> QED
      BY <1>6, <2>1, <2>2, <2>3, <2>4, <2>5, <3>1, Zenon
  <2> QED
    BY <1>1, <2>1, <2>6 DEF Accounts, WithinLimit
<1>12. CASE AllocatorFails(t)
  <2>1. c.pc = "allocate" /\ Refused(t) /\ allocated_bytes' = allocated_bytes - w
    BY <1>2, <1>12 DEF AllocatorFails, c
  <2>2. ReservedOf(c) = w
    BY <1>5, <2>1
  <2> DEFINE delta == 0 - w
  <2>3. delta \in Int /\ delta = 0 - ReservedOf(c) /\ allocated_bytes' = allocated_bytes + delta
    BY <1>1, <1>4, <2>1, <2>2
  <2> HIDE DEF delta
  <2>4. BytesAreAccounted'
    BY <1>8, <2>1, <2>3
  <2>5. WithinLimit'
    BY <1>1, <1>4, <2>1 DEF Accounts, WithinLimit
  <2> QED
    BY <2>4, <2>5 DEF Accounts
<1> QED
  BY <1>9, <1>10, <1>11, <1>12

LEMMA DeallocateKeepsAccounts ==
    ASSUME Shape, Accounts, NEW t \in Threads, Deallocate(t)
    PROVE  Accounts'
<1> DEFINE c == call[t]
           d == IF Len(c.junk) = 1 THEN Idle ELSE Shortened(c)
           w == Head(c.junk)
<1>1. /\ call \in [Threads -> CallType] /\ c \in CallType /\ allocated_bytes \in Int
      /\ CallIsWhole(t, c, state[t], metadata[t]) /\ Limit \in Nat
  BY Constants DEF Shape, Types, CallsAreWhole
<1>2. /\ c.pc = "free" /\ allocated_bytes' = allocated_bytes - w
      /\ UNCHANGED <<state, metadata, result, kept>>
  BY DEF Deallocate
<1>3. call' = [call EXCEPT ![t] = d] /\ d \in CallType
  BY DeallocateRecord
<1> HIDE DEF c, d
<1>4. c.junk \in Seq(Nat) /\ c.junk # <<>> /\ c.got = <<>>
  BY <1>1, <1>2, CallFields DEF CallIsWhole
<1>5. /\ w \in Nat /\ Tail(c.junk) \in Seq(Nat) /\ Total(c.junk) = w + Total(Tail(c.junk))
      /\ (Len(c.junk) = 1 <=> Tail(c.junk) = <<>>)
  BY <1>4, ListsMove, ListTypes, TotalTail
<1>6. Total(Tail(c.junk)) \in Nat
  BY <1>5, TotalType
<1> HIDE DEF w
<1>7. WorkingOf(c) = w + Total(Tail(c.junk)) /\ ReservedOf(c) = 0
  BY <1>2, <1>4, <1>5, <1>6, TotalNil DEF WorkingOf, ReservedOf
<1>8. WorkingOf(d) = Total(Tail(c.junk)) /\ ReservedOf(d) = 0 /\ d.pc # "allocate"
  <2>1. CASE Len(c.junk) = 1
    BY <1>5, <2>1, TotalNil, IdleBytes DEF d, Idle
  <2>2. CASE Len(c.junk) # 1
    <3> DEFINE e == Shortened(c)
    <3>1. e.pc = "free" /\ e.got = <<>> /\ e.junk = Tail(c.junk)
      BY <1>2, <1>4 DEF Shortened
    <3>2. e = d
      BY <2>2 DEF d
    <3> HIDE DEF e
    <3> QED
      BY <1>6, <3>1, <3>2, TotalNil DEF WorkingOf, ReservedOf
  <2> QED
    BY <2>1, <2>2
<1>9. allocated_bytes' - allocated_bytes = WorkingOf(d) + ReservedOf(d) - WorkingOf(c) - ReservedOf(c)
      /\ allocated_bytes' \in Int
  <2>1. ASSUME NEW a \in Int, NEW x \in Nat, NEW y \in Nat
        PROVE  (a - x) - a = y + 0 - (x + y) - 0 /\ a - x \in Int
    OBVIOUS
  <2>2. /\ (allocated_bytes - w) - allocated_bytes
             = Total(Tail(c.junk)) + 0 - (w + Total(Tail(c.junk))) - 0
        /\ allocated_bytes - w \in Int
    BY <1>1, <1>5, <1>6, <2>1, Zenon
  <2> QED
    BY <1>2, <1>7, <1>8, <2>2, Zenon
<1>10. BytesAreAccounted'
  BY <1>1, <1>2, <1>3, <1>8, <1>9, CallKeepsAccounts DEF c
<1>11. WithinLimit'
  BY <1>1, <1>2, <1>5 DEF Accounts, WithinLimit
<1> QED
  BY <1>10, <1>11 DEF Accounts
LEMMA AcquireKeepsAccounts ==
    ASSUME Shape, Accounts, NEW s \in Watched, Acquire(s), Shape'
    PROVE  Accounts'
<1>1. s \in Sessions /\ UNCHANGED <<allocated_bytes, call, state, metadata>>
  BY ContextAssumption DEF Acquire
<1>2. result' = [result EXCEPT ![s] = SetShared(result[s], TRUE)]
      /\ kept' = SetShared(result[s], TRUE) /\ kept = NoResult
  BY DEF Acquire, SetShared
<1>3. /\ result \in [Sessions -> ResultType] /\ result[s] \in ResultType
      /\ result' \in [Sessions -> ResultType] /\ metadata' \in [Sessions -> Nat]
  BY <1>1 DEF Shape, Types
<1>4. SetShared(result[s], TRUE).parts = result[s].parts /\ kept'.shared /\ ~kept.shared
      /\ kept.parts = <<>>
  <2>1. TRUE \in BOOLEAN
    OBVIOUS
  <2> QED
    BY <1>2, <1>3, <2>1, ResultFields
<1>5. \A u \in Sessions : result'[u].parts = result[u].parts
  BY <1>2, <1>3, <1>4
<1>6. Kept = 0 /\ Kept' = 0
  BY <1>4, TotalNil DEF Kept
<1>7. OwnedBytes' = OwnedBytes
  BY <1>1, <1>5, Zenon DEF OwnedBytes, Owned
<1>8. WorkingBytes' = WorkingBytes /\ InFlight' = InFlight
  BY <1>1 DEF WorkingBytes, Working, InFlight, Reserved, Wanted
<1>9. BytesAreAccounted'
  BY <1>1, <1>6, <1>7, <1>8 DEF Accounts, BytesAreAccounted, LiveBytes, OwnedBytes, WorkingBytes
<1> QED
  BY <1>1, <1>9 DEF Accounts, WithinLimit

LEMMA ReleaseKeepsAccounts ==
    ASSUME Shape, Accounts, ReleaseResult, Shape'
    PROVE  Accounts'
<1>1. UNCHANGED <<allocated_bytes, state, metadata>> /\ kept' = NoResult
  BY DEF ReleaseResult
<1>2. /\ result \in [Sessions -> ResultType] /\ kept \in ResultType /\ allocated_bytes \in Int
      /\ call \in [Threads -> CallType]
  BY DEF Shape, Types
<1>3. Kept' = 0
  BY <1>1, TotalNil DEF Kept, NoResult
<1>4. CASE kept.shared
  <2>1. result' = [s \in Sessions |-> SetShared(result[s], FALSE)] /\ UNCHANGED call
    BY <1>4 DEF ReleaseResult, SetShared
  <2>2. ASSUME NEW s \in Sessions PROVE result'[s].parts = result[s].parts
    <3>1. result[s] \in ResultType /\ FALSE \in BOOLEAN
      BY <1>2
    <3>2. SetShared(result[s], FALSE).parts = result[s].parts
      BY <3>1, ResultFields
    <3> QED
      BY <2>1, <3>2
  <2>3. OwnedBytes' = OwnedBytes
    BY <1>1, <2>2, Zenon DEF OwnedBytes, Owned
  <2>4. WorkingBytes' = WorkingBytes /\ InFlight' = InFlight
    BY <2>1 DEF WorkingBytes, Working, InFlight, Reserved, Wanted
  <2>5. Kept = 0
    BY <1>4 DEF Kept
  <2>6. BytesAreAccounted'
    BY <1>1, <1>3, <2>3, <2>4, <2>5
    DEF Accounts, BytesAreAccounted, LiveBytes, OwnedBytes, WorkingBytes
  <2> QED
    BY <1>1, <2>6 DEF Accounts, WithinLimit
<1>5. CASE ~kept.shared
  <2> DEFINE t == Application
             c == Freeing("release", kept.parts)
  <2>1. call' = [call EXCEPT ![t] =
                    [Idle EXCEPT !.pc = "free", !.op = "release", !.junk = kept.parts]]
        /\ UNCHANGED result /\ call[t].pc = "idle"
    BY <1>5 DEF ReleaseResult
  <2>2. call' = [call EXCEPT ![t] = c] /\ t \in Threads
    BY <2>1, FreeRecords, Constants, Zenon
  <2>3. kept.parts \in Seq(Nat) /\ Kept = Total(kept.parts)
    BY <1>2, <1>5 DEF ResultType, Kept
  <2>4. WorkingOf(c) = Kept /\ ReservedOf(c) = 0 /\ c.pc = "free"
    BY <2>3, IdleBytes DEF Freeing
  <2>5. WorkingOf(call[t]) = 0 /\ ReservedOf(call[t]) = 0
    BY <2>1, <2>2, NothingWorks DEF Shape, CallsAreWhole, CallIsWhole
  <2>6. c \in CallType
    <3>1. call' \in [Threads -> CallType]
      BY DEF Shape, Types
    <3> HIDE DEF c
    <3> QED
      BY <1>2, <2>2, <3>1
  <2> HIDE DEF c
  <2>7. /\ WorkingBytes' + WorkingOf(call[t]) = WorkingBytes + WorkingOf(c)
        /\ InFlight' + ReservedOf(call[t]) = InFlight + ReservedOf(c)
        /\ WorkingBytes \in Nat /\ WorkingBytes' \in Nat
        /\ InFlight \in Nat /\ InFlight' \in Nat
    BY <2>2, <2>4, <2>6, CallAccounts
  <2>8. OwnedBytes' = OwnedBytes /\ OwnedBytes \in Nat /\ Kept \in Nat
    BY <1>1, <2>1, SameOwned, KeptType
  <2>9. WorkingBytes' = WorkingBytes + Kept /\ InFlight' = InFlight
    BY <2>4, <2>5, <2>7
  <2>10. allocated_bytes = WorkingBytes + OwnedBytes + Kept + InFlight
    BY DEF Accounts, BytesAreAccounted, LiveBytes, OwnedBytes, WorkingBytes
  <2>11. allocated_bytes' = WorkingBytes' + OwnedBytes' + Kept' + InFlight'
    <3>1. allocated_bytes' = (WorkingBytes + Kept) + OwnedBytes + 0 + InFlight
      BY <1>1, <1>2, <2>7, <2>8, <2>10
    <3> QED
      BY <1>3, <2>8, <2>9, <3>1
  <2>12. BytesAreAccounted'
    BY <2>11 DEF BytesAreAccounted, LiveBytes, OwnedBytes, WorkingBytes
  <2> QED
    BY <1>1, <2>12 DEF Accounts, WithinLimit
<1> QED
  BY <1>4, <1>5

(* Giving up the session's reference moves the bytes to the list of what   *)
(* is to be freed, or to the application.                                  *)
LEMMA DropBytes ==
    ASSUME Shape, NEW s \in Sessions, kept' = KeptAfterDrop(s)
    PROVE  /\ Total(Dropped(s)) + Kept' = Total(result[s].parts) + Kept
           /\ Total(Dropped(s)) \in Nat /\ Total(result[s].parts) \in Nat
           /\ Kept \in Nat /\ Kept' \in Nat
<1>1. /\ Dropped(s) \in Seq(Nat) /\ kept'.parts = kept.parts
      /\ ~result[s].shared => kept' = kept
      /\ result[s].shared => ~kept'.shared
  BY DropFacts
<1>2. result[s].parts \in Seq(Nat) /\ kept.parts \in Seq(Nat)
  BY DEF Shape, Types, ResultType
<1>3. /\ Total(Dropped(s)) \in Nat /\ Total(result[s].parts) \in Nat /\ Total(kept.parts) \in Nat
  BY <1>1, <1>2, TotalType
<1>4. CASE result[s].shared
  <2>1. kept = result[s] /\ Dropped(s) = <<>>
    BY <1>4 DEF Shape, Sharing, Dropped
  <2>2. Kept = 0 /\ Kept' = Total(kept.parts)
    BY <1>1, <1>4, <2>1 DEF Kept
  <2> QED
    BY <1>3, <2>1, <2>2, TotalNil
<1>5. CASE ~result[s].shared
  <2>1. Dropped(s) = result[s].parts /\ Kept' = Kept
    BY <1>1, <1>5 DEF Dropped, Kept
  <2>2. Kept \in Nat
    BY <1>3 DEF Kept
  <2> QED
    BY <1>3, <2>1, <2>2
<1> QED
  BY <1>4, <1>5
LEMMA Balance ==
    ASSUME NEW U \in Nat, NEW V \in Nat, NEW O \in Nat, NEW N \in Nat, NEW K \in Nat,
           NEW L \in Nat, NEW w \in Nat, NEW v \in Nat, NEW b \in Nat, NEW a \in Nat,
           NEW d \in Nat, NEW p \in Nat,
           V + w = U + v, N + b = O + a, d + L = p + K, v + a + p = w + b + d
    PROVE  U + O + K = V + N + L
OBVIOUS

(* A session's step that neither allocates nor frees: what it moves        *)
(* between its call, its storage and the application balances.             *)
LEMMA SessionKeepsAccounts ==
    ASSUME Shape, Accounts, Shape', NEW s \in Sessions, NEW c \in CallType,
           call' = [call EXCEPT ![s] = c], c.pc # "allocate", call[s].pc # "allocate",
           kept' = KeptAfterDrop(s), UNCHANGED allocated_bytes,
           \A u \in Sessions :
               u # s => /\ result'[u] = result[u]
                        /\ metadata'[u] = metadata[u] /\ state'[u] = state[u],
           NEW before, before = OwnedOf(s, result[s].parts, metadata[s], state[s]),
           NEW after, after = OwnedOf(s, result'[s].parts, metadata'[s], state'[s]),
           WorkingOf(c) + after + Total(result[s].parts)
             = WorkingOf(call[s]) + before + Total(Dropped(s))
    PROVE  Accounts'
<1> DEFINE w == WorkingOf(call[s])
           v == WorkingOf(c)
           p == Total(result[s].parts)
           d == Total(Dropped(s))
<1>1. s \in Threads /\ call[s] \in CallType
  BY Constants DEF Shape, Types
<1>2. ReservedOf(c) = 0 /\ ReservedOf(call[s]) = 0 /\ w \in Nat /\ v \in Nat
  BY <1>1, CallBytes DEF ReservedOf
<1>3. /\ WorkingBytes' + w = WorkingBytes + v /\ InFlight' + ReservedOf(call[s]) = InFlight + ReservedOf(c)
      /\ WorkingBytes \in Nat /\ WorkingBytes' \in Nat
      /\ InFlight \in Nat /\ InFlight' \in Nat
  BY <1>1, CallAccounts
<1>4. InFlight' = InFlight
  BY <1>2, <1>3
<1>5. /\ result' \in [Sessions -> ResultType] /\ metadata' \in [Sessions -> Nat]
      /\ result[s].parts \in Seq(Nat) /\ metadata[s] \in Nat
      /\ result'[s].parts \in Seq(Nat) /\ metadata'[s] \in Nat
  BY DEF Shape, Types, ResultType
<1>6. /\ OwnedBytes' + before = OwnedBytes + after
      /\ OwnedBytes \in Nat /\ OwnedBytes' \in Nat
  BY <1>5, SessionAccounts
<1>7. before \in Nat /\ after \in Nat
  BY <1>5, OwnedType
<1>8. d + Kept' = p + Kept /\ d \in Nat /\ p \in Nat /\ Kept \in Nat /\ Kept' \in Nat
  BY DropBytes
<1>9. v + after + p = w + before + d
  OBVIOUS
<1> HIDE DEF w, v, p, d
<1>10. WorkingBytes + OwnedBytes + Kept = WorkingBytes' + OwnedBytes' + Kept'
  <2> DEFINE U == WorkingBytes
             V == WorkingBytes'
             O == OwnedBytes
             N == OwnedBytes'
             K == Kept
             L == Kept'
  <2>1. /\ U \in Nat /\ V \in Nat /\ O \in Nat /\ N \in Nat /\ K \in Nat /\ L \in Nat
        /\ V + w = U + v /\ N + before = O + after /\ d + L = p + K
    BY <1>3, <1>6, <1>8
  <2> HIDE DEF U, V, O, N, K, L
  <2>2. U + O + K = V + N + L
    BY <1>2, <1>7, <1>8, <1>9, <2>1, Balance
  <2> QED
    BY <2>2 DEF U, V, O, N, K, L
<1>11. BytesAreAccounted'
  BY <1>4, <1>10 DEF Accounts, BytesAreAccounted, LiveBytes, OwnedBytes, WorkingBytes
<1> QED
  BY <1>11 DEF Accounts, WithinLimit

LEMMA EndBytes ==
    ASSUME NEW op, NEW junk \in Seq(Nat), NEW c, c = IF junk = <<>> THEN Idle ELSE Freeing(op, junk)
    PROVE  WorkingOf(c) = Total(junk) /\ c.pc # "allocate"
<1>1. CASE junk = <<>>
  BY <1>1, IdleBytes, TotalNil DEF Idle
<1>2. CASE junk # <<>>
  <2>1. c = Freeing(op, junk)
    BY <1>2
  <2> QED
    BY <2>1, IdleBytes DEF Freeing
<1> QED
  BY <1>1, <1>2

LEMMA DestroyKeepsAccounts ==
    ASSUME Shape, Accounts, NEW s \in Sessions, Destroy(s), Shape'
    PROVE  Accounts'
<1> DEFINE x == OnHeap(s, metadata[s])
           y == OnHeap(s, SessionBytes)
           junk == Dropped(s) \o x \o y
           c == IF junk = <<>> THEN Idle ELSE Freeing("destroy", junk)
<1>1. /\ result' = [result EXCEPT ![s] = NoResult] /\ kept' = KeptAfterDrop(s)
      /\ state' = [state EXCEPT ![s] = "NONE"] /\ metadata' = [metadata EXCEPT ![s] = 0]
      /\ call[s].pc = "idle" /\ UNCHANGED allocated_bytes /\ state[s] # "NONE"
  BY Zenon DEF Destroy
<1>2. call' = IF junk = <<>> THEN call
              ELSE [call EXCEPT ![s] = [Idle EXCEPT !.pc = "free", !.op = "destroy", !.junk = junk]]
  BY Zenon DEF Destroy
<1>3. /\ result \in [Sessions -> ResultType] /\ metadata \in [Sessions -> Nat]
      /\ state \in [Sessions -> {"NONE", "CREATED", "ACTIVE"}]
      /\ call \in [Threads -> CallType] /\ s \in Threads
      /\ result[s].parts \in Seq(Nat) /\ metadata[s] \in Nat
  BY Constants DEF Shape, Types, ResultType
<1>4. /\ \A u \in Sessions : u # s => /\ result'[u] = result[u]
                                      /\ metadata'[u] = metadata[u] /\ state'[u] = state[u]
      /\ result'[s].parts = <<>> /\ metadata'[s] = 0 /\ state'[s] = "NONE"
  BY <1>1, <1>3 DEF NoResult
<1>5. /\ Dropped(s) \in Seq(Nat) /\ x \in Seq(Nat) /\ y \in Seq(Nat)
  BY <1>3, DropFacts, Constants, ListTypes
<1>6. Dropped(s) \o x \in Seq(Nat) /\ junk \in Seq(Nat)
  <2>1. Dropped(s) \o x \in Seq(Nat)
    BY <1>5, ListsJoin
  <2> QED
    BY <1>5, <2>1, ListsJoin
<1>7. Total(junk) = Total(Dropped(s)) + Total(x) + Total(y)
  <2> HIDE DEF x, y
  <2>1. Total(Dropped(s) \o x) = Total(Dropped(s)) + Total(x)
    BY <1>5, TotalConcat
  <2>2. Total(junk) = Total(Dropped(s) \o x) + Total(y)
    BY <1>5, <1>6, TotalConcat
  <2> QED
    BY <2>1, <2>2
<1> DEFINE p == Total(result[s].parts)
           before == OwnedOf(s, result[s].parts, metadata[s], state[s])
           after == OwnedOf(s, result'[s].parts, metadata'[s], state'[s])
<1>8. before = p + Total(x) + Total(y) /\ after = 0
  <2>1. before = p + Total(x) + Total(y)
    BY <1>1 DEF OwnedOf
  <2>2. Total(OnHeap(s, 0)) = 0
    BY TotalNil DEF OnHeap
  <2> QED
    BY <1>4, <2>1, <2>2, TotalNil DEF OwnedOf
<1>9. WorkingOf(call[s]) = 0
  BY <1>1, <1>3, NothingWorks DEF Shape, CallsAreWhole, CallIsWhole
<1>10. Total(x) \in Nat /\ Total(y) \in Nat /\ p \in Nat /\ Total(Dropped(s)) \in Nat
  BY <1>3, <1>5, TotalType
<1> HIDE DEF x, y, p, before, after, junk
<1>11. PICK d \in CallType : /\ call' = [call EXCEPT ![s] = d] /\ d.pc # "allocate"
                             /\ WorkingOf(d) = Total(junk)
  <2>1. CASE junk = <<>>
    <3>1. call' = [call EXCEPT ![s] = call[s]] /\ call[s] \in CallType
      BY <1>2, <1>3, <2>1
    <3>2. WorkingOf(call[s]) = Total(junk) /\ call[s].pc # "allocate"
      BY <1>1, <1>9, <2>1, TotalNil
    <3> QED
      BY <3>1, <3>2
  <2>2. CASE junk # <<>>
    <3>1. call' = [call EXCEPT ![s] = c]
      BY <1>2, <2>2, FreeRecords, Zenon
    <3>2. c \in CallType /\ WorkingOf(c) = Total(junk) /\ c.pc # "allocate"
      <4>1. "destroy" \in {"none", "release", "destroy"}
        OBVIOUS
      <4>2. c \in CallType
        BY <1>6, <4>1, EndIsWhole
      <4> QED
        BY <1>6, <4>2, EndBytes
    <3> QED
      BY <3>1, <3>2
  <2> QED
    BY <2>1, <2>2
<1>12. WorkingOf(d) + after + p = WorkingOf(call[s]) + before + Total(Dropped(s))
  BY <1>7, <1>8, <1>9, <1>10, <1>11
<1>13. call[s].pc # "allocate"
  BY <1>1
<1>14. /\ before = OwnedOf(s, result[s].parts, metadata[s], state[s])
       /\ after = OwnedOf(s, result'[s].parts, metadata'[s], state'[s])
       /\ p = Total(result[s].parts)
  BY DEF before, after, p
<1>15. /\ WorkingOf(d) + after + Total(result[s].parts)
            = WorkingOf(call[s]) + before + Total(Dropped(s))
       /\ UNCHANGED allocated_bytes /\ kept' = KeptAfterDrop(s)
       /\ call' = [call EXCEPT ![s] = d] /\ d.pc # "allocate"
       /\ \A u \in Sessions : u # s => /\ result'[u] = result[u]
                                      /\ metadata'[u] = metadata[u] /\ state'[u] = state[u]
  BY <1>1, <1>4, <1>11, <1>12, <1>14
<1> QED
  BY <1>13, <1>14, <1>15, SessionKeepsAccounts, Zenon
LEMMA InstallKeepsAccounts ==
    ASSUME Shape, Accounts, NEW s \in Sessions, Install(s), Shape'
    PROVE  Accounts'
<1> DEFINE c == call[s]
           x == OnHeap(s, metadata[s])
           z == OnHeap(s, c.metadata)
           y == OnHeap(s, SessionBytes)
           i == Installed(s)
           d == IF Junk(s) = <<>> THEN Idle ELSE Freeing("none", Junk(s))
           next == CASE c.op = "create" -> "CREATED"
                     [] c.op = "publish" -> "ACTIVE"
                     [] OTHER -> state[s]
           p == Total(result[s].parts)
           before == OwnedOf(s, result[s].parts, metadata[s], state[s])
           after == OwnedOf(s, result'[s].parts, metadata'[s], state'[s])
<1>1. /\ result' = [result EXCEPT ![s] = Result(i, c.metadata, FALSE)] /\ kept' = KeptAfterDrop(s)
      /\ metadata' = [metadata EXCEPT ![s] = c.metadata] /\ state' = [state EXCEPT ![s] = next]
      /\ call' = [call EXCEPT ![s] = d]
      /\ s \in Threads /\ Junk(s) \in Seq(Nat) /\ c.metadata \in Nat
      /\ i \in Seq(Nat) /\ c.got = Storage(s, c) \o i /\ c.junk = <<>>
      /\ Storage(s, c) \in Seq(Nat) /\ c.pc = "install"
  BY InstallFacts, Zenon
<1>2. /\ c.op \in {"create", "metadata", "publish"}
      /\ c.op = "create" <=> state[s] = "NONE"
      /\ c.op = "create" => c.metadata = 0
      /\ c.op = "publish" => c.metadata = metadata[s]
  BY InstallFacts, Zenon
<1>3. UNCHANGED allocated_bytes
  BY DEF Install
<1>4. /\ result \in [Sessions -> ResultType] /\ metadata \in [Sessions -> Nat]
      /\ state \in [Sessions -> {"NONE", "CREATED", "ACTIVE"}]
      /\ result[s].parts \in Seq(Nat) /\ metadata[s] \in Nat
  BY DEF Shape, Types, ResultType
<1>5. next # "NONE"
  <2>1. CASE c.op = "create"
    BY <2>1
  <2>2. CASE c.op = "publish"
    BY <2>2
  <2>3. CASE c.op = "metadata"
    <3>1. state[s] # "NONE"
      BY <1>2, <2>3
    <3> QED
      BY <2>3, <3>1
  <2> QED
    BY <1>2, <2>1, <2>2, <2>3
<1> HIDE DEF next
<1>6. /\ result'[s].parts = i /\ metadata'[s] = c.metadata /\ state'[s] # "NONE"
      /\ \A u \in Sessions : u # s => /\ result'[u] = result[u]
                                      /\ metadata'[u] = metadata[u] /\ state'[u] = state[u]
  <2>1. Result(i, c.metadata, FALSE).parts = i
    BY DEF Result
  <2> QED
    BY <1>1, <1>4, <1>5, <2>1
<1>7. /\ x \in Seq(Nat) /\ y \in Seq(Nat) /\ z \in Seq(Nat) /\ Dropped(s) \in Seq(Nat)
  BY <1>1, <1>4, DropFacts, Constants, ListTypes
<1>8. /\ Total(x) \in Nat /\ Total(y) \in Nat /\ Total(z) \in Nat /\ Total(i) \in Nat
      /\ p \in Nat /\ Total(Dropped(s)) \in Nat
  BY <1>1, <1>4, <1>7, TotalType
<1>9. d \in CallType /\ WorkingOf(d) = Total(Junk(s)) /\ d.pc # "allocate"
  <2>1. "none" \in {"none", "release", "destroy"}
    OBVIOUS
  <2>2. d \in CallType
    BY <1>1, <2>1, EndIsWhole
  <2> QED
    BY <1>1, <2>2, EndBytes
<1>10. WorkingOf(c) = Total(Storage(s, c)) + Total(i)
  <2>1. Total(c.got) = Total(Storage(s, c)) + Total(i)
    BY <1>1, TotalConcat
  <2>2. Total(Storage(s, c)) \in Nat
    BY <1>1, TotalType
  <2> QED
    BY <1>1, <1>8, <2>1, <2>2, TotalNil DEF WorkingOf
<1>11. Total(Junk(s)) = Total(Dropped(s)) + IF c.op = "metadata" THEN Total(x) ELSE 0
  <2> DEFINE m == IF c.op = "metadata" THEN x ELSE <<>>
  <2>1. m \in Seq(Nat) /\ Total(m) = IF c.op = "metadata" THEN Total(x) ELSE 0
    BY <1>7, ListTypes, TotalNil
  <2>2. Junk(s) = Dropped(s) \o m
    BY DEF Junk
  <2> HIDE DEF m
  <2>3. Total(Junk(s)) = Total(Dropped(s)) + Total(m)
    BY <1>7, <2>1, <2>2, TotalConcat
  <2> QED
    BY <2>1, <2>3
<1>12. /\ before = p + Total(x) + (IF state[s] = "NONE" THEN 0 ELSE Total(y))
       /\ after = Total(i) + Total(z) + Total(y)
  BY <1>6 DEF OwnedOf
<1> HIDE DEF d, before, after, p, i
<1>13. WorkingOf(d) + after + p = WorkingOf(c) + before + Total(Dropped(s))
  <2>1. CASE c.op = "create"
    <3>1. metadata[s] = 0 /\ state[s] = "NONE"
      BY <1>2, <2>1 DEF Shape, SessionsAreWhole
    <3>2. Total(z) = 0 /\ Total(x) = 0
      BY <1>2, <2>1, <3>1, TotalNil DEF OnHeap
    <3>3. Storage(s, c) = y
      BY <2>1 DEF Storage
    <3> HIDE DEF x, y, z, c
    <3> QED
      BY <1>8, <1>9, <1>10, <1>11, <1>12, <2>1, <3>1, <3>2, <3>3
  <2>2. CASE c.op = "metadata"
    <3>1. Storage(s, c) = z /\ state[s] # "NONE"
      BY <1>2, <2>2 DEF Storage
    <3> HIDE DEF x, y, z, c
    <3> QED
      BY <1>8, <1>9, <1>10, <1>11, <1>12, <2>2, <3>1
  <2>3. CASE c.op = "publish"
    <3>1. Storage(s, c) = <<>> /\ state[s] # "NONE" /\ z = x
      BY <1>2, <2>3 DEF Storage
    <3> HIDE DEF x, y, z, c
    <3> QED
      BY <1>8, <1>9, <1>10, <1>11, <1>12, <2>3, <3>1, TotalNil
  <2> QED
    BY <1>2, <2>1, <2>2, <2>3
<1>14. /\ before = OwnedOf(s, result[s].parts, metadata[s], state[s])
       /\ after = OwnedOf(s, result'[s].parts, metadata'[s], state'[s])
       /\ p = Total(result[s].parts)
  BY DEF before, after, p
<1>15. /\ WorkingOf(d) + after + Total(result[s].parts)
            = WorkingOf(call[s]) + before + Total(Dropped(s))
       /\ UNCHANGED allocated_bytes /\ kept' = KeptAfterDrop(s)
       /\ call' = [call EXCEPT ![s] = d] /\ call[s].pc # "allocate"
  BY <1>1, <1>3, <1>13, <1>14
<1> QED
  BY <1>6, <1>9, <1>14, <1>15, SessionKeepsAccounts, Zenon

LEMMA PushKeepsAccounts ==
    ASSUME Accounts, NEW n \in Blocks, PushPcm(n)
    PROVE  Accounts'
<1>1. UNCHANGED <<allocated_bytes, call, state, metadata, result, kept>>
  BY Zenon DEF PushPcm
<1> QED
  BY <1>1 DEF Accounts, BytesAreAccounted, WithinLimit, LiveBytes, InFlight, Working, Owned, Kept,
     Reserved, Wanted

LEMMA InitAccounts == Init => Accounts
<1> SUFFICES ASSUME Init PROVE Accounts
  OBVIOUS
<1>1. ASSUME NEW t \in Threads PROVE Working(t) = 0 /\ Reserved(t) = 0
  <2>1. call[t] = Idle
    BY DEF Init
  <2>2. Idle.got = <<>> /\ Idle.junk = <<>> /\ Idle.pc = "idle"
    BY DEF Idle
  <2> QED
    BY <2>1, <2>2, TotalNil DEF Working, Reserved
<1>2. ASSUME NEW s \in Sessions PROVE Owned(s) = 0
  <2>1. result[s] = NoResult /\ metadata[s] = 0 /\ state[s] = "NONE"
    BY DEF Init
  <2>2. NoResult.parts = <<>> /\ OnHeap(s, 0) = <<>>
    BY DEF NoResult, OnHeap
  <2> QED
    BY <2>1, <2>2, TotalNil DEF Owned
<1>3. SumOver([t \in Threads |-> Working(t)]) = 0 /\ SumOver([t \in Threads |-> Reserved(t)]) = 0
  <2> DEFINE f == [t \in Threads |-> Working(t)]
             g == [t \in Threads |-> Reserved(t)]
  <2>1. /\ f \in [Threads -> Nat] /\ g \in [Threads -> Nat]
        /\ \A t \in Threads : f[t] = 0 /\ g[t] = 0
    BY <1>1
  <2> HIDE DEF f, g
  <2>2. SumOver(f) = 0 /\ SumOver(g) = 0
    BY <2>1, Constants, SumZero
  <2> QED
    BY <2>2 DEF f, g
<1>4. SumOver([s \in Sessions |-> Owned(s)]) = 0
  <2> DEFINE f == [s \in Sessions |-> Owned(s)]
  <2>1. f \in [Sessions -> Nat] /\ \A s \in Sessions : f[s] = 0
    BY <1>2
  <2> HIDE DEF f
  <2>2. SumOver(f) = 0
    BY <2>1, Constants, SumZero
  <2> QED
    BY <2>2 DEF f
<1>5. Kept = 0
  BY TotalNil DEF Init, Kept, NoResult
<1>6. BytesAreAccounted
  BY <1>3, <1>4, <1>5 DEF Init, BytesAreAccounted, LiveBytes, InFlight
<1> QED
  BY <1>6, Constants DEF Init, Accounts, WithinLimit

LEMMA StepKeepsAccounts ==
    ASSUME Shape, Accounts, Shape', [Next]_vars
    PROVE  Accounts'
<1>1. CASE UNCHANGED vars
  BY <1>1 DEF vars, Accounts, BytesAreAccounted, WithinLimit, LiveBytes, InFlight, Working, Owned,
     Kept, Reserved, Wanted
<1>2. CASE Next
  BY <1>2, BeginKeepsAccounts, DestroyKeepsAccounts, InstallKeepsAccounts, AcquireKeepsAccounts,
     ReleaseKeepsAccounts, PushKeepsAccounts, AllocationKeepsAccounts, DeallocateKeepsAccounts, Zenon
  DEF Next
<1> QED
  BY <1>1, <1>2

LEMMA AccountsAlways == Spec => []Accounts
BY InitAccounts, StepKeepsAccounts, ShapeAlways, PTL DEF Spec

(* The counter of a context is exact: however many sessions allocate,      *)
(* fail, roll back, publish and free at the same time, every byte of       *)
(* allocated_bytes exists on the heap or is reserved for an allocation in  *)
(* progress.  So nothing leaks and nothing is returned twice, and          *)
(* apta_context_destroy, which refuses while the counter is not zero, can  *)
(* succeed.                                                                *)
THEOREM CounterIsExact == Spec => []BytesAreAccounted
<1>1. Accounts => BytesAreAccounted
  BY DEF Accounts
<1> QED
  BY <1>1, AccountsAlways, PTL

(* The bytes that exist in a context with a limit never exceed it, for any *)
(* number of threads in the compare-exchange loop of                       *)
(* apta_internal_reserve_bytes.                                            *)
THEOREM LimitIsAlwaysKept == Spec => []LimitIsKept
<1>1. Shape /\ Accounts => LimitIsKept
  <2> SUFFICES ASSUME Shape, Accounts, Limit # 0 PROVE LiveBytes <= Limit
    BY DEF LimitIsKept
  <2>1. /\ call = [call EXCEPT ![Arena] = call[Arena]] /\ Arena \in Threads
        /\ call \in [Threads -> CallType] /\ allocated_bytes \in Int
    BY Constants DEF Shape, Types
  <2>2. InFlight \in Nat
    <3> DEFINE g == [t \in Threads |-> Reserved(t)]
    <3>1. ASSUME NEW t \in Threads PROVE Reserved(t) \in Nat
      <4>1. call[t] \in CallType /\ (call[t].pc = "allocate" => call[t].todo # <<>>)
        BY DEF Shape, Types, CallsAreWhole, CallIsWhole
      <4> QED
        BY <4>1, CallBytes DEF Reserved, ReservedOf, Wanted
    <3>2. g \in [Threads -> Nat] /\ IsFiniteSet(Threads)
      BY <3>1, Constants
    <3> HIDE DEF g
    <3>3. SumOver(g) \in Nat
      BY <3>2, SumType
    <3> QED
      BY <3>3 DEF g, InFlight
  <2>3. LiveBytes \in Int
    <3>1. ASSUME NEW t \in Threads PROVE Working(t) \in Nat
      <4>1. call[t] \in CallType /\ (call[t].pc = "allocate" => call[t].todo # <<>>)
        BY DEF Shape, Types, CallsAreWhole, CallIsWhole
      <4> QED
        BY <4>1, CallBytes DEF Working
    <3>2. ASSUME NEW s \in Sessions PROVE Owned(s) \in Nat
      <4>1. result[s].parts \in Seq(Nat) /\ metadata[s] \in Nat
        BY DEF Shape, Types, ResultType
      <4> QED
        BY <4>1, OwnedType DEF Owned, OwnedOf
    <3> DEFINE f == [t \in Threads |-> Working(t)]
               g == [s \in Sessions |-> Owned(s)]
    <3>3. /\ f \in [Threads -> Nat] /\ IsFiniteSet(Threads)
          /\ g \in [Sessions -> Nat] /\ IsFiniteSet(Sessions)
      BY <3>1, <3>2, Constants
    <3> HIDE DEF f, g
    <3>4. SumOver(f) \in Nat /\ SumOver(g) \in Nat /\ Kept \in Nat
      BY <3>3, SumType, KeptType
    <3> QED
      BY <3>4 DEF f, g, LiveBytes
  <2>4. allocated_bytes = LiveBytes + InFlight /\ allocated_bytes <= Limit /\ Limit \in Nat
    BY Constants DEF Accounts, BytesAreAccounted, WithinLimit
  <2> QED
    BY <2>1, <2>2, <2>3, <2>4
<1> QED
  BY <1>1, ShapeAlways, AccountsAlways, PTL
---------------------------------------------------------------------------
(* The metadata of the session in the workspace.                           *)

(* Its new storage exists while the call that sets it is in progress.      *)
Replacing(c) == c.pc \in Busy /\ c.op = "metadata" /\ c.metadata # 0

StoredIn(list, size, replacing) ==
    /\ IsList(list)
    /\ AtMostOne(list, "metadata") /\ AtMostOne(list, "replacement")
    /\ Holds(list, "metadata") <=> size # 0
    /\ Holds(list, "replacement") <=> replacing

Stored == StoredIn(blocks, metadata[Arena], Replacing(call[Arena]))

LEMMA FreshIsStored == StoredIn(FreshArena, 0, FALSE)
<1>1. IsList(FreshArena)
  <2>1. ASSUME NEW x PROVE <<x>> \in Seq({x})
    OBVIOUS
  <2> QED
    BY <2>1, Zenon DEF IsList, FreshArena
<1>2. DOMAIN FreshArena = {1} /\ FreshArena[1].use = "free"
  BY DEF FreshArena, Free, Block
<1> QED
  BY <1>1, <1>2 DEF StoredIn, AtMostOne, Holds

LEMMA InitStored == Init => Stored
<1> SUFFICES ASSUME Init PROVE Stored
  OBVIOUS
<1>1. blocks = FreshArena /\ metadata[Arena] = 0 /\ call[Arena] = Idle
  BY Constants DEF Init
<1>2. ~Replacing(Idle)
  BY DEF Replacing, Idle, Busy
<1> QED
  BY <1>1, <1>2, FreshIsStored DEF Stored, StoredIn

(* An operation on the arena that leaves both kinds of storage alone.      *)
LEMMA LeftIsStored ==
    ASSUME NEW list, NEW M, NEW size, NEW replacing, StoredIn(list, size, replacing), IsList(M),
           Leaves(list, M, "metadata"), Leaves(list, M, "replacement")
    PROVE  StoredIn(M, size, replacing)
BY DEF StoredIn, Leaves

(* A node's block is none of the others.                                   *)
LEMMA NodeNames == \A x \in Nodes : x \notin {"free", "metadata", "replacement"}
BY ContextAssumption

LEMMA PushKeepsStored ==
    ASSUME Stored, NEW n \in Blocks, PushPcm(n)
    PROVE  Stored'
<1> DEFINE size == metadata[Arena]
           replacing == Replacing(call[Arena])
           table == IF Holds(blocks, "ranges") THEN blocks
                    ELSE Allocate(blocks, FirstRanges * RangeBytes, "ranges")
<1>1. /\ UNCHANGED <<call, metadata>>
      /\ CanAllocate(blocks, FirstRanges * RangeBytes) \/ Holds(blocks, "ranges")
      /\ \/ blocks' = table
         \/ \E bytes : \E node \in Nodes :
               CanAllocate(table, bytes) /\ blocks' = Allocate(table, bytes, node)
  <2>1. /\ call' = call /\ metadata' = metadata
    BY Zenon DEF PushPcm
  <2>2. CanAllocate(blocks, FirstRanges * RangeBytes) \/ Holds(blocks, "ranges")
    BY Zenon DEF PushPcm
  <2>3. \/ blocks' = table
        \/ \E bytes : \E node \in Nodes :
              CanAllocate(table, bytes) /\ blocks' = Allocate(table, bytes, node)
    <3> DEFINE frames == IF accepted + n > TrackFrames THEN TrackFrames - accepted ELSE n
               halvings == {frames \div 2^k : k \in 0 .. 12} \cap 1 .. frames
               room == {m \in halvings : CanAllocate(table, NodeBytes + m * SampleBytes)}
               unused == {x \in Nodes : ~Holds(blocks, x)}
               node == CHOOSE x \in unused : TRUE
    <3>1. /\ unused # {}
          /\ IF room = {} THEN blocks' = table /\ UNCHANGED <<accepted, queue, backlog>>
             ELSE \E m \in room :
                     /\ \A x \in room : x <= m
                     /\ blocks' = Allocate(table, NodeBytes + m * SampleBytes, node)
                     /\ accepted' = accepted + m
                     /\ queue' = Append(queue, [node |-> node, frames |-> m])
                     /\ backlog' = (backlog \/ queue # <<>>)
      BY Zenon DEF PushPcm
    <3>2. \A m \in room : CanAllocate(table, NodeBytes + m * SampleBytes)
      BY Zenon
    <3>3. node \in Nodes
      <4>1. \A S : S # {} => (CHOOSE x \in S : TRUE) \in S
        OBVIOUS
      <4> QED
        BY <3>1, <4>1, Zenon
    <3> HIDE DEF table, room, unused, node
    <3> QED
      BY <3>1, <3>2, <3>3, Zenon
  <2> QED
    BY <2>1, <2>2, <2>3
<1>2. StoredIn(table, size, replacing)
  <2>1. StoredIn(blocks, size, replacing) /\ IsList(blocks)
    BY DEF Stored, StoredIn
  <2>2. CASE Holds(blocks, "ranges")
    BY <2>1, <2>2
  <2>3. CASE ~Holds(blocks, "ranges")
    <3> DEFINE M == Allocate(blocks, FirstRanges * RangeBytes, "ranges")
    <3>1. IsList(M) /\ Leaves(blocks, M, "metadata") /\ Leaves(blocks, M, "replacement")
      BY <1>1, <2>1, <2>3, AllocateUses
    <3>2. M = table
      BY <2>3, Zenon
    <3> HIDE DEF M, table
    <3> QED
      BY <2>1, <3>1, <3>2, LeftIsStored
  <2> QED
    BY <2>2, <2>3
<1> HIDE DEF table
<1>3. StoredIn(blocks', size, replacing)
  <2>1. CASE blocks' = table
    BY <1>2, <2>1
  <2>2. ASSUME NEW bytes, NEW node \in Nodes, CanAllocate(table, bytes),
               blocks' = Allocate(table, bytes, node)
        PROVE  StoredIn(blocks', size, replacing)
    <3>1. IsList(table)
      BY <1>2 DEF StoredIn
    <3>2. IsList(blocks') /\ Leaves(table, blocks', "metadata") /\ Leaves(table, blocks', "replacement")
      BY <2>2, <3>1, NodeNames, AllocateUses
    <3> QED
      BY <1>2, <3>2, LeftIsStored
  <2> QED
    BY <1>1, <2>1, <2>2
<1> QED
  BY <1>1, <1>3 DEF Stored
(* A step that leaves the arena alone and the call of its session in the   *)
(* same phase.                                                             *)
LEMMA SameStored ==
    ASSUME Stored, blocks' = blocks, metadata'[Arena] = metadata[Arena],
           Replacing(call'[Arena]) <=> Replacing(call[Arena])
    PROVE  Stored'
BY DEF Stored, StoredIn

LEMMA CallOfArena ==
    ASSUME Shape, NEW t \in Threads, NEW c, call' = [call EXCEPT ![t] = c]
    PROVE  call'[Arena] = IF t = Arena THEN c ELSE call[Arena]
BY Constants DEF Shape, Types

LEMMA PhaseOfRecords ==
    /\ ~Replacing(Idle)
    /\ \A op, junk : ~Replacing(Freeing(op, junk))
    /\ \A op, todo, size : Replacing(Started(op, todo, size)) <=> op = "metadata" /\ size # 0
    /\ \A n : ~Replacing(Analysing(n))
    /\ \A c : c.pc \in {"idle", "free", "analyse"} => ~Replacing(c)
BY DEF Replacing, Idle, Freeing, Started, Analysing, Busy

LEMMA BeginKeepsStored ==
    ASSUME Shape, Stored, NEW s \in Sessions,
           \/ Create(s)
           \/ \E size \in MetadataSizes \cup {0} : SetMetadata(s, size)
           \/ \E snapshot \in Snapshots : Process(s, snapshot)
           \/ s = Arena /\ Activate
    PROVE  Stored'
<1>1. s \in Threads /\ metadata' = metadata
  BY Constants DEF Create, SetMetadata, Process, Activate
<1>2. ASSUME call[s].pc = "idle", NEW op, NEW todo, NEW size, Start(s, op, todo, size)
      PROVE  /\ ~Replacing(call[s])
             /\ Replacing(call'[Arena]) <=> IF s = Arena THEN op = "metadata" /\ size # 0
                                            ELSE Replacing(call[Arena])
  <2>1. call' = [call EXCEPT ![s] = Started(op, todo, size)]
    BY <1>2, StartRecord
  <2>2. call'[Arena] = IF s = Arena THEN Started(op, todo, size) ELSE call[Arena]
    BY <1>1, <2>1, CallOfArena
  <2>3. Replacing(Started(op, todo, size)) <=> op = "metadata" /\ size # 0
    BY PhaseOfRecords
  <2>4. ~Replacing(call[s])
    BY <1>2, PhaseOfRecords
  <2> QED
    BY <2>2, <2>3, <2>4
<1>3. ASSUME blocks' = blocks, NEW todo, NEW size, call[s].pc = "idle",
             NEW op, op # "metadata", Start(s, op, todo, size)
      PROVE  Stored'
  <2>1. Replacing(call'[Arena]) <=> Replacing(call[Arena])
    BY <1>2, <1>3
  <2> QED
    BY <1>1, <1>3, <2>1, SameStored
<1>4. CASE Create(s)
  <2>1. blocks' = blocks /\ call[s].pc = "idle"
    BY <1>4 DEF Create, arena
  <2>2. \E todo : Start(s, "create", todo, 0)
    BY <1>4, Zenon DEF Create
  <2> QED
    BY <1>3, <2>1, <2>2
<1>5. ASSUME NEW snapshot \in Snapshots, Process(s, snapshot) PROVE Stored'
  <2>1. blocks' = blocks /\ call[s].pc = "idle"
    BY <1>5 DEF Process, arena
  <2>2. \E todo : Start(s, "publish", todo, metadata[s])
    BY <1>5, Zenon DEF Process
  <2> QED
    BY <1>3, <2>1, <2>2
<1>6. CASE s = Arena /\ Activate
  <2>1. blocks' = blocks /\ call[s].pc = "idle"
    BY <1>6 DEF Activate, arena
  <2>2. \E todo : Start(s, "publish", todo, metadata[s])
    BY <1>6, Zenon DEF Activate
  <2> QED
    BY <1>3, <2>1, <2>2
<1>7. ASSUME NEW size \in MetadataSizes \cup {0}, SetMetadata(s, size) PROVE Stored'
  <2>1. /\ call[s].pc = "idle" /\ (s = Arena => size = 0 \/ CanAllocate(blocks, size))
        /\ blocks' = IF s = Arena /\ size # 0 THEN Allocate(blocks, size, "replacement") ELSE blocks
    BY <1>7, Zenon DEF SetMetadata
  <2>2. PICK todo : Start(s, "metadata", todo, size)
    BY <1>7, Zenon DEF SetMetadata
  <2>3. /\ ~Replacing(call[s])
        /\ Replacing(call'[Arena]) <=> IF s = Arena THEN size # 0 ELSE Replacing(call[Arena])
    BY <1>2, <2>1, <2>2
  <2>4. CASE s # Arena \/ size = 0
    BY <1>1, <2>1, <2>3, <2>4, SameStored
  <2>5. CASE s = Arena /\ size # 0
    <3> DEFINE M == Allocate(blocks, size, "replacement")
    <3>1. IsList(blocks) /\ ~Holds(blocks, "replacement")
      BY <2>3, <2>5 DEF Stored, StoredIn
    <3>2. /\ IsList(M) /\ Holds(M, "replacement") /\ AtMostOne(M, "replacement")
          /\ Leaves(blocks, M, "metadata")
      BY <2>1, <2>5, <3>1, AllocateUses
    <3>3. blocks' = M
      BY <2>1, <2>5
    <3> HIDE DEF M
    <3> QED
      BY <1>1, <2>3, <2>5, <3>2, <3>3 DEF Stored, StoredIn, Leaves
  <2> QED
    BY <2>4, <2>5
<1> QED
  BY <1>4, <1>5, <1>6, <1>7

(* The reservation replaces arrays, and both arrays are someone else's.    *)
LEMMA ReserveKeepsStored ==
    ASSUME Shape, Stored, Reserve
    PROVE  Stored'
<1> DEFINE list == IF Enough THEN blocks
                   ELSE IF BandBytes = 0 THEN Wider ELSE Replace(Wider, Grown * BandBytes, "bands")
           size == metadata[Arena]
<1>1. call[Arena].pc = "idle" /\ metadata' = metadata /\ Arena \in Threads
  BY Constants DEF Reserve
<1>2. \/ FitsColumns /\ FitsBands /\ blocks' = list
      \/ ~(FitsColumns /\ FitsBands) /\ blocks' = IF FitsColumns THEN Wider ELSE blocks
  BY Zenon DEF Reserve
<1>3. ~Replacing(call[Arena]) /\ ~Replacing(call'[Arena])
  <2>1. ~Replacing(call[Arena])
    BY <1>1, PhaseOfRecords
  <2>2. CASE call' = [call EXCEPT ![Arena] = Analysing(done \div ColumnFrames)]
    <3>1. call'[Arena] = Analysing(done \div ColumnFrames)
      BY <1>1, <2>2, CallOfArena
    <3> QED
      BY <2>1, <3>1, PhaseOfRecords
  <2> QED
    BY <2>1, <2>2, ReserveCall
<1>4. StoredIn(blocks, size, FALSE) /\ IsList(blocks) /\ ~Holds(blocks, "replacement")
  BY <1>3 DEF Stored, StoredIn
<1>5. ASSUME ~Enough, FitsColumns
      PROVE  StoredIn(Wider, size, FALSE) /\ IsList(Wider) /\ ~Holds(Wider, "replacement")
  <2>1. CanAllocate(blocks, Grown * AccumulatorBytes)
    BY <1>5 DEF FitsColumns
  <2>2. IsList(Wider) /\ ~Holds(Wider, "replacement") /\ Leaves(blocks, Wider, "metadata")
    BY <1>4, <2>1, ReplaceUses DEF Wider
  <2> QED
    BY <1>4, <2>2 DEF StoredIn, Leaves, AtMostOne, Holds
<1>6. ASSUME FitsColumns, FitsBands
      PROVE  StoredIn(list, size, FALSE)
  <2>1. CASE Enough
    BY <1>4, <2>1
  <2>2. CASE ~Enough /\ BandBytes = 0
    BY <1>5, <1>6, <2>2
  <2>3. CASE ~Enough /\ BandBytes # 0
    <3> DEFINE M == Replace(Wider, Grown * BandBytes, "bands")
    <3>1. /\ StoredIn(Wider, size, FALSE) /\ IsList(Wider) /\ ~Holds(Wider, "replacement")
          /\ CanAllocate(Wider, Grown * BandBytes)
      BY <1>5, <1>6, <2>3 DEF FitsBands
    <3>2. list = M
      BY <2>3, Zenon
    <3> HIDE DEF list
    <3>3. IsList(M) /\ ~Holds(M, "replacement") /\ Leaves(Wider, M, "metadata")
      BY <3>1, ReplaceUses
    <3> HIDE DEF M
    <3> QED
      BY <3>1, <3>2, <3>3 DEF StoredIn, Leaves, AtMostOne, Holds
  <2> QED
    BY <2>1, <2>2, <2>3
<1> HIDE DEF list
<1>7. StoredIn(blocks', size, FALSE)
  <2>1. ASSUME FitsColumns, ~FitsBands PROVE ~Enough
    BY <2>1 DEF FitsBands
  <2> QED
    BY <1>2, <1>4, <1>5, <1>6, <2>1
<1> QED
  BY <1>1, <1>3, <1>7 DEF Stored, StoredIn

LEMMA AnalysisKeepsStored ==
    ASSUME Shape, Stored, AnalyseNode \/ EndAnalysis
    PROVE  Stored'
<1>1. /\ call[Arena].pc = "analyse" /\ metadata' = metadata /\ Arena \in Threads
      /\ ~Replacing(call[Arena])
  <2>1. call[Arena].pc = "analyse" /\ metadata' = metadata
    BY DEF AnalyseNode, EndAnalysis
  <2> QED
    BY <2>1, Constants, PhaseOfRecords
<1>2. CASE AnalyseNode
  <2>1. /\ blocks' = Release(blocks, Head(queue).node) /\ call' = call
        /\ queue # <<>> /\ queue \in Seq(NodeType)
    BY <1>2 DEF AnalyseNode, Shape, Types
  <2>2. Head(queue).node \notin {"free", "metadata", "replacement"}
    <3>1. Head(queue) \in NodeType
      BY <2>1
    <3> QED
      BY <3>1, NodeNames DEF NodeType
  <2> DEFINE node == Head(queue).node
  <2>3. blocks' = Release(blocks, node) /\ node \notin {"free", "metadata", "replacement"}
    BY <2>1, <2>2
  <2> HIDE DEF node
  <2>4. IsList(blocks)
    BY DEF Stored, StoredIn
  <2>5. IsList(blocks') /\ Leaves(blocks, blocks', "metadata")
        /\ Leaves(blocks, blocks', "replacement")
    BY <2>3, <2>4, ReleaseUses
  <2>6. StoredIn(blocks', metadata[Arena], Replacing(call[Arena]))
    BY <2>5, LeftIsStored DEF Stored
  <2> QED
    BY <1>1, <2>1, <2>6 DEF Stored
<1>3. CASE EndAnalysis
  <2>1. blocks' = blocks
    BY <1>3 DEF EndAnalysis, arena
  <2>2. \/ \E todo : Start(Arena, "publish", todo, metadata[Arena])
        \/ call' = [call EXCEPT ![Arena] = Idle]
    BY <1>3, Zenon DEF EndAnalysis
  <2>3. \E c : call' = [call EXCEPT ![Arena] = c] /\ ~Replacing(c)
    <3>1. ASSUME NEW todo, Start(Arena, "publish", todo, metadata[Arena])
          PROVE  call' = [call EXCEPT ![Arena] = Started("publish", todo, metadata[Arena])]
                 /\ ~Replacing(Started("publish", todo, metadata[Arena]))
      BY <3>1, StartRecord, PhaseOfRecords
    <3> QED
      BY <2>2, <3>1, PhaseOfRecords, Zenon
  <2>4. ~Replacing(call'[Arena])
    BY <1>1, <2>3, CallOfArena
  <2> QED
    BY <1>1, <2>1, <2>4, SameStored
<1> QED
  BY <1>2, <1>3

LEMMA AllocationKeepsStored ==
    ASSUME Shape, Stored, NEW t \in Threads,
           Load(t) \/ Exchange(t) \/ AllocatorReturns(t) \/ AllocatorFails(t)
    PROVE  Stored'
<1> DEFINE c == call[t]
<1>1. /\ call \in [Threads -> CallType] /\ c \in CallType /\ metadata' = metadata
      /\ CallIsWhole(t, c, state[t], metadata[t])
  BY DEF Shape, Types, CallsAreWhole, Load, Exchange, AllocatorReturns, AllocatorFails
<1>2. c.pc \in Busy /\ c.pc # "install"
  BY DEF Load, Exchange, AllocatorReturns, AllocatorFails, Busy
<1> HIDE DEF c
<1>3. CASE Refused(t)
  <2>1. call' = [call EXCEPT ![t] = RolledBack(c)] /\ blocks' = ArenaRolledBack(t)
    BY <1>3 DEF Refused, c
  <2>2. RolledBack(c) = IF c.got = <<>> THEN Idle ELSE Freeing("none", c.got)
    BY <1>1, RolledBackIsWhole
  <2>3. ~Replacing(RolledBack(c))
    BY <2>2, PhaseOfRecords
  <2>4. call'[Arena] = IF t = Arena THEN RolledBack(c) ELSE call[Arena]
    BY <2>1, CallOfArena
  <2>5. CASE t # Arena
    BY <1>1, <2>1, <2>4, <2>5, SameStored DEF ArenaRolledBack
  <2>6. CASE t = Arena
    <3>1. blocks' = Release(blocks, "replacement") /\ IsList(blocks) /\ AtMostOne(blocks, "replacement")
      BY <2>1, <2>6 DEF ArenaRolledBack, Stored, StoredIn
    <3>2. IsList(blocks') /\ Leaves(blocks, blocks', "metadata") /\ ~Holds(blocks', "replacement")
      BY <3>1, ReleaseUses
    <3> QED
      BY <1>1, <2>3, <2>4, <2>6, <3>2 DEF Stored, StoredIn, Leaves, AtMostOne, Holds
  <2> QED
    BY <2>5, <2>6
<1>4. ASSUME NEW d, call' = [call EXCEPT ![t] = d], blocks' = blocks, d.pc \in Busy, d.op = c.op,
             d.metadata = c.metadata
      PROVE  Stored'
  <2>1. call'[Arena] = IF t = Arena THEN d ELSE call[Arena]
    BY <1>4, CallOfArena
  <2>2. Replacing(d) <=> Replacing(c)
    BY <1>2, <1>4 DEF Replacing
  <2>3. Replacing(call'[Arena]) <=> Replacing(call[Arena])
    BY <2>1, <2>2 DEF c
  <2> QED
    BY <1>1, <1>4, <2>3, SameStored
<1>5. ASSUME NEW p \in {"exchange", "allocate"}, NEW n, call' = [call EXCEPT ![t] = Moved(c, p, n)],
             blocks' = blocks
      PROVE  Stored'
  <2> DEFINE d == Moved(c, p, n)
  <2>1. d.pc = p /\ d.op = c.op /\ d.metadata = c.metadata
    BY DEF Moved
  <2>2. call' = [call EXCEPT ![t] = d] /\ d.pc \in Busy
    BY <1>5, <2>1 DEF Busy
  <2> HIDE DEF d
  <2> QED
    BY <1>4, <1>5, <2>1, <2>2
<1>6. CASE Load(t)
  <2>1. \/ Refused(t)
        \/ /\ call' = [call EXCEPT ![t] = SetPc(call[t], "allocate")] /\ blocks' = blocks
        \/ /\ call' = [call EXCEPT ![t] = SetSeen(SetPc(call[t], "exchange"), allocated_bytes)]
           /\ blocks' = blocks
    BY <1>6 DEF Load, SetPc, SetSeen
  <2>2. /\ SetPc(call[t], "allocate") = Moved(c, "allocate", c.seen)
        /\ SetSeen(SetPc(call[t], "exchange"), allocated_bytes) = Moved(c, "exchange", allocated_bytes)
    BY <1>1, Updates DEF c
  <2> QED
    BY <1>3, <1>5, <2>1, <2>2
<1>7. CASE Exchange(t)
  <2>1. \/ Refused(t)
        \/ /\ call' = [call EXCEPT ![t] = SetSeen(SetPc(call[t], "allocate"), 0)] /\ blocks' = blocks
        \/ /\ call' = [call EXCEPT ![t] = SetSeen(call[t], allocated_bytes)] /\ blocks' = blocks
    BY <1>7 DEF Exchange, SetPc, SetSeen
  <2>2. c.pc = "exchange"
    BY <1>7 DEF Exchange, c
  <2>3. /\ SetSeen(SetPc(call[t], "allocate"), 0) = Moved(c, "allocate", 0)
        /\ SetSeen(call[t], allocated_bytes) = Moved(c, "exchange", allocated_bytes)
    BY <1>1, <2>2, Updates DEF c
  <2> QED
    BY <1>3, <1>5, <2>1, <2>3
<1>8. CASE AllocatorReturns(t)
  <2> DEFINE d == Taken(c)
  <2>1. call' = [call EXCEPT ![t] = d] /\ blocks' = blocks
    BY <1>1, <1>8, TakeRecord DEF c, AllocatorReturns, arena
  <2>2. d.pc \in Busy /\ d.op = c.op /\ d.metadata = c.metadata
    BY DEF Taken, Busy
  <2> HIDE DEF d
  <2> QED
    BY <1>4, <2>1, <2>2
<1>9. CASE AllocatorFails(t)
  BY <1>3, <1>9 DEF AllocatorFails
<1> QED
  BY <1>6, <1>7, <1>8, <1>9

LEMMA EndKeepsStored ==
    ASSUME Shape, Stored,
           \/ \E s \in Watched : Acquire(s)
           \/ ReleaseResult
           \/ \E t \in Threads : Deallocate(t)
    PROVE  Stored'
<1>1. blocks' = blocks /\ metadata' = metadata
  BY DEF Acquire, ReleaseResult, Deallocate, arena
<1>2. CASE call' = call
  BY <1>1, <1>2, SameStored
<1>3. ASSUME NEW t \in Threads, Deallocate(t) PROVE Stored'
  <2> DEFINE d == IF Len(call[t].junk) = 1 THEN Idle ELSE Shortened(call[t])
  <2>1. call' = [call EXCEPT ![t] = d] /\ call[t].pc = "free"
    BY <1>3, DeallocateRecord DEF Deallocate
  <2>2. d.pc = "idle" \/ d.pc = "free"
    BY <2>1 DEF Idle, Shortened
  <2> HIDE DEF d
  <2>3. ~Replacing(d) /\ ~Replacing(call[t])
    BY <2>1, <2>2, PhaseOfRecords
  <2>4. call'[Arena] = IF t = Arena THEN d ELSE call[Arena]
    BY <2>1, CallOfArena
  <2> QED
    BY <1>1, <2>3, <2>4, SameStored
<1>4. CASE ReleaseResult
  <2>1. CASE kept.shared
    BY <1>2, <1>4, <2>1 DEF ReleaseResult
  <2>2. CASE ~kept.shared
    <3>1. \E c : call' = [call EXCEPT ![Application] = c]
      BY <1>4, <2>2, Zenon DEF ReleaseResult
    <3>2. Application \in Threads /\ Application # Arena
      BY Constants
    <3>3. call'[Arena] = call[Arena]
      BY <3>1, <3>2, CallOfArena
    <3> QED
      BY <1>1, <3>3, SameStored
  <2> QED
    BY <2>1, <2>2
<1>5. ASSUME NEW s \in Watched, Acquire(s) PROVE Stored'
  BY <1>2, <1>5 DEF Acquire
<1> QED
  BY <1>3, <1>4, <1>5

LEMMA DestroyKeepsStored ==
    ASSUME Shape, Stored, NEW s \in Sessions, Destroy(s)
    PROVE  Stored'
<1> DEFINE junk == Dropped(s) \o OnHeap(s, metadata[s]) \o OnHeap(s, SessionBytes)
           c == IF junk = <<>> THEN call[s] ELSE Freeing("destroy", junk)
<1>1. /\ call' = IF junk = <<>> THEN call
                 ELSE [call EXCEPT ![s] = [Idle EXCEPT !.pc = "free", !.op = "destroy", !.junk = junk]]
      /\ call[s].pc = "idle" /\ metadata' = [metadata EXCEPT ![s] = 0]
  BY Zenon DEF Destroy
<1>2. metadata \in [Sessions -> Nat] /\ s \in Threads /\ call \in [Threads -> CallType]
  BY Constants DEF Shape, Types
<1> HIDE DEF junk
<1>3. call' = [call EXCEPT ![s] = c]
  <2>1. CASE junk = <<>>
    BY <1>1, <1>2, <2>1
  <2>2. CASE junk # <<>>
    BY <1>1, <2>2, FreeRecords, Zenon
  <2> QED
    BY <2>1, <2>2
<1>4. ~Replacing(c) /\ ~Replacing(call[s])
  BY <1>1, PhaseOfRecords
<1> HIDE DEF c
<1>5. call'[Arena] = IF s = Arena THEN c ELSE call[Arena]
  BY <1>2, <1>3, CallOfArena
<1>6. CASE s # Arena
  <2>1. blocks' = blocks
    BY <1>6 DEF Destroy, arena
  <2>2. metadata'[Arena] = metadata[Arena]
    BY <1>1, <1>2, <1>6, Constants
  <2> QED
    BY <1>4, <1>5, <1>6, <2>1, <2>2, SameStored
<1>7. CASE s = Arena
  <2>1. blocks' = FreshArena
    BY <1>7, Zenon DEF Destroy
  <2>2. metadata'[Arena] = 0
    BY <1>1, <1>2, <1>7
  <2> QED
    BY <1>4, <1>5, <1>7, <2>1, <2>2, FreshIsStored DEF Stored, StoredIn
<1> QED
  BY <1>6, <1>7

LEMMA InstallKeepsStored ==
    ASSUME Shape, Stored, NEW s \in Sessions, Install(s)
    PROVE  Stored'
<1> DEFINE c == call[s]
           d == IF Junk(s) = <<>> THEN Idle ELSE Freeing("none", Junk(s))
<1>1. /\ s \in Threads /\ c.pc = "install" /\ call' = [call EXCEPT ![s] = d]
      /\ metadata' = [metadata EXCEPT ![s] = c.metadata]
      /\ c.op \in {"create", "metadata", "publish"}
      /\ c.op = "create" <=> state[s] = "NONE"
      /\ c.op = "create" => c.metadata = 0
      /\ c.op = "publish" => c.metadata = metadata[s]
  BY InstallFacts, Zenon
<1>2. blocks' = IF s = Arena /\ c.op = "metadata"
                THEN Rename(Release(blocks, "metadata"), "replacement", "metadata")
                ELSE blocks
  BY Zenon DEF Install
<1>3. metadata \in [Sessions -> Nat] /\ (state[s] = "NONE" => metadata[s] = 0)
  BY DEF Shape, Types, SessionsAreWhole
<1>4. ~Replacing(d)
  BY PhaseOfRecords
<1> HIDE DEF d
<1>5. call'[Arena] = IF s = Arena THEN d ELSE call[Arena]
  BY <1>1, CallOfArena
<1>6. CASE s # Arena
  <2>1. metadata'[Arena] = metadata[Arena] /\ blocks' = blocks
    BY <1>1, <1>2, <1>3, <1>6, Constants
  <2> QED
    BY <1>5, <1>6, <2>1, SameStored
<1>7. CASE s = Arena /\ c.op # "metadata"
  <2>1. metadata'[Arena] = metadata[Arena] /\ blocks' = blocks
    BY <1>1, <1>2, <1>3, <1>7
  <2>2. ~Replacing(call[Arena])
    BY <1>7 DEF Replacing
  <2> QED
    BY <1>4, <1>5, <1>7, <2>1, <2>2, SameStored
<1>8. CASE s = Arena /\ c.op = "metadata"
  <2> DEFINE R == Release(blocks, "metadata")
             M == Rename(R, "replacement", "metadata")
  <2>1. /\ IsList(blocks) /\ AtMostOne(blocks, "metadata") /\ AtMostOne(blocks, "replacement")
        /\ Holds(blocks, "replacement") <=> c.metadata # 0
    BY <1>1, <1>8 DEF Stored, StoredIn, Replacing, Busy
  <2>2. IsList(R) /\ Leaves(blocks, R, "replacement") /\ ~Holds(R, "metadata")
    BY <2>1, ReleaseUses
  <2> HIDE DEF R
  <2>3. /\ IsList(M) /\ ~Holds(M, "replacement")
        /\ Holds(M, "metadata") <=> Holds(R, "metadata") \/ Holds(R, "replacement")
        /\ ~Holds(R, "metadata") /\ AtMostOne(R, "replacement") => AtMostOne(M, "metadata")
    BY <2>2, RenameUses
  <2>4. blocks' = M
    BY <1>2, <1>8 DEF R
  <2> HIDE DEF M
  <2>5. metadata'[Arena] = c.metadata
    BY <1>1, <1>3, <1>8
  <2>6. ~Replacing(call'[Arena])
    BY <1>4, <1>5, <1>8
  <2> QED
    BY <2>1, <2>2, <2>3, <2>4, <2>5, <2>6 DEF Stored, StoredIn, Leaves, AtMostOne, Holds
<1> QED
  BY <1>6, <1>7, <1>8

LEMMA StepKeepsStored ==
    ASSUME Shape, Stored, [Next]_vars
    PROVE  Stored'
<1>1. CASE UNCHANGED vars
  BY <1>1 DEF vars, arena, Stored, StoredIn
<1>2. CASE Next
  <2>1. Arena \in Sessions
    BY Constants
  <2> QED
    BY <1>2, <2>1, BeginKeepsStored, ReserveKeepsStored, AnalysisKeepsStored,
       DestroyKeepsStored, InstallKeepsStored,
       EndKeepsStored, PushKeepsStored, AllocationKeepsStored, Zenon
    DEF Next
<1> QED
  BY <1>1, <1>2

(* A session never shows its host metadata other than its own: between its *)
(* calls the metadata of every session is the metadata of its published    *)
(* result, and in a workspace the arena holds exactly that storage and no  *)
(* half-finished replacement, also after apta_session_set_metadata failed  *)
(* at any of its allocations.                                              *)
THEOREM MetadataIsAlwaysPublished == Spec => []MetadataIsPublished
<1>1. Shape /\ Stored => MetadataIsPublished
  <2> SUFFICES ASSUME Shape, Stored, NEW s \in Sessions, call[s].pc = "idle"
               PROVE  /\ result[s].metadata = metadata[s]
                      /\ s = Arena => /\ Holds(blocks, "metadata") <=> metadata[s] # 0
                                      /\ ~Holds(blocks, "replacement")
    BY DEF MetadataIsPublished
  <2>1. result[s].metadata = metadata[s]
    BY DEF Shape, SessionsAreWhole
  <2>2. ~Replacing(call[s])
    BY PhaseOfRecords
  <2> QED
    BY <2>1, <2>2 DEF Stored, StoredIn
<1> QED
  BY <1>1, InitStored, StepKeepsStored, ShapeAlways, PTL DEF Spec
================================================================================
