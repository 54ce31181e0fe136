---------------------------- MODULE SequenceLemmas ----------------------------
(***************************************************************************)
(* Lemmas about the operators on sequences from which the modules build    *)
(* their outputs, and the induction they rest on: what a definition by     *)
(* recursion computes is shown on the set of the lengths for which it is   *)
(* right.  The last part is about finite sets of numbers put in order.     *)
(***************************************************************************)
EXTENDS Integers, Sequences, SequencesExt, SequenceTheorems, FiniteSetTheorems,
        WellFoundedInduction, TLAPS

-----------------------------------------------------------------------------
(* Induction *)

\* A set of naturals that contains 0 and with every number its successor
\* contains all of them.
LEMMA Induction ==
  ASSUME NEW S, 0 \in S, \A n \in Nat : n \in S => n + 1 \in S
  PROVE  \A n \in Nat : n \in S
<1>1. SUFFICES ASSUME NEW T \in SUBSET Nat, T = {n \in Nat : n \notin S}, T # {}
               PROVE  FALSE
  OBVIOUS
<1>2. PICK x \in T : \A y \in T : ~ (<<y, x>> \in OpToRel(<, Nat))
  BY <1>1, NatLessThanWellFounded, WFMin
<1>3. x \in Nat /\ \A y \in T : ~ (y < x)
  BY <1>2 DEF OpToRel
<1>4. x # 0
  BY <1>1
<1>5. x - 1 \in Nat /\ x - 1 \notin T
  BY <1>3, <1>4
<1>6. x \in S
  BY <1>1, <1>3, <1>5
<1> QED
  BY <1>1, <1>6

-----------------------------------------------------------------------------
(* Recursion *)

\* g is what n steps make of z.
IsRun(g, S, z, n, step) ==
  /\ g \in [0 .. n -> S]
  /\ g[0] = z
  /\ \A p \in 1 .. n : g[p] = step[p][g[p - 1]]

\* A value can be carried through n steps.
LEMMA RecursionExists ==
  ASSUME NEW S, NEW z \in S, NEW n \in Nat, NEW step \in [1 .. n -> [S -> S]]
  PROVE  \E g : IsRun(g, S, z, n, step)
<1> DEFINE Runs(g, m) == g[0] = z /\ \A p \in 1 .. m : g[p] = step[p][g[p - 1]]
           R == {m \in Nat : m <= n => \E g \in [0 .. m -> S] : Runs(g, m)}
<1>1. 0 \in R
  <2> DEFINE g == [p \in 0 .. 0 |-> z]
  <2>1. g \in [0 .. 0 -> S] /\ Runs(g, 0)
    OBVIOUS
  <2> HIDE DEF g
  <2> QED
    BY <2>1
<1>2. ASSUME NEW m \in Nat, m \in R
      PROVE  m + 1 \in R
  <2> SUFFICES ASSUME m + 1 <= n
               PROVE  \E g \in [0 .. m + 1 -> S] : Runs(g, m + 1)
    OBVIOUS
  <2>1. PICK g \in [0 .. m -> S] : Runs(g, m)
    BY <1>2
  <2> DEFINE h == [p \in 0 .. m + 1 |-> IF p <= m THEN g[p] ELSE step[m + 1][g[m]]]
  <2>2. step[m + 1] \in [S -> S] /\ g[m] \in S
    BY <2>1
  <2>3. h \in [0 .. m + 1 -> S]
    BY <2>1, <2>2
  <2>4. h[0] = z
    BY <2>1
  <2>5. ASSUME NEW p \in 1 .. m + 1 PROVE h[p] = step[p][h[p - 1]]
    <3>1. h[p - 1] = g[p - 1]
      OBVIOUS
    <3>2. CASE p = m + 1
      BY <3>1, <3>2
    <3>3. CASE p # m + 1
      <4>1. p \in 1 .. m /\ h[p] = g[p]
        BY <3>3
      <4> QED
        BY <2>1, <3>1, <4>1
    <3> QED
      BY <3>2, <3>3
  <2> HIDE DEF h
  <2> QED
    BY <2>3, <2>4, <2>5
<1> HIDE DEF R
<1>3. n \in R
  BY <1>1, <1>2, Induction
<1> QED
  BY <1>3 DEF R, IsRun

-----------------------------------------------------------------------------
(* FlattenSeq *)

\* The concatenations of the prefixes of f.
Accumulates(g, f, n) ==
  \A i \in 1 .. n : g[i] = IF i = 1 THEN f[i] ELSE g[i - 1] \o f[i]

LEMMA AccumulationExists ==
  ASSUME NEW T, NEW n \in Nat, NEW f \in [1 .. n -> Seq(T)]
  PROVE  \E g \in [1 .. n -> Seq(T)] : Accumulates(g, f, n)
<1> DEFINE S == {m \in Nat : m <= n => \E g \in [1 .. m -> Seq(T)] : Accumulates(g, f, m)}
<1>1. 0 \in S
  <2> DEFINE g == [i \in 1 .. 0 |-> <<>>]
  <2>1. g \in [1 .. 0 -> Seq(T)]
    OBVIOUS
  <2>2. Accumulates(g, f, 0)
    BY DEF Accumulates
  <2> HIDE DEF g
  <2> QED
    BY <2>1, <2>2
<1>2. ASSUME NEW m \in Nat, m \in S
      PROVE  m + 1 \in S
  <2> SUFFICES ASSUME m + 1 <= n
               PROVE  \E g \in [1 .. m + 1 -> Seq(T)] : Accumulates(g, f, m + 1)
    OBVIOUS
  <2>1. PICK g \in [1 .. m -> Seq(T)] : Accumulates(g, f, m)
    BY <1>2
  <2> DEFINE h == [i \in 1 .. m + 1 |-> IF i <= m THEN g[i]
                                        ELSE IF i = 1 THEN f[1] ELSE g[m] \o f[m + 1]]
  <2>2. m > 0 => g[m] \o f[m + 1] \in Seq(T)
    BY ConcatProperties
  <2>3. h \in [1 .. m + 1 -> Seq(T)]
    BY <2>2
  <2>4. ASSUME NEW i \in 1 .. m + 1
        PROVE  h[i] = IF i = 1 THEN f[i] ELSE h[i - 1] \o f[i]
    <3>1. CASE i = m + 1
      <4>1. m > 0 => m + 1 # 1 /\ h[m] = g[m]
        OBVIOUS
      <4> QED
        BY <3>1, <4>1
    <3>2. CASE i # m + 1
      <4>1. i \in 1 .. m /\ h[i] = g[i] /\ (i # 1 => h[i - 1] = g[i - 1])
        BY <3>2
      <4>2. g[i] = IF i = 1 THEN f[i] ELSE g[i - 1] \o f[i]
        BY <2>1, <4>1 DEF Accumulates
      <4> QED
        BY <4>1, <4>2
    <3> QED
      BY <3>1, <3>2
  <2> QED
    BY <2>3, <2>4 DEF Accumulates
<1> HIDE DEF S
<1>3. n \in S
  BY <1>1, <1>2, Induction
<1> QED
  BY <1>3 DEF S

LEMMA AccumulationUnique ==
  ASSUME NEW f, NEW g, NEW h, NEW m \in Nat, NEW n \in Nat, m <= n,
         Accumulates(g, f, m), Accumulates(h, f, n)
  PROVE  \A i \in 1 .. m : g[i] = h[i]
<1> DEFINE S == {i \in Nat : i \in 1 .. m => g[i] = h[i]}
<1>1. 0 \in S
  OBVIOUS
<1>2. ASSUME NEW i \in Nat, i \in S
      PROVE  i + 1 \in S
  <2> SUFFICES ASSUME i + 1 <= m PROVE g[i + 1] = h[i + 1]
    OBVIOUS
  <2>1. /\ g[i + 1] = IF i + 1 = 1 THEN f[i + 1] ELSE g[(i + 1) - 1] \o f[i + 1]
        /\ h[i + 1] = IF i + 1 = 1 THEN f[i + 1] ELSE h[(i + 1) - 1] \o f[i + 1]
    BY DEF Accumulates
  <2> QED
    BY <1>2, <2>1
<1> HIDE DEF S
<1>3. \A i \in Nat : i \in S
  BY <1>1, <1>2, Induction
<1> QED
  BY <1>3 DEF S

\* FlattenSeq is such a concatenation.
LEMMA FlattenIsAccumulation ==
  ASSUME NEW T, NEW n \in Nat \ {0}, NEW f \in [1 .. n -> Seq(T)],
         NEW g, Accumulates(g, f, n)
  PROVE  FlattenSeq(f) = g[n]
<1> DEFINE IsFlatten(h) == h = [i \in 1 .. Len(f) |-> IF i = 1 THEN f[i] ELSE h[i - 1] \o f[i]]
           flatten == CHOOSE h : IsFlatten(h)
<1>1. Len(f) = n
  OBVIOUS
<1>2. PICK h \in [1 .. n -> Seq(T)] : Accumulates(h, f, n)
  BY AccumulationExists
<1>3. IsFlatten(h)
  BY <1>1, <1>2 DEF Accumulates
<1>4. IsFlatten(flatten)
  BY <1>3
<1>5. FlattenSeq(f) = flatten[n]
  BY <1>1 DEF FlattenSeq
<1> HIDE DEF flatten
<1>6. Accumulates(flatten, f, n)
  BY <1>1, <1>4 DEF Accumulates
<1> QED
  BY <1>5, <1>6, AccumulationUnique

\* What FlattenSeq returns of the prefixes of f.
LEMMA FlattenPrefix ==
  ASSUME NEW T, NEW n \in Nat, NEW f \in [1 .. n -> Seq(T)]
  PROVE  /\ FlattenSeq([p \in 1 .. 0 |-> f[p]]) = <<>>
         /\ \A m \in 0 .. n : FlattenSeq([p \in 1 .. m |-> f[p]]) \in Seq(T)
         /\ \A m \in 1 .. n : FlattenSeq([p \in 1 .. m |-> f[p]])
                              = FlattenSeq([p \in 1 .. m - 1 |-> f[p]]) \o f[m]
<1> DEFINE Prefix(m) == [p \in 1 .. m |-> f[p]]
<1>1. PICK g \in [1 .. n -> Seq(T)] : Accumulates(g, f, n)
  BY AccumulationExists
<1>2. Prefix(0) = <<>> /\ Len(Prefix(0)) = 0
  OBVIOUS
<1>3. FlattenSeq(Prefix(0)) = <<>>
  BY <1>2 DEF FlattenSeq
<1>4. ASSUME NEW m \in 1 .. n
      PROVE  FlattenSeq(Prefix(m)) = g[m] /\ g[m] \in Seq(T)
  <2>1. \A i \in 1 .. m : Prefix(m)[i] = f[i] /\ i \in 1 .. n
    OBVIOUS
  <2>2. Prefix(m) \in [1 .. m -> Seq(T)] /\ m \in Nat \ {0}
    OBVIOUS
  <2> HIDE DEF Prefix
  <2>3. Accumulates(g, Prefix(m), m)
    BY <1>1, <2>1 DEF Accumulates
  <2>4. FlattenSeq(Prefix(m)) = g[m]
    BY <2>2, <2>3, FlattenIsAccumulation
  <2> QED
    BY <2>4
<1>5. ASSUME NEW m \in 1 .. n
      PROVE  FlattenSeq(Prefix(m)) = FlattenSeq(Prefix(m - 1)) \o f[m]
  <2>1. CASE m = 1
    <3>1. g[1] = f[1] /\ f[1] \in Seq(T)
      BY <1>1, <2>1 DEF Accumulates
    <3>2. <<>> \o f[1] = f[1]
      BY <3>1, ConcatEmptySeq
    <3> HIDE DEF Prefix
    <3> QED
      BY <1>3, <1>4, <2>1, <3>1, <3>2
  <2>2. CASE m # 1
    <3>1. m - 1 \in 1 .. n /\ g[m] = g[m - 1] \o f[m]
      BY <1>1, <2>2 DEF Accumulates
    <3> HIDE DEF Prefix
    <3> QED
      BY <1>4, <3>1
  <2> QED
    BY <2>1, <2>2
<1>6. \A m \in 0 .. n : FlattenSeq(Prefix(m)) \in Seq(T)
  <2> SUFFICES ASSUME NEW m \in 0 .. n PROVE FlattenSeq(Prefix(m)) \in Seq(T)
    OBVIOUS
  <2> HIDE DEF Prefix
  <2>1. <<>> \in Seq(T)
    OBVIOUS
  <2>2. CASE m = 0
    BY <1>3, <2>1, <2>2
  <2>3. CASE m # 0
    <3>1. m \in 1 .. n
      BY <2>3
    <3> QED
      BY <1>4, <3>1
  <2> QED
    BY <2>2, <2>3
<1> QED
  BY <1>3, <1>5, <1>6
-----------------------------------------------------------------------------
(* FoldLeft *)

\* A set of some of the first n numbers has a largest one.
LEMMA MaxExists ==
  ASSUME NEW n \in Nat, NEW s \in SUBSET (1 .. n), s # {}
  PROVE  \E x \in s : \A y \in s : x >= y
<1> DEFINE HasMax(m) == \A t \in SUBSET (1 .. m) : t # {} => \E x \in t : \A y \in t : x >= y
           R == {m \in Nat : HasMax(m)}
<1>1. 0 \in R
  <2>1. 1 .. 0 = {}
    OBVIOUS
  <2> QED
    BY <2>1
<1>2. ASSUME NEW m \in Nat, m \in R
      PROVE  m + 1 \in R
  <2> SUFFICES ASSUME NEW t \in SUBSET (1 .. m + 1), t # {}
               PROVE  \E x \in t : \A y \in t : x >= y
    OBVIOUS
  <2>1. CASE m + 1 \in t
    BY <2>1
  <2>2. CASE m + 1 \notin t
    <3>1. t \in SUBSET (1 .. m)
      BY <2>2
    <3> QED
      BY <1>2, <3>1
  <2> QED
    BY <2>1, <2>2
<1> HIDE DEF R
<1>3. n \in R
  BY <1>1, <1>2, Induction
<1> QED
  BY <1>3 DEF R

\* The sizes of sets of some of the first n numbers.
LEMMA SizeOfPart ==
  ASSUME NEW n \in Nat, NEW s \in SUBSET (1 .. n)
  PROVE  /\ Cardinality(s) \in Nat /\ Cardinality(s) <= n
         /\ Cardinality(s) = 0 <=> s = {}
         /\ \A x \in s : Cardinality(s \ {x}) = Cardinality(s) - 1
<1>1. IsFiniteSet(1 .. n) /\ Cardinality(1 .. n) = n
  BY FS_Interval
<1>2. IsFiniteSet(s) /\ Cardinality(s) <= n
  BY <1>1, FS_Subset
<1> QED
  BY <1>2, FS_CardinalityType, FS_EmptySet, FS_RemoveElement

\* total[s] is the sum of the weights of s, taken in the order of pick.
IsTotal(total, n, pick, w) ==
  total = [s \in SUBSET (1 .. n) |->
             IF s = {} THEN 0 ELSE total[s \ {pick[s]}] + w[pick[s]]]

LEMMA TotalExists ==
  ASSUME NEW n \in Nat, NEW w \in [1 .. n -> Nat], NEW pick,
         \A s \in SUBSET (1 .. n) : s # {} => pick[s] \in s
  PROVE  \E total : IsTotal(total, n, pick, w)
<1> DEFINE Sets(m) == {s \in SUBSET (1 .. n) : Cardinality(s) <= m}
           Sums(g, m) == \A s \in Sets(m) :
             g[s] = IF s = {} THEN 0 ELSE g[s \ {pick[s]}] + w[pick[s]]
           Exists(m) == \E g \in [Sets(m) -> Nat] : Sums(g, m)
           R == {m \in Nat : Exists(m)}
<1>2. 0 \in R
  <2> DEFINE g == [s \in Sets(0) |-> 0]
  <2>1. ASSUME NEW s \in Sets(0) PROVE s = {}
    BY SizeOfPart
  <2>2. g \in [Sets(0) -> Nat]
    OBVIOUS
  <2>3. Sums(g, 0)
    BY <2>1
  <2> HIDE DEF g
  <2> QED
    BY <2>2, <2>3
<1>3. ASSUME NEW m \in Nat, m \in R
      PROVE  m + 1 \in R
  <2>1. PICK g \in [Sets(m) -> Nat] : Sums(g, m)
    BY <1>3
  <2> DEFINE h == [s \in Sets(m + 1) |->
                     IF s = {} THEN 0 ELSE g[s \ {pick[s]}] + w[pick[s]]]
  <2>2. ASSUME NEW s \in Sets(m + 1), s # {}
        PROVE  s \ {pick[s]} \in Sets(m) /\ pick[s] \in 1 .. n
    <3>1. pick[s] \in s
      BY <2>2
    <3>2. Cardinality(s \ {pick[s]}) = Cardinality(s) - 1 /\ Cardinality(s) \in Nat
      BY <3>1, SizeOfPart
    <3>3. Cardinality(s \ {pick[s]}) <= m
      BY <3>2
    <3>4. s \ {pick[s]} \in SUBSET (1 .. n)
      OBVIOUS
    <3> QED
      BY <3>1, <3>3, <3>4
  <2>3. h \in [Sets(m + 1) -> Nat]
    <3> SUFFICES ASSUME NEW s \in Sets(m + 1), s # {}
                 PROVE  g[s \ {pick[s]}] + w[pick[s]] \in Nat
      OBVIOUS
    <3>1. g[s \ {pick[s]}] \in Nat /\ w[pick[s]] \in Nat
      BY <2>1, <2>2
    <3> QED
      BY <3>1
  <2>4. ASSUME NEW s \in Sets(m) PROVE s \in Sets(m + 1) /\ h[s] = g[s]
    <3>1. s \in Sets(m + 1)
      BY SizeOfPart
    <3>2. g[s] = IF s = {} THEN 0 ELSE g[s \ {pick[s]}] + w[pick[s]]
      BY <2>1
    <3> QED
      BY <3>1, <3>2
  <2>5. ASSUME NEW s \in Sets(m + 1)
        PROVE  h[s] = IF s = {} THEN 0 ELSE h[s \ {pick[s]}] + w[pick[s]]
    <3>1. CASE s = {}
      BY <3>1
    <3>2. CASE s # {}
      <4>1. s \ {pick[s]} \in Sets(m)
        BY <2>2, <3>2
      <4> HIDE DEF Sets
      <4>2. h[s \ {pick[s]}] = g[s \ {pick[s]}]
        BY <2>4, <4>1
      <4> QED
        BY <3>2, <4>2
    <3> QED
      BY <3>1, <3>2
  <2> HIDE DEF h
  <2>6. Exists(m + 1)
    BY <2>3, <2>5
  <2> HIDE DEF Exists
  <2> QED
    BY <2>6
<1> HIDE DEF R
<1>4. n \in R
  BY <1>2, <1>3, Induction
<1>5. PICK g \in [Sets(n) -> Nat] : Sums(g, n)
  BY <1>4 DEF R
<1>6. Sets(n) = SUBSET (1 .. n)
  BY SizeOfPart
<1>7. IsTotal(g, n, pick, w)
  BY <1>5, <1>6 DEF IsTotal
<1> QED
  BY <1>7

\* A sum of naturals is one, and it is 0 only if they all are.
LEMMA TotalIsNat ==
  ASSUME NEW n \in Nat, NEW w \in [1 .. n -> Nat], NEW pick,
         \A s \in SUBSET (1 .. n) : s # {} => pick[s] \in s,
         NEW total, IsTotal(total, n, pick, w)
  PROVE  /\ total[1 .. n] \in Nat
         /\ total[1 .. n] = 0 => \A x \in 1 .. n : w[x] = 0
<1> DEFINE Good(s) == total[s] \in Nat /\ (total[s] = 0 => \A x \in s : w[x] = 0)
           R == {m \in Nat : \A s \in SUBSET (1 .. n) : Cardinality(s) = m => Good(s)}
<1>1. \A s \in SUBSET (1 .. n) :
        total[s] = IF s = {} THEN 0 ELSE total[s \ {pick[s]}] + w[pick[s]]
  BY DEF IsTotal
<1>2. 0 \in R
  <2> SUFFICES ASSUME NEW s \in SUBSET (1 .. n), Cardinality(s) = 0 PROVE Good(s)
    OBVIOUS
  <2>1. s = {}
    BY SizeOfPart
  <2>2. total[s] = 0
    BY <1>1, <2>1
  <2> QED
    BY <2>1, <2>2
<1>3. ASSUME NEW m \in Nat, m \in R
      PROVE  m + 1 \in R
  <2> SUFFICES ASSUME NEW s \in SUBSET (1 .. n), Cardinality(s) = m + 1
               PROVE  Good(s)
    OBVIOUS
  <2>1. s # {} /\ pick[s] \in s /\ w[pick[s]] \in Nat
    <3>1. s # {}
      BY SizeOfPart
    <3>2. pick[s] \in s
      BY <3>1
    <3> QED
      BY <3>1, <3>2
  <2>2. PICK t \in SUBSET (1 .. n) : t = s \ {pick[s]}
    OBVIOUS
  <2>3. Cardinality(t) = m
    <3>1. Cardinality(s \ {pick[s]}) = Cardinality(s) - 1
      BY <2>1, SizeOfPart
    <3> QED
      BY <2>2, <3>1
  <2>4. Good(t)
    BY <1>3, <2>3
  <2>5. total[s] = total[t] + w[pick[s]]
    BY <1>1, <2>1, <2>2
  <2>6. total[t] \in Nat
    BY <2>4
  <2>7. ASSUME total[s] = 0 PROVE \A x \in s : w[x] = 0
    <3>1. total[t] = 0 /\ w[pick[s]] = 0
      BY <2>1, <2>5, <2>6, <2>7
    <3> QED
      BY <2>2, <2>4, <3>1
  <2>8. total[s] \in Nat
    BY <2>1, <2>5, <2>6
  <2> QED
    BY <2>7, <2>8
<1> HIDE DEF R
<1>4. Cardinality(1 .. n) \in R
  BY <1>2, <1>3, SizeOfPart, Induction
<1> QED
  BY <1>4 DEF R

\* How FoldLeft sums the weights of the first n numbers, largest first.
SumsUp(g, n, w) ==
  g = [s \in SUBSET (1 .. n) |-> IF s = {} THEN 0 ELSE g[s \ {Max(s)}] + w[Max(s)]]

LEMMA FoldIsNat ==
  ASSUME NEW n \in Nat, NEW w \in [1 .. n -> Nat]
  PROVE  /\ \E g : SumsUp(g, n, w)
         /\ \A g : SumsUp(g, n, w) =>
              (g[1 .. n] \in Nat /\ (g[1 .. n] = 0 => \A x \in 1 .. n : w[x] = 0))
<1> DEFINE pick == [s \in SUBSET (1 .. n) |-> Max(s)]
<1>1. \A s \in SUBSET (1 .. n) : s # {} => pick[s] \in s
  BY MaxExists DEF Max
<1>2. \A g : SumsUp(g, n, w) <=> IsTotal(g, n, pick, w)
  BY DEF IsTotal, SumsUp
<1> HIDE DEF pick
<1> QED
  BY <1>1, <1>2, TotalExists, TotalIsNat

\* The sums of the first weights.
IsPrefixSum(W, n, w) ==
  W \in [0 .. n -> Nat] /\ W[0] = 0 /\ \A p \in 1 .. n : W[p] = W[p - 1] + w[p]

LEMMA PrefixSumExists ==
  ASSUME NEW n \in Nat, NEW w \in [1 .. n -> Nat]
  PROVE  \E W : IsPrefixSum(W, n, w)
<1> DEFINE step == [p \in 1 .. n |-> [x \in Nat |-> x + w[p]]]
<1>1. step \in [1 .. n -> [Nat -> Nat]] /\ 0 \in Nat
  OBVIOUS
<1>2. \A p \in 1 .. n, x \in Nat : step[p][x] = x + w[p]
  OBVIOUS
<1> HIDE DEF step
<1>3. PICK W : IsRun(W, Nat, 0, n, step)
  BY <1>1, RecursionExists
<1>4. W \in [0 .. n -> Nat] /\ W[0] = 0 /\ \A p \in 1 .. n : W[p] = step[p][W[p - 1]]
  BY <1>3 DEF IsRun
<1>5. \A p \in 1 .. n : W[p - 1] \in Nat
  BY <1>4
<1>6. IsPrefixSum(W, n, w)
  BY <1>2, <1>4, <1>5 DEF IsPrefixSum
<1> QED
  BY <1>6

\* FoldLeft sums the first m weights.
LEMMA FoldIsPrefixSum ==
  ASSUME NEW n \in Nat, NEW w, NEW W, IsPrefixSum(W, n, w),
         NEW m \in 0 .. n, NEW g, SumsUp(g, m, w)
  PROVE  g[1 .. m] = W[m]
<1> DEFINE R == {p \in Nat : p <= m => g[1 .. p] = W[p]}
<1>1. \A s \in SUBSET (1 .. m) : g[s] = IF s = {} THEN 0 ELSE g[s \ {Max(s)}] + w[Max(s)]
  BY DEF SumsUp
<1>2. 0 \in R
  <2>1. 1 .. 0 = {} /\ {} \in SUBSET (1 .. m)
    OBVIOUS
  <2>2. g[1 .. 0] = 0
    BY <1>1, <2>1
  <2> QED
    BY <2>2 DEF IsPrefixSum
<1>3. ASSUME NEW p \in Nat, p \in R
      PROVE  p + 1 \in R
  <2> SUFFICES ASSUME p + 1 <= m PROVE g[1 .. p + 1] = W[p + 1]
    OBVIOUS
  <2>1. PICK s \in SUBSET (1 .. m) : s = 1 .. p + 1
    OBVIOUS
  <2>2. Max(s) = p + 1
    <3>1. p + 1 \in s /\ \A y \in s : p + 1 >= y
      BY <2>1
    <3>2. \A x \in s : (\A y \in s : x >= y) => x = p + 1
      BY <2>1
    <3> QED
      BY <3>1, <3>2 DEF Max
  <2>3. s # {} /\ s \ {p + 1} = 1 .. p
    BY <2>1
  <2>4. g[s] = g[1 .. p] + w[p + 1]
    BY <1>1, <2>2, <2>3
  <2>5. g[1 .. p] = W[p]
    BY <1>3
  <2>6. W[p + 1] = W[(p + 1) - 1] + w[p + 1] /\ (p + 1) - 1 = p
    BY DEF IsPrefixSum
  <2> QED
    BY <2>1, <2>4, <2>5, <2>6
<1> HIDE DEF R
<1>4. m \in R
  BY <1>2, <1>3, Induction
<1> QED
  BY <1>4 DEF R

-----------------------------------------------------------------------------
(* Sets in order *)

\* A non-empty set of numbers up to n has a least one.
LEMMA LeastExists ==
  ASSUME NEW n \in Nat, NEW S \in SUBSET (0 .. n), S # {}
  PROVE  \E x \in S : \A y \in S : x <= y
<1> PICK m \in Nat : m = n + 1
  OBVIOUS
<1>1. PICK T : T = {m - x : x \in S}
  OBVIOUS
<1>2. T \in SUBSET (1 .. m) /\ T # {}
  <2>1. \A x \in S : m - x \in 1 .. m
    BY <1>1
  <2>2. T \subseteq 1 .. m
    BY <1>1, <2>1
  <2> QED
    BY <1>1, <2>2
<1>3. PICK y \in T : \A z \in T : y >= z
  BY <1>2, MaxExists
<1>4. PICK x \in S : y = m - x
  BY <1>1
<1>5. ASSUME NEW z \in S PROVE x <= z
  <2>1. m - z \in T
    BY <1>1
  <2> QED
    BY <1>3, <1>4, <2>1
<1> QED
  BY <1>5

\* A set with a key below n that no two elements share is finite.
LEMMA KeyedFinite ==
  ASSUME NEW S, NEW n \in Nat, NEW key \in [S -> 0 .. n - 1],
         \A x, y \in S : key[x] = key[y] => x = y
  PROVE  IsFiniteSet(S) /\ Cardinality(S) \in Nat /\ Cardinality(S) <= n
<1>1. key \in Injection(S, 0 .. n - 1)
  BY DEF Injection, IsInjective
<1>2. IsFiniteSet(0 .. n - 1) /\ Cardinality(0 .. n - 1) = n
  BY FS_Interval
<1> QED
  BY <1>1, <1>2, FS_Injection, FS_CardinalityType

\* A non-empty finite set has a greatest key.
LEMMA GreatestExists ==
  ASSUME NEW S, IsFiniteSet(S), S # {}, NEW key \in [S -> Int]
  PROVE  \E x \in S : \A y \in S : key[y] <= key[x]
<1> DEFINE Has(T) == T # {} => \E x \in T : \A y \in T : key[y] <= key[x]
           R == {m \in Nat : \A T \in SUBSET S : Cardinality(T) = m => Has(T)}
<1>1. \A T \in SUBSET S : /\ IsFiniteSet(T) /\ Cardinality(T) \in Nat
                          /\ Cardinality(T) = 0 <=> T = {}
  BY FS_Subset, FS_CardinalityType, FS_EmptySet
<1>2. 0 \in R
  BY <1>1
<1>3. ASSUME NEW m \in Nat, m \in R PROVE m + 1 \in R
  <2> SUFFICES ASSUME NEW T \in SUBSET S, Cardinality(T) = m + 1, T # {}
               PROVE  \E x \in T : \A y \in T : key[y] <= key[x]
    OBVIOUS
  <2>1. PICK a \in T : TRUE
    OBVIOUS
  <2>2. PICK U \in SUBSET S : U = T \ {a}
    OBVIOUS
  <2>3. Cardinality(U) = m
    <3>1. Cardinality(T \ {a}) = Cardinality(T) - 1
      BY <1>1, <2>1, FS_RemoveElement
    <3> QED
      BY <2>2, <3>1
  <2>4. Has(U)
    BY <1>3, <2>3
  <2>5. CASE U = {}
    BY <2>1, <2>2, <2>5
  <2>6. CASE U # {}
    <3>1. PICK b \in U : \A y \in U : key[y] <= key[b]
      BY <2>4, <2>6
    <3>2. \A y \in T : key[y] \in Int
      OBVIOUS
    <3>3. CASE key[a] <= key[b]
      BY <2>2, <3>1, <3>3
    <3>4. CASE key[b] <= key[a]
      <4>1. \A y \in T : key[y] <= key[a]
        BY <2>1, <2>2, <3>1, <3>2, <3>4
      <4> QED
        BY <2>1, <4>1
    <3> QED
      BY <2>1, <2>2, <3>1, <3>2, <3>3, <3>4
  <2> QED
    BY <2>5, <2>6
<1> HIDE DEF R
<1>4. Cardinality(S) \in R
  BY <1>1, <1>2, <1>3, Induction
<1> QED
  BY <1>4 DEF R

\* Every finite set can be listed by a key that no two elements share.
LEMMA SortedExists ==
  ASSUME NEW S, IsFiniteSet(S), NEW key \in [S -> Int],
         \A x, y \in S : key[x] = key[y] => x = y
  PROVE  \E t \in SetToSeqs(S) : \A p, q \in DOMAIN t : p < q => key[t[p]] < key[t[q]]
<1> DEFINE Sorts(t, m) == \A p, q \in 1 .. m : p < q => key[t[p]] < key[t[q]]
           Lists(t, m, T) == \A x \in T : \E p \in 1 .. m : t[p] = x
           R == {m \in Nat : \A T \in SUBSET S : Cardinality(T) = m =>
                   \E t \in [1 .. m -> T] : Sorts(t, m)}
<1>1. \A T \in SUBSET S : /\ IsFiniteSet(T) /\ Cardinality(T) \in Nat
                          /\ Cardinality(T) = 0 <=> T = {}
  BY FS_Subset, FS_CardinalityType, FS_EmptySet
<1>2. 0 \in R
  <2> SUFFICES ASSUME NEW T \in SUBSET S PROVE \E t \in [1 .. 0 -> T] : Sorts(t, 0)
    OBVIOUS
  <2>1. [p \in 1 .. 0 |-> p] \in [1 .. 0 -> T] /\ Sorts([p \in 1 .. 0 |-> p], 0)
    OBVIOUS
  <2> QED
    BY <2>1
<1>3. ASSUME NEW m \in Nat, m \in R PROVE m + 1 \in R
  <2> SUFFICES ASSUME NEW T \in SUBSET S, Cardinality(T) = m + 1
               PROVE  \E t \in [1 .. m + 1 -> T] : Sorts(t, m + 1)
    OBVIOUS
  <2>1. PICK a \in T : \A y \in T : key[y] <= key[a]
    <3>1. T # {} /\ IsFiniteSet(T)
      BY <1>1
    <3>2. PICK k : k = [x \in T |-> key[x]] /\ k \in [T -> Int]
      <4>1. [x \in T |-> key[x]] \in [T -> Int]
        OBVIOUS
      <4> QED
        BY <4>1
    <3>3. \E x \in T : \A y \in T : k[y] <= k[x]
      BY <3>1, <3>2, GreatestExists
    <3> QED
      BY <3>2, <3>3
  <2>2. PICK U \in SUBSET S : U = T \ {a}
    OBVIOUS
  <2>3. Cardinality(U) = m
    <3>1. Cardinality(T \ {a}) = Cardinality(T) - 1
      BY <1>1, <2>1, FS_RemoveElement
    <3> QED
      BY <2>2, <3>1
  <2>4. PICK u \in [1 .. m -> U] : Sorts(u, m)
    BY <1>3, <2>3
  <2> DEFINE t == [p \in 1 .. m + 1 |-> IF p = m + 1 THEN a ELSE u[p]]
  <2>5. t \in [1 .. m + 1 -> T]
    BY <2>1, <2>2
  <2>6. ASSUME NEW p \in 1 .. m + 1, NEW q \in 1 .. m + 1, p < q
        PROVE  key[t[p]] < key[t[q]]
    <3>1. p \in 1 .. m /\ t[p] = u[p] /\ u[p] \in U
      BY <2>6
    <3>2. CASE q = m + 1
      <4>1. t[q] = a
        BY <3>2
      <4>2. key[u[p]] <= key[a] /\ key[u[p]] # key[a]
        BY <2>1, <2>2, <3>1
      <4>3. key[u[p]] \in Int /\ key[a] \in Int
        BY <2>1, <2>2, <3>1
      <4> QED
        BY <3>1, <4>1, <4>2, <4>3
    <3>3. CASE q # m + 1
      <4>1. q \in 1 .. m /\ t[q] = u[q]
        BY <3>3
      <4> QED
        BY <2>4, <2>6, <3>1, <4>1
    <3> QED
      BY <3>2, <3>3
  <2> HIDE DEF t
  <2> QED
    BY <2>5, <2>6
<1> HIDE DEF R
<1>4. Cardinality(S) \in R /\ Cardinality(S) \in Nat
  BY <1>1, <1>2, <1>3, Induction
<1>5. PICK t \in [1 .. Cardinality(S) -> S] : Sorts(t, Cardinality(S))
  BY <1>4 DEF R
<1>6. ASSUME NEW p \in 1 .. Cardinality(S), NEW q \in 1 .. Cardinality(S), p # q
      PROVE  t[p] # t[q]
  <2>1. key[t[p]] \in Int
    OBVIOUS
  <2>2. p < q \/ q < p
    BY <1>6
  <2> QED
    BY <1>5, <2>1, <2>2
<1> QED
  BY <1>5, <1>6 DEF SetToSeqs

\* A listing of a finite set has all of its elements.
LEMMA ListingFacts ==
  ASSUME NEW S, IsFiniteSet(S), NEW t \in SetToSeqs(S)
  PROVE  /\ t \in Seq(S) /\ Len(t) = Cardinality(S) /\ DOMAIN t = 1 .. Cardinality(S)
         /\ Cardinality(S) \in Nat
         /\ {t[p] : p \in DOMAIN t} = S
         /\ \A p, q \in DOMAIN t : t[p] = t[q] => p = q
<1>1. PICK n \in Nat : n = Cardinality(S)
  BY FS_CardinalityType
<1>2. t \in [1 .. n -> S] /\ \A p, q \in 1 .. n : p # q => t[p] # t[q]
  BY <1>1 DEF SetToSeqs
<1>3. t \in Injection(1 .. n, S)
  BY <1>2 DEF Injection, IsInjective
<1>4. IsFiniteSet(1 .. n) /\ Cardinality(1 .. n) = n
  BY FS_Interval
<1>5. t \in Surjection(1 .. n, S)
  BY <1>1, <1>3, <1>4, FS_Injection
<1>6. \A x \in S : \E p \in 1 .. n : t[p] = x
  BY <1>5 DEF Surjection
<1>7. DOMAIN t = 1 .. n /\ Len(t) = n /\ t \in Seq(S)
  BY <1>2
<1> QED
  BY <1>1, <1>2, <1>6, <1>7

-----------------------------------------------------------------------------
(* Sums over a set *)

\* total sums the weights of the subsets of S, an element of each first.
IsSetTotal(total, S, pick, w) ==
  total = [s \in SUBSET S |-> IF s = {} THEN 0 ELSE w[pick[s]] + total[s \ {pick[s]}]]

LEMMA SetTotal ==
  ASSUME NEW S, IsFiniteSet(S), NEW w \in [S -> Int], NEW pick,
         \A s \in SUBSET S : s # {} => pick[s] \in s
  PROVE  /\ \E total : IsSetTotal(total, S, pick, w)
         /\ \A total : IsSetTotal(total, S, pick, w) => total[S] \in Int
<1> DEFINE Sets(m) == {s \in SUBSET S : Cardinality(s) <= m}
           Sums(g, m) == \A s \in Sets(m) :
             g[s] = IF s = {} THEN 0 ELSE w[pick[s]] + g[s \ {pick[s]}]
           Exists(m) == \E g \in [Sets(m) -> Int] : Sums(g, m)
           R == {m \in Nat : Exists(m)}
<1>1. ASSUME NEW s \in SUBSET S
      PROVE  /\ IsFiniteSet(s) /\ Cardinality(s) \in Nat /\ Cardinality(s) <= Cardinality(S)
             /\ Cardinality(s) = 0 <=> s = {}
             /\ \A x \in s : Cardinality(s \ {x}) = Cardinality(s) - 1
  BY FS_Subset, FS_CardinalityType, FS_EmptySet, FS_RemoveElement
<1>2. 0 \in R
  <2> DEFINE g == [s \in Sets(0) |-> 0]
  <2>1. ASSUME NEW s \in Sets(0) PROVE s = {}
    BY <1>1
  <2>2. g \in [Sets(0) -> Int]
    OBVIOUS
  <2>3. Sums(g, 0)
    BY <2>1
  <2> HIDE DEF g
  <2> QED
    BY <2>2, <2>3
<1>3. ASSUME NEW m \in Nat, m \in R
      PROVE  m + 1 \in R
  <2>1. PICK g \in [Sets(m) -> Int] : Sums(g, m)
    BY <1>3
  <2> DEFINE h == [s \in Sets(m + 1) |->
                     IF s = {} THEN 0 ELSE w[pick[s]] + g[s \ {pick[s]}]]
  <2>2. ASSUME NEW s \in Sets(m + 1), s # {}
        PROVE  s \ {pick[s]} \in Sets(m) /\ pick[s] \in S
    <3>1. pick[s] \in s
      BY <2>2
    <3>2. Cardinality(s \ {pick[s]}) = Cardinality(s) - 1 /\ Cardinality(s) \in Nat
      BY <1>1, <3>1
    <3>3. Cardinality(s \ {pick[s]}) <= m
      BY <3>2
    <3>4. s \ {pick[s]} \in SUBSET S
      OBVIOUS
    <3> QED
      BY <3>1, <3>3, <3>4
  <2>3. h \in [Sets(m + 1) -> Int]
    <3> SUFFICES ASSUME NEW s \in Sets(m + 1), s # {}
                 PROVE  w[pick[s]] + g[s \ {pick[s]}] \in Int
      OBVIOUS
    <3>1. g[s \ {pick[s]}] \in Int /\ w[pick[s]] \in Int
      BY <2>1, <2>2
    <3> QED
      BY <3>1
  <2>4. ASSUME NEW s \in Sets(m) PROVE s \in Sets(m + 1) /\ h[s] = g[s]
    <3>1. s \in Sets(m + 1)
      BY <1>1
    <3>2. g[s] = IF s = {} THEN 0 ELSE w[pick[s]] + g[s \ {pick[s]}]
      BY <2>1
    <3> QED
      BY <3>1, <3>2
  <2>5. ASSUME NEW s \in Sets(m + 1)
        PROVE  h[s] = IF s = {} THEN 0 ELSE w[pick[s]] + h[s \ {pick[s]}]
    <3>1. CASE s = {}
      BY <3>1
    <3>2. CASE s # {}
      <4>1. s \ {pick[s]} \in Sets(m)
        BY <2>2, <3>2
      <4> HIDE DEF Sets
      <4>2. h[s \ {pick[s]}] = g[s \ {pick[s]}]
        BY <2>4, <4>1
      <4> QED
        BY <3>2, <4>2
    <3> QED
      BY <3>1, <3>2
  <2> HIDE DEF h
  <2>6. Exists(m + 1)
    BY <2>3, <2>5
  <2> HIDE DEF Exists
  <2> QED
    BY <2>6
<1> HIDE DEF R
<1>4. Cardinality(S) \in R
  BY <1>1, <1>2, <1>3, Induction
<1>5. PICK g \in [Sets(Cardinality(S)) -> Int] : Sums(g, Cardinality(S))
  BY <1>4 DEF R
<1>6. Sets(Cardinality(S)) = SUBSET S
  BY <1>1
<1>7. IsSetTotal(g, S, pick, w)
  BY <1>5, <1>6 DEF IsSetTotal
<1>8. ASSUME NEW total, IsSetTotal(total, S, pick, w) PROVE total[S] \in Int
  <2> DEFINE Q == {m \in Nat : \A s \in SUBSET S : Cardinality(s) = m => total[s] \in Int}
  <2>1. \A s \in SUBSET S :
          total[s] = IF s = {} THEN 0 ELSE w[pick[s]] + total[s \ {pick[s]}]
    BY <1>8 DEF IsSetTotal
  <2>2. 0 \in Q
    <3> SUFFICES ASSUME NEW s \in SUBSET S, Cardinality(s) = 0 PROVE total[s] \in Int
      OBVIOUS
    <3>1. s = {}
      BY <1>1
    <3>2. total[s] = 0
      BY <2>1, <3>1
    <3> QED
      BY <3>2
  <2>3. ASSUME NEW m \in Nat, m \in Q PROVE m + 1 \in Q
    <3> SUFFICES ASSUME NEW s \in SUBSET S, Cardinality(s) = m + 1 PROVE total[s] \in Int
      OBVIOUS
    <3>1. s # {}
      BY <1>1
    <3>2. pick[s] \in s /\ w[pick[s]] \in Int
      BY <3>1
    <3>3. PICK u \in SUBSET S : u = s \ {pick[s]}
      OBVIOUS
    <3>4. Cardinality(u) = m
      <4>1. Cardinality(s \ {pick[s]}) = Cardinality(s) - 1
        BY <1>1, <3>2
      <4> QED
        BY <3>3, <4>1
    <3>5. total[u] \in Int
      BY <2>3, <3>4
    <3>6. total[s] = w[pick[s]] + total[u]
      BY <2>1, <3>1, <3>3
    <3> QED
      BY <3>2, <3>5, <3>6
  <2> HIDE DEF Q
  <2>4. Cardinality(S) \in Q
    BY <1>1, <2>2, <2>3, Induction
  <2> QED
    BY <2>4 DEF Q
<1> QED
  BY <1>7, <1>8
-----------------------------------------------------------------------------
(* What a flattened sequence holds *)

Occurs(s, x) == \E p \in 1 .. Len(s) : s[p] = x

\* A flattened sequence holds what its parts hold.
LEMMA FlattenRange ==
  ASSUME NEW T, NEW n \in Nat, NEW f \in [1 .. n -> Seq(T)]
  PROVE  /\ FlattenSeq(f) \in Seq(T)
         /\ \A x : Occurs(FlattenSeq(f), x) <=> \E i \in 1 .. n : Occurs(f[i], x)
<1> DEFINE F(m) == FlattenSeq([p \in 1 .. m |-> f[p]])
           R == {m \in Nat : m <= n => \A x : Occurs(F(m), x) <=> \E i \in 1 .. m : Occurs(f[i], x)}
<1>1. /\ F(0) = <<>>
      /\ \A m \in 0 .. n : F(m) \in Seq(T)
      /\ \A m \in 1 .. n : F(m) = F(m - 1) \o f[m]
  BY FlattenPrefix
<1>2. F(n) = FlattenSeq(f)
  <2>1. f = [p \in 1 .. n |-> f[p]]
    OBVIOUS
  <2> QED
    BY <2>1
<1> HIDE DEF F
<1>3. 0 \in R
  BY <1>1 DEF Occurs
<1>4. ASSUME NEW m \in Nat, m \in R PROVE m + 1 \in R
  <2> SUFFICES ASSUME m + 1 <= n, NEW x
               PROVE  Occurs(F(m + 1), x) <=> \E i \in 1 .. m + 1 : Occurs(f[i], x)
    OBVIOUS
  <2>1. Occurs(F(m), x) <=> \E i \in 1 .. m : Occurs(f[i], x)
    BY <1>4
  <2>2. F(m + 1) = F(m) \o f[m + 1]
    <3>1. m + 1 \in 1 .. n /\ (m + 1) - 1 = m
      OBVIOUS
    <3> QED
      BY <1>1, <3>1
  <2>3. PICK s \in Seq(T), t \in Seq(T) : s = F(m) /\ t = f[m + 1]
    <3>1. m \in 0 .. n /\ m + 1 \in 1 .. n
      OBVIOUS
    <3>2. F(m) \in Seq(T) /\ f[m + 1] \in Seq(T)
      BY <1>1, <3>1
    <3> QED
      BY <3>2
  <2>4. Occurs(s \o t, x) <=> Occurs(s, x) \/ Occurs(t, x)
    <3>1. Len(s \o t) = Len(s) + Len(t) /\ Len(s) \in Nat /\ Len(t) \in Nat
      OBVIOUS
    <3>2. \A p \in 1 .. Len(s \o t) : (s \o t)[p] = IF p <= Len(s) THEN s[p] ELSE t[p - Len(s)]
      OBVIOUS
    <3>3. ASSUME Occurs(s \o t, x) PROVE Occurs(s, x) \/ Occurs(t, x)
      <4>1. PICK p \in 1 .. Len(s \o t) : (s \o t)[p] = x
        BY <3>3 DEF Occurs
      <4>2. CASE p <= Len(s)
        BY <3>1, <3>2, <4>1, <4>2 DEF Occurs
      <4>3. CASE p > Len(s)
        <5>1. p - Len(s) \in 1 .. Len(t) /\ t[p - Len(s)] = x
          BY <3>1, <3>2, <4>1, <4>3
        <5> QED
          BY <5>1 DEF Occurs
      <4> QED
        BY <3>1, <4>2, <4>3
    <3>4. ASSUME Occurs(s, x) PROVE Occurs(s \o t, x)
      <4>1. PICK p \in 1 .. Len(s) : s[p] = x
        BY <3>4 DEF Occurs
      <4>2. p \in 1 .. Len(s \o t) /\ (s \o t)[p] = x
        BY <3>1, <3>2, <4>1
      <4> QED
        BY <4>2 DEF Occurs
    <3>5. ASSUME Occurs(t, x) PROVE Occurs(s \o t, x)
      <4>1. PICK p \in 1 .. Len(t) : t[p] = x
        BY <3>5 DEF Occurs
      <4>2. /\ p + Len(s) \in 1 .. Len(s \o t) /\ ~ (p + Len(s) <= Len(s))
            /\ (p + Len(s)) - Len(s) = p
        BY <3>1
      <4>3. (s \o t)[p + Len(s)] = x
        BY <3>2, <4>1, <4>2
      <4> QED
        BY <4>2, <4>3 DEF Occurs
    <3> QED
      BY <3>3, <3>4, <3>5
  <2>5. (\E i \in 1 .. m + 1 : Occurs(f[i], x)) <=> (\E i \in 1 .. m : Occurs(f[i], x)) \/ Occurs(f[m + 1], x)
    <3>1. \A i : i \in 1 .. m + 1 <=> i \in 1 .. m \/ i = m + 1
      OBVIOUS
    <3> QED
      BY <3>1
  <2> QED
    BY <2>1, <2>2, <2>3, <2>4, <2>5
<1> HIDE DEF R
<1>5. n \in R
  BY <1>3, <1>4, Induction
<1>6. \A x : Occurs(FlattenSeq(f), x) <=> \E i \in 1 .. n : Occurs(f[i], x)
  BY <1>2, <1>5 DEF R
<1>7. FlattenSeq(f) \in Seq(T)
  BY <1>1, <1>2
<1> QED
  BY <1>6, <1>7
=============================================================================
