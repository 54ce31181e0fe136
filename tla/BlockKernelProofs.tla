-------------------------- MODULE BlockKernelProofs --------------------------
(***************************************************************************)
(* Theorems about BlockKernel, for every number of columns, chunk width,   *)
(* capacity, threshold and block size, all matrices and every choice of    *)
(* accumulators: whoever takes over the shared accumulator finds it clean, *)
(* every row's cursors resume where that row stopped, every row's          *)
(* selection goes through a top-n of what it was offered, and the output   *)
(* is the rows of A, each with the best columns of its whole product.      *)
(*                                                                         *)
(* The invariant says what the accumulator holds at any time: of row q,    *)
(* the product of its first jj - 1 entries with the columns of the chunk   *)
(* (Accumulated).  That it is clean is the case jj = 1.  Of a selection it *)
(* says that nothing offered beats its threshold without being held        *)
(* (Best), which a push, a candidate turned away and a skipped chunk       *)
(* preserve; that the block's other rows use the accumulator in between    *)
(* does not touch it.                                                      *)
(***************************************************************************)
EXTENDS BlockKernel, SequenceLemmas, FiniteSetTheorems

Columns == 0 .. NCols - 1
Cell == [k : Columns, x : Value]
Factor == [j : Nat, v : Value]
Result == [idx : Columns, val : Int]
Width == ChunkEnd - c0

-----------------------------------------------------------------------------
(* Rows of B *)

\* Of row r, exactly the entries before position p are in columns before c.
IsPoint(r, p, c) == p \in 1 .. Len(r) + 1 /\ \A e \in DOMAIN r : e < p <=> r[e].k < c

\* partition_point splits a canonical row at a column.
LEMMA PartitionPointSplits ==
  ASSUME NEW r \in Seq(Cell), Canonical(r), NEW c \in Int
  PROVE  IsPoint(r, PartitionPoint(r, c), c)
<1> DEFINE S == {p \in DOMAIN r : r[p].k < c}
<1>2. Len(r) \in Nat /\ DOMAIN r = 1 .. Len(r) /\ \A p \in DOMAIN r : r[p] \in Cell
  OBVIOUS
<1>1. \A p \in DOMAIN r : p \in 1 .. Len(r) /\ r[p].k \in Int
  BY <1>2, BlockAssumption DEF Cell, Columns
<1>3. \A p, h \in DOMAIN r : h \in S /\ p < h => p \in S
  BY <1>1 DEF Canonical
<1>7. \A m \in Nat : IsFiniteSet(1 .. m) /\ Cardinality(1 .. m) = m
  BY FS_Interval
<1>4. IsFiniteSet(1 .. Len(r)) /\ Cardinality(1 .. Len(r)) = Len(r)
  BY <1>2, <1>7
<1>5. S \subseteq 1 .. Len(r)
  BY <1>2
<1>6. IsFiniteSet(S) /\ Cardinality(S) \in Nat /\ Cardinality(S) <= Len(r)
  BY <1>4, <1>5, FS_Subset, FS_CardinalityType
<1> HIDE DEF S
<1>8. ASSUME NEW e \in DOMAIN r, e \in S PROVE e <= Cardinality(S)
  <2>1. 1 .. e \subseteq S
    BY <1>2, <1>3, <1>8
  <2>2. Cardinality(1 .. e) <= Cardinality(S)
    BY <1>6, <2>1, FS_Subset
  <2> QED
    BY <1>2, <1>7, <2>2
<1>9. ASSUME NEW e \in DOMAIN r, e \notin S PROVE Cardinality(S) < e
  <2>1. S \subseteq 1 .. (e - 1)
    <3>1. ASSUME NEW h \in S PROVE h \in 1 .. (e - 1)
      <4>1. h \in 1 .. Len(r)
        BY <1>5
      <4>2. ~ (e < h) /\ h # e
        BY <1>2, <1>3, <1>9, <4>1
      <4> QED
        BY <1>2, <4>1, <4>2
    <3> QED
      BY <3>1
  <2>2. e - 1 \in Nat /\ e \in Nat
    BY <1>2
  <2>4. IsFiniteSet(1 .. (e - 1)) /\ Cardinality(1 .. (e - 1)) = e - 1
    BY <1>7, <2>2
  <2>3. Cardinality(S) <= e - 1
    BY <2>1, <2>4, FS_Subset
  <2> QED
    BY <1>2, <1>6, <2>2, <2>3
<1>10. \A e \in DOMAIN r : e < Cardinality(S) + 1 <=> e \in S
  BY <1>2, <1>6, <1>8, <1>9
<1>11. PartitionPoint(r, c) = Cardinality(S) + 1
  BY DEF PartitionPoint, S
<1>12. Cardinality(S) + 1 \in 1 .. Len(r) + 1
  BY <1>2, <1>6
<1> QED
  BY <1>10, <1>11, <1>12 DEF IsPoint, S

\* The positions between two points.
LEMMA BetweenPoints ==
  ASSUME NEW r \in Seq(Cell), Canonical(r), NEW c \in Int, NEW d \in Int, c <= d
  PROVE  /\ PartitionPoint(r, c) \in 1 .. Len(r) + 1 /\ PartitionPoint(r, d) \in 1 .. Len(r) + 1
         /\ PartitionPoint(r, c) <= PartitionPoint(r, d)
         /\ PartitionPoint(r, c) .. PartitionPoint(r, d) - 1
              = {p \in DOMAIN r : r[p].k >= c /\ r[p].k < d}
         /\ Cardinality({p \in PartitionPoint(r, c) .. Len(r) : r[p].k < d})
              = PartitionPoint(r, d) - PartitionPoint(r, c)
<1>1. Len(r) \in Nat /\ DOMAIN r = 1 .. Len(r) /\ \A p \in DOMAIN r : r[p].k \in Int
  <2>1. \A p \in DOMAIN r : r[p] \in Cell
    OBVIOUS
  <2> QED
    BY <2>1, BlockAssumption DEF Cell, Columns
<1>2. PICK from, to : from = PartitionPoint(r, c) /\ to = PartitionPoint(r, d)
  OBVIOUS
<1>3. from \in 1 .. Len(r) + 1 /\ \A e \in DOMAIN r : e < from <=> r[e].k < c
  BY <1>2, PartitionPointSplits DEF IsPoint
<1>4. to \in 1 .. Len(r) + 1 /\ \A e \in DOMAIN r : e < to <=> r[e].k < d
  BY <1>2, PartitionPointSplits DEF IsPoint
<1>5. from <= to
  <2> SUFFICES ASSUME to < from PROVE FALSE
    BY <1>1, <1>3, <1>4
  <2>1. to \in DOMAIN r /\ r[to].k < c
    BY <1>1, <1>3, <1>4
  <2>2. ~ (r[to].k < d)
    BY <1>1, <1>4, <2>1
  <2> QED
    BY <1>1, <2>1, <2>2
<1>6. from .. to - 1 = {p \in DOMAIN r : r[p].k >= c /\ r[p].k < d}
  <2>1. ASSUME NEW p \in from .. to - 1
        PROVE  p \in DOMAIN r /\ r[p].k >= c /\ r[p].k < d
    <3>1. p \in DOMAIN r /\ p < to /\ ~ (p < from)
      BY <1>1, <1>3, <1>4
    <3> QED
      BY <1>1, <1>3, <1>4, <3>1
  <2>2. ASSUME NEW p \in DOMAIN r, r[p].k >= c, r[p].k < d
        PROVE  p \in from .. to - 1
    <3>1. p < to /\ ~ (p < from)
      BY <1>1, <1>3, <1>4, <2>2
    <3> QED
      BY <1>1, <1>3, <1>4, <3>1
  <2> QED
    BY <2>1, <2>2
<1>7. {p \in from .. Len(r) : r[p].k < d} = from .. to - 1
  <2>1. \A p \in from .. Len(r) : p \in DOMAIN r /\ (p < to <=> r[p].k < d)
    BY <1>1, <1>3, <1>4
  <2> QED
    BY <1>1, <1>3, <1>4, <2>1
<1>8. Cardinality(from .. to - 1) = to - from
  <2>1. PICK m \in Int : m = to - 1
    BY <1>1, <1>4
  <2>2. from \in Int /\ to \in Int /\ from <= m + 1
    BY <1>1, <1>3, <1>4, <1>5, <2>1
  <2>3. Cardinality(from .. m) = IF from > m THEN 0 ELSE m - from + 1
    BY <2>2, FS_Interval
  <2> QED
    BY <2>1, <2>2, <2>3
<1> QED
  BY <1>2, <1>3, <1>4, <1>5, <1>6, <1>7, <1>8

\* In a canonical row an entry is the one At finds.
LEMMA AtEntry ==
  ASSUME NEW r \in Seq(Cell), Canonical(r), NEW e \in DOMAIN r
  PROVE  /\ Has(r, r[e].k) /\ At(r, r[e].k) = r[e].x
         /\ r[e].k \in Columns /\ r[e].x \in Value
<1>1. DOMAIN r = 1 .. Len(r) /\ Len(r) \in Nat /\ \A p \in DOMAIN r : r[p] \in Cell
  OBVIOUS
<1>2. \A p \in DOMAIN r : r[p].k \in Int
  BY <1>1, BlockAssumption DEF Cell, Columns
<1>3. \A p \in DOMAIN r : r[p].k = r[e].k => p = e
  BY <1>1, <1>2 DEF Canonical
<1>4. (CHOOSE p \in DOMAIN r : r[p].k = r[e].k) = e
  BY <1>3
<1> QED
  BY <1>1, <1>4 DEF Has, At, Cell

LEMMA FMAddType ==
  ASSUME NEW v \in Value, NEW x \in Value, NEW acc \in Value
  PROVE  FMAdd(v, x, acc) \in Value
BY BlockAssumption DEF Value, FMAdd

-----------------------------------------------------------------------------
(* Rows of A, and their products *)

LEMMA RowOfA ==
  ASSUME a \in AMatrices
  PROVE  /\ Len(a) \in Nat \ {0} /\ DOMAIN a = 1 .. Len(a)
         /\ \A i \in 1 .. Len(a) : /\ a[i] \in Seq(Factor)
                                   /\ Len(a[i]) \in Nat /\ DOMAIN a[i] = 1 .. Len(a[i])
<1>1. a \in Seq(Seq(Factor)) /\ a # <<>>
  BY BlockAssumption DEF Factor
<1>2. Len(a) \in Nat /\ DOMAIN a = 1 .. Len(a) /\ (Len(a) = 0 => a = <<>>)
  BY <1>1
<1>3. \A i \in 1 .. Len(a) : a[i] \in Seq(Factor)
  BY <1>1, ElementOfSeq
<1>4. \A u \in Seq(Factor) : Len(u) \in Nat /\ DOMAIN u = 1 .. Len(u)
  OBVIOUS
<1> QED
  BY <1>1, <1>2, <1>3, <1>4

\* The row of B that an entry of A selects, and the entry's weight.
LEMMA RowOfB ==
  ASSUME a \in AMatrices, b \in BMatrices, NEW i \in 1 .. Len(a), NEW p \in 1 .. Len(a[i])
  PROVE  /\ b[a[i][p].j] \in Seq(Cell) /\ Canonical(b[a[i][p].j])
         /\ a[i][p].v \in Value
<1>1. a[i] \in Seq(Factor) /\ p \in DOMAIN a[i] /\ i \in DOMAIN a
  BY RowOfA
<1>2. a[i][p].j \in DOMAIN b
  BY <1>1, BlockAssumption
<1>3. b[a[i][p].j] \in Seq(Cell) /\ Canonical(b[a[i][p].j])
  BY <1>2, BlockAssumption DEF Cell, Columns
<1>4. a[i][p] \in Factor
  BY <1>1, ElementOfSeq
<1> QED
  BY <1>3, <1>4 DEF Factor

\* The partial sums of column k of the product of u with m.
Partials(u, m, k) ==
  CHOOSE acc : acc = [p \in 0 .. Len(u) |->
    IF p = 0 THEN 0
    ELSE IF Has(m[u[p].j], k) THEN FMAdd(u[p].v, At(m[u[p].j], k), acc[p - 1])
    ELSE acc[p - 1]]

\* One of the first n entries of u is in the product with column k.
Seen(u, m, k, n) == \E p \in 1 .. n : Has(m[u[p].j], k)

LEMMA DotIsLastPartial ==
  ASSUME NEW u, NEW m, NEW k
  PROVE  DotProduct(u, m, k) = Partials(u, m, k)[Len(u)]
BY DEF DotProduct, Partials

LEMMA PartialsAre ==
  ASSUME a \in AMatrices, b \in BMatrices, NEW i \in 1 .. Len(a), NEW k \in Int,
         NEW u, u = a[i]
  PROVE  /\ Partials(u, b, k) \in [0 .. Len(u) -> Value]
         /\ Partials(u, b, k)[0] = 0
         /\ \A p \in 1 .. Len(u) :
              Partials(u, b, k)[p] =
                IF Has(b[u[p].j], k)
                THEN FMAdd(u[p].v, At(b[u[p].j], k), Partials(u, b, k)[p - 1])
                ELSE Partials(u, b, k)[p - 1]
<1> DEFINE Add(p, s) == IF Has(b[u[p].j], k) THEN FMAdd(u[p].v, At(b[u[p].j], k), s) ELSE s
           IsPartials(acc) == acc = [p \in 0 .. Len(u) |->
              IF p = 0 THEN 0
              ELSE IF Has(b[u[p].j], k) THEN FMAdd(u[p].v, At(b[u[p].j], k), acc[p - 1])
              ELSE acc[p - 1]]
           step == [p \in 1 .. Len(u) |-> [s \in Value |-> Add(p, s)]]
<1>1. Len(u) \in Nat /\ DOMAIN u = 1 .. Len(u) /\ 0 \in Value
  BY RowOfA DEF Value
<1>2. ASSUME NEW p \in 1 .. Len(u), NEW s \in Value PROVE Add(p, s) \in Value
  <2>1. b[u[p].j] \in Seq(Cell) /\ u[p].v \in Value
    BY <1>1, RowOfB
  <2>2. CASE Has(b[u[p].j], k)
    <3>1. PICK e \in DOMAIN b[u[p].j] : b[u[p].j][e].k = k
      BY <2>2 DEF Has
    <3>2. Canonical(b[u[p].j])
      BY <1>1, RowOfB
    <3>3. At(b[u[p].j], k) = b[u[p].j][e].x
      BY <2>1, <3>1, <3>2, AtEntry
    <3>4. b[u[p].j][e].x \in Value
      BY <2>1, <3>2, AtEntry
    <3>5. At(b[u[p].j], k) \in Value
      BY <3>3, <3>4
    <3> QED
      BY <2>1, <2>2, <3>5, FMAddType
  <2>3. CASE ~ Has(b[u[p].j], k)
    BY <2>3
  <2> QED
    BY <2>2, <2>3
<1>3. step \in [1 .. Len(u) -> [Value -> Value]]
  BY <1>2
<1>4. \A p \in 1 .. Len(u), s \in Value : step[p][s] = Add(p, s)
  OBVIOUS
<1> HIDE DEF step, Add
<1>5. PICK g \in [0 .. Len(u) -> Value] :
        g[0] = 0 /\ \A p \in 1 .. Len(u) : g[p] = step[p][g[p - 1]]
  <2>1. 0 \in Value /\ Len(u) \in Nat
    BY <1>1
  <2>2. \E g : IsRun(g, Value, 0, Len(u), step)
    BY <1>3, <2>1, RecursionExists
  <2> QED
    BY <2>2 DEF IsRun
<1>6. \A p \in 1 .. Len(u) : p - 1 \in 0 .. Len(u) /\ g[p - 1] \in Value
  BY <1>1, <1>5
<1>7. \A p \in 1 .. Len(u) : g[p] = Add(p, g[p - 1])
  BY <1>4, <1>5, <1>6
<1>8. IsPartials(g)
  <2>1. \A p \in 0 .. Len(u) : g[p] = IF p = 0 THEN 0 ELSE Add(p, g[p - 1])
    BY <1>1, <1>5, <1>7
  <2> QED
    BY <1>5, <2>1 DEF Add
<1> DEFINE acc == Partials(u, b, k)
<1>9. IsPartials(acc)
  BY <1>8 DEF Partials
<1> HIDE DEF acc
<1>10. acc[0] = 0 /\ \A p \in 1 .. Len(u) : acc[p] = Add(p, acc[p - 1])
  <2>1. acc = [p \in 0 .. Len(u) |-> IF p = 0 THEN 0 ELSE Add(p, acc[p - 1])]
    BY <1>9 DEF Add
  <2>2. PICK h : h = acc
    OBVIOUS
  <2>3. \A p \in 0 .. Len(u) : acc[p] = IF p = 0 THEN 0 ELSE Add(p, h[p - 1])
    BY <2>1, <2>2
  <2>4. 0 \in 0 .. Len(u) /\ \A p \in 1 .. Len(u) : p \in 0 .. Len(u) /\ p # 0
    BY <1>1
  <2> QED
    BY <2>2, <2>3, <2>4
<1>11. acc = [p \in 0 .. Len(u) |-> acc[p]]
  BY <1>9
<1>12. \A p \in 0 .. Len(u) : acc[p] \in Value
  <2> DEFINE S == {p \in Nat : p <= Len(u) => acc[p] \in Value}
  <2>1. 0 \in S
    BY <1>1, <1>10
  <2>2. ASSUME NEW p \in Nat, p \in S PROVE p + 1 \in S
    <3> SUFFICES ASSUME p + 1 <= Len(u) PROVE acc[p + 1] \in Value
      OBVIOUS
    <3>1. p + 1 \in 1 .. Len(u) /\ (p + 1) - 1 = p /\ acc[p] \in Value
      BY <1>1, <2>2
    <3>2. acc[p + 1] = Add(p + 1, acc[p])
      BY <1>10, <3>1
    <3> QED
      BY <1>2, <3>1, <3>2
  <2> HIDE DEF S
  <2>3. \A p \in Nat : p \in S
    BY <2>1, <2>2, Induction
  <2> QED
    BY <1>1, <2>3 DEF S
<1>13. acc \in [0 .. Len(u) -> Value]
  BY <1>11, <1>12
<1> QED
  BY <1>10, <1>13 DEF acc, Add

\* Seen, one entry further; an unseen column sums to nothing.
LEMMA SeenNext ==
  ASSUME NEW u, NEW m, NEW k, NEW n \in Nat \ {0}
  PROVE  /\ Seen(u, m, k, n) <=> Seen(u, m, k, n - 1) \/ Has(m[u[n].j], k)
         /\ ~ Seen(u, m, k, 0)
<1>1. \A p : p \in 1 .. n <=> p \in 1 .. n - 1 \/ p = n
  OBVIOUS
<1>2. 1 .. 0 = {}
  OBVIOUS
<1> QED
  BY <1>1, <1>2 DEF Seen

LEMMA UnseenIsZero ==
  ASSUME a \in AMatrices, b \in BMatrices, NEW i \in 1 .. Len(a), NEW k \in Int,
         NEW u, u = a[i], NEW n \in 0 .. Len(u), ~ Seen(u, b, k, n)
  PROVE  Partials(u, b, k)[n] = 0
<1>1. Len(u) \in Nat
  BY RowOfA
<1> DEFINE S == {p \in Nat : p <= n => Partials(u, b, k)[p] = 0}
<1>2. 0 \in S
  BY PartialsAre
<1>3. ASSUME NEW p \in Nat, p \in S PROVE p + 1 \in S
  <2> SUFFICES ASSUME p + 1 <= n PROVE Partials(u, b, k)[p + 1] = 0
    OBVIOUS
  <2>1. p + 1 \in 1 .. n /\ p + 1 \in 1 .. Len(u) /\ (p + 1) - 1 = p /\ Partials(u, b, k)[p] = 0
    BY <1>1, <1>3
  <2>2. ~ Has(b[u[p + 1].j], k)
    BY <2>1 DEF Seen
  <2> QED
    BY <2>1, <2>2, PartialsAre
<1> HIDE DEF S
<1>4. \A m \in Nat : m \in S
  BY <1>2, <1>3, Induction
<1>5. n \in Nat /\ n <= n
  BY <1>1
<1> QED
  BY <1>4, <1>5 DEF S

-----------------------------------------------------------------------------
(* Selections *)

Entry == [order : Nat, idx : Columns, val : Int]
Sel == [entries : SUBSET Entry, n_set : Nat, min : Int]

AsResult(e) == [idx |-> e.idx, val |-> e.val]

\* The heap h, whose root is at m, holds of the results R every one above m, and
\* nothing else, each once.
Holds(h, m, R) ==
  /\ h \subseteq Entry /\ IsFiniteSet(h) /\ Cardinality(h) <= Capacity
  /\ m \in Root(h)
  /\ \A e \in h : e.val > Threshold /\ AsResult(e) \in R
  /\ \A e, f \in h : e.idx = f.idx => e = f
  /\ \A r \in R : r.val > m => \E e \in h : AsResult(e) = r

LEMMA RootFacts ==
  ASSUME NEW h, NEW m, NEW R, Holds(h, m, R)
  PROVE  /\ m \in Int /\ Threshold \in Int /\ Capacity \in Nat \ {0} /\ m >= Threshold
         /\ Cardinality(h) \in Nat
         /\ \A e \in h : e.val \in Int /\ e.val >= m
         /\ Cardinality(h) < Capacity => m = Threshold
         /\ Cardinality(h) = Capacity => \A f \in Lowest(h) : f.val = m
<1>1. IsFiniteSet(h) /\ h \subseteq Entry /\ Threshold \in Int /\ Capacity \in Nat \ {0}
  BY BlockAssumption DEF Holds
<1>2. Cardinality(h) \in Nat
  BY <1>1, FS_CardinalityType
<1>3. \A e \in h : e.val \in Int /\ e.val > Threshold
  BY <1>1 DEF Holds, Entry
<1>4. CASE Cardinality(h) < Capacity
  <2>1. m = Threshold
    BY <1>4 DEF Holds, Root
  <2> QED
    BY <1>1, <1>2, <1>3, <1>4, <2>1
<1>5. CASE ~ (Cardinality(h) < Capacity)
  <2>1. PICK e \in Lowest(h) : m = e.val
    BY <1>5 DEF Holds, Root
  <2>2. e \in h /\ \A f \in h : e.val <= f.val
    BY <2>1 DEF Lowest
  <2>3. \A f \in Lowest(h) : f \in h /\ f.val <= e.val
    BY <2>2 DEF Lowest
  <2> QED
    BY <1>1, <1>2, <1>3, <1>5, <2>1, <2>2, <2>3
<1> QED
  BY <1>4, <1>5

\* Results that do not beat the root are passed by.
LEMMA HoldsMore ==
  ASSUME NEW h, NEW m, NEW R, NEW S, Holds(h, m, R), R \subseteq S,
         \A r \in S : r \in R \/ ~ (r.val > m)
  PROVE  Holds(h, m, S)
BY DEF Holds

\* One that does is pushed.
LEMMA HoldsPush ==
  ASSUME NEW h, NEW m, NEW R, R \subseteq Result, Holds(h, m, R),
         NEW e \in Entry, e.val > m, \A r \in R : r.idx # e.idx,
         NEW g \in Pushed(h, e), NEW l \in Root(g)
  PROVE  Holds(g, l, R \cup {AsResult(e)}) /\ g \subseteq h \cup {e} /\ l \in Int
<1>1. PICK evicted \in IF Cardinality(h) < Capacity THEN {{}} ELSE {{f} : f \in Lowest(h)} :
        g = (h \ evicted) \cup {e}
  BY DEF Pushed
<1>2. /\ IsFiniteSet(h) /\ h \subseteq Entry /\ Cardinality(h) <= Capacity
      /\ e.idx \in Columns /\ e.val \in Int
  BY DEF Holds, Entry
<1>3. e \notin h /\ \A f \in h : f.idx # e.idx
  BY DEF Holds, AsResult
<1>4. \/ Cardinality(h) < Capacity /\ evicted = {}
      \/ Cardinality(h) = Capacity /\ \E f \in Lowest(h) : evicted = {f}
  BY <1>1, <1>2, RootFacts
<1>5. /\ Cardinality(h) < Capacity => Cardinality(g) = Cardinality(h) + 1
      /\ Cardinality(h) = Capacity => Cardinality(g) = Capacity
      /\ IsFiniteSet(g)
  <2>1. CASE evicted = {}
    <3>1. g = h \cup {e} /\ Cardinality(h) < Capacity
      BY <1>1, <1>4, <2>1
    <3>2. Cardinality(g) = Cardinality(h) + 1 /\ IsFiniteSet(g)
      BY <1>2, <1>3, <3>1, FS_AddElement
    <3> QED
      BY <3>1, <3>2, RootFacts
  <2>2. CASE evicted # {}
    <3>1. PICK f \in h : g = (h \ {f}) \cup {e}
      BY <1>1, <1>4, <2>2 DEF Lowest
    <3>2. IsFiniteSet(h \ {f}) /\ Cardinality(h \ {f}) = Cardinality(h) - 1
      BY <1>2, <3>1, FS_RemoveElement
    <3>3. Cardinality(g) = (Cardinality(h) - 1) + 1 /\ IsFiniteSet(g)
      BY <1>3, <3>1, <3>2, FS_AddElement
    <3>4. Cardinality(h) = Capacity
      BY <1>4, <2>2
    <3> QED
      BY <3>3, <3>4, RootFacts
  <2> QED
    BY <2>1, <2>2
<1>6. Cardinality(g) <= Capacity
  BY <1>2, <1>5, RootFacts
<1>7. g \subseteq h \cup {e} /\ e \in g
  BY <1>1
<1>8. \A f \in g : f.val \in Int /\ f.val >= m
  BY <1>2, <1>7, RootFacts
<1>9. l >= m /\ l \in Int
  <2>1. CASE Cardinality(g) < Capacity
    <3>1. l = Threshold
      BY <2>1 DEF Root
    <3>2. Cardinality(h) < Capacity
      BY <1>2, <1>5, <2>1, RootFacts
    <3> QED
      BY <3>1, <3>2, RootFacts
  <2>2. CASE ~ (Cardinality(g) < Capacity)
    <3>1. PICK f \in g : l = f.val
      BY <2>2 DEF Root, Lowest
    <3> QED
      BY <1>8, <3>1
  <2> QED
    BY <2>1, <2>2
<1>10. \A f \in g : f.val > Threshold /\ AsResult(f) \in R \cup {AsResult(e)}
  <2>1. e.val > Threshold
    BY <1>2, RootFacts
  <2> QED
    BY <1>7, <2>1 DEF Holds
<1>11. \A f, d \in g : f.idx = d.idx => f = d
  BY <1>3, <1>7 DEF Holds
<1>12. ASSUME NEW r \in R, r.val > l
       PROVE  \E f \in g : AsResult(f) = r
  <2>1. r.val \in Int /\ r.val > m
    BY <1>9, <1>12, RootFacts DEF Result
  <2>2. PICK f \in h : AsResult(f) = r
    BY <2>1 DEF Holds
  <2>3. f.val > m
    BY <2>1, <2>2 DEF AsResult
  <2>4. f \notin evicted
    BY <1>4, <2>3, RootFacts
  <2> QED
    BY <1>1, <2>2, <2>4
<1> QED
  BY <1>2, <1>5, <1>6, <1>7, <1>9, <1>10, <1>11, <1>12 DEF Holds

\* Such a heap is a selection of the best.
LEMMA HoldsIsTopN ==
  ASSUME NEW h, NEW m, NEW R, R \subseteq Result, Holds(h, m, R), NEW s
  PROVE  /\ Selection(s)!IsTopN({AsResult(e) : e \in h}, R)
         /\ Cardinality({AsResult(e) : e \in h}) = Cardinality(h)
<1> DEFINE kept == {AsResult(e) : e \in h}
           best == {c \in R : c.val > Threshold}
           f == [e \in h |-> AsResult(e)]
<1>1. /\ IsFiniteSet(h) /\ Cardinality(h) <= Capacity /\ h \subseteq Entry
      /\ \A e \in h : AsResult(e) \in R /\ e.val > Threshold
      /\ \A e, g \in h : e.idx = g.idx => e = g
  BY DEF Holds
<1>2. \A e \in h : AsResult(e).val = e.val /\ AsResult(e).idx = e.idx
  BY DEF AsResult
<1>3. kept \subseteq best
  BY <1>1, <1>2
<1>4. Cardinality(kept) = Cardinality(h)
  <2>1. f \in [h -> kept]
    OBVIOUS
  <2>2. \A e, g \in h : f[e] = f[g] => e = g
    BY <1>1, <1>2
  <2>3. \A o \in kept : \E e \in h : f[e] = o
    OBVIOUS
  <2> HIDE DEF f, kept
  <2>4. f \in Bijection(h, kept)
    BY <2>1, <2>2, <2>3 DEF Bijection, Injection, Surjection, IsInjective
  <2> QED
    BY <1>1, <2>4, FS_Bijection DEF ExistsBijection
<1>5. \A o \in best \ kept : o.val \in Int /\ ~ (o.val > m)
  BY DEF Holds, Result
<1>6. kept = best \/ Cardinality(kept) = Capacity
  <2>1. CASE Cardinality(h) = Capacity
    BY <1>4, <2>1
  <2>2. CASE Cardinality(h) # Capacity
    <3>1. m = Threshold
      BY <1>1, <2>2, RootFacts
    <3>2. \A o \in best : o \in kept
      BY <1>5, <3>1
    <3> QED
      BY <1>3, <3>2
  <2> QED
    BY <2>1, <2>2
<1>7. \A o \in kept, p \in best \ kept : o.val >= p.val
  <2> SUFFICES ASSUME NEW e \in h, NEW p \in best \ kept PROVE e.val >= p.val
    BY <1>2
  <2>1. e.val >= m /\ e.val \in Int /\ m \in Int
    BY RootFacts
  <2> QED
    BY <1>5, <2>1
<1>8. Selection(s)!Eligible(R) = best
  BY DEF Selection!Eligible
<1>9. Selection(s)!Cardinality(kept) = Cardinality(kept)
  BY DEF Selection!Cardinality, Cardinality
<1>10. Cardinality(kept) <= Capacity
  BY <1>1, <1>4
<1> HIDE DEF kept, best
<1>11. Selection(s)!IsTopN(kept, R)
  BY <1>3, <1>6, <1>7, <1>8, <1>9, <1>10 DEF Selection!IsTopN
<1> QED
  BY <1>4, <1>11 DEF kept

-----------------------------------------------------------------------------
(* Drains *)

\* Selection x is right after n columns of which R are results.
Best(x, R, n) ==
  /\ x \in Sel /\ x.n_set <= n
  /\ Holds(x.entries, x.min, R)
  /\ \A e \in x.entries : e.order < x.n_set

Candidate == [idx : Columns, val : Value]

\* A candidate that is a result of row q.
Real(c) == c.val # NaN /\ (use_dense[q] => c.val # 0)

\* Of the first n candidates cs, those that are results.
Reals(cs, n) == {cs[p] : p \in {o \in 1 .. n : Real(cs[o])}}

LEMMA PushType ==
  ASSUME NEW u \in Sel, NEW e \in Entry, NEW h \in Pushed(u.entries, e), NEW m \in Root(h)
  PROVE  h \subseteq Entry /\ m \in Int
<1>1. u.entries \subseteq Entry
  BY DEF Sel
<1>2. h \subseteq u.entries \cup {e}
  BY DEF Pushed
<1>3. h \subseteq Entry
  BY <1>1, <1>2
<1>4. m = Threshold \/ \E f \in h : m = f.val
  BY DEF Root, Lowest
<1> QED
  BY <1>3, <1>4, BlockAssumption DEF Entry

\* What an offer does to a selection: pass it by, or push it.
LEMMA OfferCases ==
  ASSUME NEW u \in Sel, NEW c \in Candidate, NEW t \in OfferTo(u, c)
  PROVE  /\ t \in Sel
         /\ \/ t = u /\ (Real(c) => c.val \in Int /\ ~ (c.val > u.min))
            \/ \E e \in Entry : /\ e.order = u.n_set /\ AsResult(e) = c
                                /\ c.val > u.min /\ Real(c)
                                /\ t.entries \in Pushed(u.entries, e)
                                /\ t.min \in Root(t.entries) /\ t.n_set = u.n_set + 1
<1>1. /\ c.idx \in Columns /\ c.val \in Value /\ c = [idx |-> c.idx, val |-> c.val]
      /\ u.min \in Int /\ u.n_set \in Nat /\ NaN \notin Int
  BY BlockAssumption DEF Candidate, Sel
<1>2. CASE ~ Gt(c.val, u.min) \/ (use_dense[q] /\ c.val = 0)
  <2>1. t = u
    BY <1>2 DEF OfferTo
  <2>2. Real(c) => c.val \in Int /\ ~ (c.val > u.min)
    BY <1>1, <1>2 DEF Real, Gt, Value
  <2> QED
    BY <2>1, <2>2
<1>3. CASE ~ (~ Gt(c.val, u.min) \/ (use_dense[q] /\ c.val = 0))
  <2>1. c.val \in Int /\ c.val > u.min /\ Real(c)
    BY <1>1, <1>3 DEF Gt, Value, Real
  <2> DEFINE e == [order |-> u.n_set, idx |-> c.idx, val |-> c.val]
  <2>2. e \in Entry /\ e.order = u.n_set /\ AsResult(e) = c
    BY <1>1, <2>1 DEF Entry, AsResult
  <2>3. PICK h \in Pushed(u.entries, e) :
          t \in UNION {{[entries |-> h, n_set |-> u.n_set + 1, min |-> m] : m \in Root(h)}}
    BY <1>3 DEF OfferTo
  <2> HIDE DEF e
  <2>4. PICK m \in Root(h) : t = [entries |-> h, n_set |-> u.n_set + 1, min |-> m]
    BY <2>3
  <2>5. h \subseteq Entry /\ m \in Int
    BY <2>2, <2>3, <2>4, PushType
  <2>6. t \in Sel
    BY <1>1, <2>4, <2>5 DEF Sel
  <2>7. t.entries = h /\ t.min = m /\ t.n_set = u.n_set + 1
    BY <2>4
  <2> QED
    BY <2>1, <2>2, <2>3, <2>4, <2>6, <2>7
<1> QED
  BY <1>2, <1>3

LEMMA OfferIsBest ==
  ASSUME NEW u, NEW R, R \subseteq Result, NEW n \in Nat, Best(u, R, n),
         NEW c \in Candidate, \A r \in R : r.idx # c.idx, NEW t \in OfferTo(u, c)
  PROVE  /\ Best(t, R \cup {o \in {c} : Real(o)}, n + 1)
         /\ \A e \in t.entries : e \in u.entries \/ (Real(c) /\ AsResult(e) = c)
<1> DEFINE S == R \cup {o \in {c} : Real(o)}
<1>1. /\ u \in Sel /\ u.n_set <= n /\ Holds(u.entries, u.min, R) /\ u.n_set \in Nat
      /\ \A e \in u.entries : e.order < u.n_set /\ e.order \in Nat
  BY DEF Best, Sel, Holds, Entry
<1>2. CASE t = u /\ (Real(c) => c.val \in Int /\ ~ (c.val > u.min))
  <2>1. \A r \in S : r \in R \/ ~ (r.val > u.min)
    BY <1>2
  <2>2. Holds(u.entries, u.min, S)
    BY <1>1, <2>1, HoldsMore
  <2> QED
    BY <1>1, <1>2, <2>2 DEF Best
<1>3. ASSUME NEW e \in Entry, e.order = u.n_set, AsResult(e) = c, c.val > u.min, Real(c),
             t.entries \in Pushed(u.entries, e), t.min \in Root(t.entries),
             t.n_set = u.n_set + 1, t \in Sel
      PROVE  /\ Best(t, S, n + 1)
             /\ \A f \in t.entries : f \in u.entries \/ (Real(c) /\ AsResult(f) = c)
  <2>1. e.val = c.val /\ e.idx = c.idx
    BY <1>3 DEF AsResult
  <2>2. S = R \cup {AsResult(e)}
    BY <1>3
  <2>3. Holds(t.entries, t.min, S) /\ t.entries \subseteq u.entries \cup {e}
    <3>1. PICK h, m, g, l : h = u.entries /\ m = u.min /\ g = t.entries /\ l = t.min
      OBVIOUS
    <3>2. Holds(h, m, R) /\ e.val > m /\ g \in Pushed(h, e) /\ l \in Root(g)
      BY <1>1, <1>3, <2>1, <3>1
    <3>3. \A r \in R : r.idx # e.idx
      BY <2>1
    <3>4. Holds(g, l, R \cup {AsResult(e)}) /\ g \subseteq h \cup {e}
      BY <3>2, <3>3, HoldsPush
    <3> QED
      BY <2>2, <3>1, <3>4
  <2>4. \A f \in t.entries : f.order < t.n_set
    BY <1>1, <1>3, <2>3
  <2>5. t.n_set <= n + 1
    BY <1>1, <1>3
  <2> QED
    BY <1>3, <2>3, <2>4, <2>5 DEF Best
<1> HIDE DEF S
<1>4. \/ t = u /\ (Real(c) => c.val \in Int /\ ~ (c.val > u.min))
      \/ \E e \in Entry : /\ e.order = u.n_set /\ AsResult(e) = c
                          /\ c.val > u.min /\ Real(c)
                          /\ t.entries \in Pushed(u.entries, e)
                          /\ t.min \in Root(t.entries) /\ t.n_set = u.n_set + 1
  BY <1>1, OfferCases
<1>5. t \in Sel
  BY <1>1, OfferCases
<1> QED
  BY <1>2, <1>3, <1>4, <1>5 DEF S

\* The steps of a drain of cs, from s.
DrainsBy(g, cs, s) ==
  /\ g[0] = {s} /\ g[Len(cs)] = After(s)
  /\ \A p \in 1 .. Len(cs) : g[p] = UNION {OfferTo(u, cs[p]) : u \in g[p - 1]}

LEMMA AfterRuns ==
  ASSUME NEW cs, cs = Candidates, cs \in Seq(Candidate), NEW s \in Sel
  PROVE  \E g : DrainsBy(g, cs, s)
<1> DEFINE All == SUBSET Sel
           Turn(p, S) == UNION {OfferTo(u, cs[p]) : u \in S}
           step == [p \in 1 .. Len(cs) |-> [S \in All |-> Turn(p, S)]]
           IsAfter(f) == f = [n \in 0 .. Len(Candidates) |->
             IF n = 0 THEN {s} ELSE UNION {OfferTo(u, Candidates[n]) : u \in f[n - 1]}]
           f == CHOOSE f : IsAfter(f)
<1>1. Len(cs) \in Nat /\ \A p \in 1 .. Len(cs) : cs[p] \in Candidate
  BY ElementOfSeq
<1>2. {s} \in All
  OBVIOUS
<1>3. ASSUME NEW p \in 1 .. Len(cs), NEW S \in All PROVE Turn(p, S) \in All
  <2>1. ASSUME NEW t \in Turn(p, S) PROVE t \in Sel
    <3>1. PICK u \in S : t \in OfferTo(u, cs[p])
      OBVIOUS
    <3> QED
      BY <1>1, <3>1, OfferCases
  <2> QED
    BY <2>1
<1>4. step \in [1 .. Len(cs) -> [All -> All]]
  BY <1>3
<1>5. \A p \in 1 .. Len(cs), S \in All : step[p][S] = Turn(p, S)
  OBVIOUS
<1> HIDE DEF step, Turn, All
<1>6. \E g : IsRun(g, All, {s}, Len(cs), step)
  BY <1>1, <1>2, <1>4, RecursionExists
<1>7. PICK g \in [0 .. Len(cs) -> All] :
        g[0] = {s} /\ \A p \in 1 .. Len(cs) : g[p] = step[p][g[p - 1]]
  BY <1>6 DEF IsRun
<1>8. \A p \in 1 .. Len(cs) : p - 1 \in 0 .. Len(cs) /\ g[p - 1] \in All
  BY <1>1, <1>7
<1>9. \A p \in 1 .. Len(cs) : g[p] = Turn(p, g[p - 1])
  BY <1>5, <1>7, <1>8
<1>10. IsAfter(g)
  <2>1. \A p \in 0 .. Len(cs) : g[p] = IF p = 0 THEN {s} ELSE Turn(p, g[p - 1])
    BY <1>1, <1>7, <1>9
  <2> QED
    BY <1>7, <2>1 DEF Turn
<1>11. IsAfter(f)
  BY <1>10
<1>12. After(s) = f[Len(cs)]
  BY DEF After
<1> HIDE DEF f
<1>13. f[0] = {s} /\ \A p \in 1 .. Len(cs) : f[p] = Turn(p, f[p - 1])
  <2>1. f = [p \in 0 .. Len(cs) |-> IF p = 0 THEN {s} ELSE Turn(p, f[p - 1])]
    BY <1>11 DEF Turn
  <2>2. PICK h : h = f
    OBVIOUS
  <2>3. \A p \in 0 .. Len(cs) : f[p] = IF p = 0 THEN {s} ELSE Turn(p, h[p - 1])
    BY <2>1, <2>2
  <2>4. 0 \in 0 .. Len(cs) /\ \A p \in 1 .. Len(cs) : p \in 0 .. Len(cs) /\ p # 0
    BY <1>1
  <2> QED
    BY <2>2, <2>3, <2>4
<1>14. \A p \in 0 .. Len(cs) : f[p] = g[p]
  <2> DEFINE N == {p \in Nat : p <= Len(cs) => f[p] = g[p]}
  <2>1. 0 \in N
    BY <1>7, <1>13
  <2>2. ASSUME NEW p \in Nat, p \in N PROVE p + 1 \in N
    <3> SUFFICES ASSUME p + 1 <= Len(cs) PROVE f[p + 1] = g[p + 1]
      OBVIOUS
    <3>1. p + 1 \in 1 .. Len(cs) /\ (p + 1) - 1 = p /\ f[p] = g[p]
      BY <1>1, <2>2
    <3> QED
      BY <1>9, <1>13, <3>1
  <2> HIDE DEF N
  <2>3. \A p \in Nat : p \in N
    BY <2>1, <2>2, Induction
  <2> QED
    BY <1>1, <2>3 DEF N
<1>15. Len(cs) \in 0 .. Len(cs)
  BY <1>1
<1>16. g[Len(cs)] = After(s)
  BY <1>12, <1>14, <1>15
<1> QED
  BY <1>7, <1>9, <1>16 DEF Turn, DrainsBy

\* A drain of candidates in different columns, none of which came before.
LEMMA AfterIsBest ==
  ASSUME NEW cs, cs = Candidates, cs \in Seq(Candidate), NEW s, NEW R, R \subseteq Result,
         NEW n \in Nat, Best(s, R, n),
         \A p, o \in 1 .. Len(cs) : p # o => cs[p].idx # cs[o].idx,
         \A r \in R, p \in 1 .. Len(cs) : r.idx # cs[p].idx,
         NEW t \in After(s)
  PROVE  /\ Best(t, R \cup Reals(cs, Len(cs)), n + Len(cs))
         /\ \A e \in t.entries : e \in s.entries \/ AsResult(e) \in Reals(cs, Len(cs))
<1> DEFINE Fine(x, m) ==
      /\ Best(x, R \cup Reals(cs, m), n + m)
      /\ \A e \in x.entries : e \in s.entries \/ AsResult(e) \in Reals(cs, m)
<1>1. PICK len \in Nat : len = Len(cs)
  OBVIOUS
<1>2. \A p \in 1 .. len : cs[p] \in Candidate
  BY <1>1, ElementOfSeq
<1>3. s \in Sel
  BY DEF Best
<1>4. PICK g : /\ g[0] = {s} /\ g[len] = After(s)
               /\ \A p \in 1 .. len : g[p] = UNION {OfferTo(u, cs[p]) : u \in g[p - 1]}
  <2>1. PICK g : DrainsBy(g, cs, s)
    BY <1>3, AfterRuns
  <2>2. /\ g[0] = {s} /\ g[len] = After(s)
        /\ \A p \in 1 .. len : g[p] = UNION {OfferTo(u, cs[p]) : u \in g[p - 1]}
    BY <1>1, <2>1 DEF DrainsBy
  <2> QED
    BY <2>2
<1> DEFINE I == {m \in Nat : m <= len => \A x \in g[m] : Fine(x, m)}
<1>5. \A x \in g[0] : Fine(x, 0)
  <2>1. Reals(cs, 0) = {}
    BY DEF Reals
  <2>2. R \cup {} = R /\ n + 0 = n
    OBVIOUS
  <2>3. Fine(s, 0)
    BY <2>1, <2>2
  <2> QED
    BY <1>4, <2>3
<1>6. ASSUME NEW m \in Nat, m + 1 <= len, \A x \in g[m] : Fine(x, m), NEW x \in g[m + 1]
      PROVE  Fine(x, m + 1)
  <2>1. m + 1 \in 1 .. len /\ (m + 1) - 1 = m /\ n + m \in Nat /\ (n + m) + 1 = n + (m + 1)
    BY <1>6
  <2>2. PICK u \in g[m] : x \in OfferTo(u, cs[m + 1])
    BY <1>4, <2>1
  <2>3. PICK c \in Candidate : c = cs[m + 1]
    BY <1>2, <2>1
  <2>4. Fine(u, m)
    BY <1>6, <2>2
  <2> DEFINE old == Reals(cs, m)
  <2>5. \A r \in old : r \in Result /\ r.idx # c.idx
    <3>1. ASSUME NEW o \in 1 .. m, Real(cs[o]) PROVE cs[o] \in Result /\ cs[o].idx # c.idx
      <4>1. o \in 1 .. len /\ o # m + 1
        BY <1>6
      <4>2. cs[o] \in Candidate /\ cs[o].idx # cs[m + 1].idx
        BY <1>1, <1>2, <2>1, <4>1
      <4>3. cs[o].val \in Int /\ cs[o] \in Result
        BY <3>1, <4>2 DEF Real, Candidate, Value, Result
      <4> QED
        BY <2>3, <4>2, <4>3
    <3> QED
      BY <3>1 DEF Reals
  <2>6. \A r \in R \cup old : r.idx # c.idx
    <3>1. \A r \in R : r.idx # c.idx
      BY <1>1, <2>1, <2>3
    <3> QED
      BY <2>5, <3>1
  <2>7. R \cup old \subseteq Result
    BY <2>5
  <2>8. Reals(cs, m + 1) = old \cup {o \in {c} : Real(o)}
    <3>1. \A p : p \in 1 .. m + 1 <=> p \in 1 .. m \/ p = m + 1
      BY <2>1
    <3> QED
      BY <2>3, <3>1 DEF Reals
  <2>9. R \cup Reals(cs, m + 1) = (R \cup old) \cup {o \in {c} : Real(o)}
    BY <2>8
  <2>10. Best(u, R \cup old, n + m) /\ \A e \in u.entries : e \in s.entries \/ AsResult(e) \in old
    BY <2>4
  <2> HIDE DEF old
  <2>13. PICK k \in Nat : k = n + m
    BY <2>1
  <2>15. PICK S : S = R \cup old
    OBVIOUS
  <2>11. /\ Best(x, S \cup {o \in {c} : Real(o)}, k + 1)
         /\ \A e \in x.entries : e \in u.entries \/ (Real(c) /\ AsResult(e) = c)
    <3>1. S \subseteq Result /\ Best(u, S, k) /\ (\A r \in S : r.idx # c.idx)
          /\ x \in OfferTo(u, c)
      BY <2>2, <2>3, <2>6, <2>7, <2>10, <2>13, <2>15
    <3> QED
      BY <3>1, OfferIsBest
  <2>12. Best(x, R \cup Reals(cs, m + 1), n + (m + 1))
    BY <2>1, <2>9, <2>11, <2>13, <2>15
  <2>14. \A e \in x.entries : e \in s.entries \/ AsResult(e) \in Reals(cs, m + 1)
    BY <2>8, <2>10, <2>11
  <2> QED
    BY <2>12, <2>14
<1> HIDE DEF Fine
<1>7. 0 \in I
  BY <1>5
<1>8. ASSUME NEW m \in Nat, m \in I PROVE m + 1 \in I
  <2> SUFFICES ASSUME m + 1 <= len PROVE \A x \in g[m + 1] : Fine(x, m + 1)
    OBVIOUS
  <2>1. m <= len
    OBVIOUS
  <2>2. \A x \in g[m] : Fine(x, m)
    BY <1>8, <2>1
  <2> QED
    BY <1>6, <2>2
<1> HIDE DEF I
<1>9. \A m \in Nat : m \in I
  BY <1>7, <1>8, Induction
<1>10. \A x \in g[len] : Fine(x, len)
  BY <1>9 DEF I
<1> QED
  BY <1>1, <1>4, <1>10 DEF Fine

-----------------------------------------------------------------------------
(* The inductive invariant *)

CallOK ==
  /\ a \in AMatrices /\ b \in BMatrices /\ is_float \in BOOLEAN
  /\ sort \in {"ByColumn", "ByValueDesc"}
  /\ block_rows \in 1 .. Len(a) /\ lo \in 0 .. Len(a)

PositionOK ==
  /\ pc \in {"block", "scatter", "emit", "done"}
  /\ pc # "done" => lo < Len(a)
  /\ c0 \in 0 .. NCols /\ q \in 0 .. block_rows - 1 /\ jj \in Nat \ {0}
  /\ pc \in {"block", "done"} => q = 0
  /\ pc \in {"scatter", "emit"} => q \in Block
  /\ pc = "scatter" => c0 < NCols /\ jj \in 1 .. Len(ARow(q)) + 1
  /\ pc = "emit" => c0 = NCols
  /\ pc # "scatter" => jj = 1

CursorsOK ==
  /\ cursors \in Seq(Nat \ {0})
  /\ pc = "scatter" /\ projection = "Cursor" => Len(cursors) = CursorBase(BlockLen)
  /\ CursorsResume

Clean == list = <<>> /\ \A k \in Locals : sums[k] = 0

\* What the accumulator holds of row q in this chunk: column by column the sum
\* of the products of its first jj - 1 entries.
Accumulated ==
  /\ \A k \in Locals : sums[k] = IF k < Width THEN Partials(ARow(q), b, c0 + k)[jj - 1] ELSE 0
  /\ \A p, o \in DOMAIN list : list[p] = list[o] => p = o
  /\ IF use_dense[q]
     THEN /\ list = <<>>
          /\ \A k \in Locals : k < Width /\ Seen(ARow(q), b, c0 + k, jj - 1) /\ sums[k] # NaN
                               => sums[k] <= chunk_max
     ELSE Listed = {k \in Locals : k < Width /\ Seen(ARow(q), b, c0 + k, jj - 1)}

AccumulatorOK ==
  /\ sums \in [Locals -> Value] /\ list \in Seq(Locals) /\ chunk_max \in Int
  /\ IF pc = "scatter" THEN Accumulated ELSE Clean

\* The columns row s of the block has been drained of: Passed(s) ends here.
Done(s) == IF pc = "scatter" /\ s < q THEN ChunkEnd ELSE c0

Typed(x) == /\ x.entries \subseteq [order : 0 .. x.n_set - 1, idx : Columns, val : Int]
            /\ x.n_set \in 0 .. NCols

SelectionsOK ==
  /\ \A s \in DOMAIN selected : Typed(selected[s])
  /\ pc \in {"scatter", "emit"} =>
       /\ use_dense \in [Block -> BOOLEAN] /\ \A s \in Block : use_dense[s] => is_float
       /\ DOMAIN selected = Block /\ selected = [s \in Block |-> selected[s]]
       /\ \A s \in Block :
            Best(selected[s], Results(ARow(s), use_dense[s], Passed(s)), Done(s))

OutputOK == out \in Seq(Seq(Result)) /\ OutputIsTopN

BInv == CallOK /\ PositionOK /\ CursorsOK /\ AccumulatorOK /\ SelectionsOK /\ OutputOK

-----------------------------------------------------------------------------
(* Chunks, blocks, rows *)

LEMMA Constants ==
  /\ NCols \in Nat \ {0} /\ ChunkCols \in 1 .. NCols /\ ChunkCols \in Nat \ {0}
  /\ Threshold \in Int /\ NaN \notin Int /\ 0 \in Value
BY BlockAssumption DEF Value

LEMMA ChunkFacts ==
  ASSUME c0 \in 0 .. NCols
  PROVE  /\ ChunkEnd \in 0 .. NCols /\ Width \in 0 .. ChunkCols /\ ChunkEnd = c0 + Width
         /\ c0 <= ChunkEnd /\ (c0 < NCols => c0 < ChunkEnd /\ 0 < Width)
         /\ \A k \in Locals : k < Width => c0 + k \in Columns /\ k \in 0 .. Width - 1
         /\ \A k \in 0 .. Width - 1 : k \in Locals /\ k < Width
         /\ \A j \in Int : c0 <= j /\ j < ChunkEnd => j - c0 \in 0 .. Width - 1
BY Constants DEF ChunkEnd, Width, Min2, Locals, Columns

LEMMA BlockFacts ==
  ASSUME CallOK, lo < Len(a)
  PROVE  /\ Len(a) \in Nat \ {0} /\ BlockLen \in 1 .. block_rows /\ BlockLen \in Nat \ {0}
         /\ lo + BlockLen \in 1 .. Len(a) /\ Block = 0 .. BlockLen - 1
         /\ \A s \in Block : /\ lo + s + 1 \in 1 .. Len(a) /\ ARow(s) = a[lo + s + 1]
                             /\ ARow(s) \in Seq(Factor) /\ Len(ARow(s)) \in Nat
                             /\ DOMAIN ARow(s) = 1 .. Len(ARow(s))
<1>1. Len(a) \in Nat \ {0} /\ a \in AMatrices
  BY RowOfA DEF CallOK
<1>2. BlockLen \in 1 .. block_rows /\ lo + BlockLen \in 1 .. Len(a) /\ block_rows \in Nat
  BY <1>1 DEF CallOK, BlockLen, Min2
<1>3. \A s \in Block : lo + s + 1 \in 1 .. Len(a)
  BY <1>1, <1>2 DEF CallOK, Block
<1>4. \A s \in Block : ARow(s) = a[lo + s + 1]
  BY DEF ARow
<1>5. BlockLen \in Nat \ {0}
  BY <1>2
<1> QED
  BY <1>1, <1>2, <1>3, <1>4, <1>5, RowOfA DEF Block

LEMMA EntryFacts ==
  ASSUME CallOK, lo < Len(a), NEW s \in Block, NEW e \in 1 .. Len(ARow(s))
  PROVE  BRow(s, e) \in Seq(Cell) /\ Canonical(BRow(s, e)) /\ ARow(s)[e].v \in Value
<1>1. a \in AMatrices /\ b \in BMatrices
  BY DEF CallOK
<1>2. lo + s + 1 \in 1 .. Len(a) /\ ARow(s) = a[lo + s + 1]
  BY BlockFacts
<1>3. PICK i \in 1 .. Len(a) : ARow(s) = a[i]
  BY <1>2
<1> QED
  BY <1>1, <1>3, RowOfB DEF BRow

\* A column of the product of row s, and its results.
LEMMA ColumnFacts ==
  ASSUME CallOK, lo < Len(a), NEW s \in Block, NEW k \in Columns
  PROVE  LET u == ARow(s) IN
         /\ \A n \in 0 .. Len(u) : Partials(u, b, k)[n] \in Value
         /\ Partials(u, b, k)[0] = 0 /\ ~ Seen(u, b, k, 0)
         /\ \A n \in 1 .. Len(u) :
              /\ Partials(u, b, k)[n] =
                   IF Has(b[u[n].j], k)
                   THEN FMAdd(u[n].v, At(b[u[n].j], k), Partials(u, b, k)[n - 1])
                   ELSE Partials(u, b, k)[n - 1]
              /\ Seen(u, b, k, n) <=> Seen(u, b, k, n - 1) \/ Has(b[u[n].j], k)
         /\ \A n \in 0 .. Len(u) : ~ Seen(u, b, k, n) => Partials(u, b, k)[n] = 0
         /\ DotProduct(u, b, k) = Partials(u, b, k)[Len(u)]
         /\ \A d : IsResult(u, d, k) <=> /\ Seen(u, b, k, Len(u)) /\ DotProduct(u, b, k) # NaN
                                         /\ is_float /\ d => DotProduct(u, b, k) # 0
<1>1. a \in AMatrices /\ b \in BMatrices /\ k \in Int
  BY Constants DEF CallOK, Columns
<1>2. PICK i \in 1 .. Len(a) : ARow(s) = a[i]
  BY BlockFacts
<1>3. PICK u : u = ARow(s)
  OBVIOUS
<1>4. u = a[i] /\ Len(u) \in Nat /\ DOMAIN u = 1 .. Len(u)
  BY <1>2, <1>3, BlockFacts
<1>5. /\ Partials(u, b, k) \in [0 .. Len(u) -> Value] /\ Partials(u, b, k)[0] = 0
      /\ \A n \in 1 .. Len(u) : Partials(u, b, k)[n] =
           IF Has(b[u[n].j], k)
           THEN FMAdd(u[n].v, At(b[u[n].j], k), Partials(u, b, k)[n - 1])
           ELSE Partials(u, b, k)[n - 1]
  BY <1>1, <1>4, PartialsAre
<1>6. \A n \in 1 .. Len(u) : Seen(u, b, k, n) <=> Seen(u, b, k, n - 1) \/ Has(b[u[n].j], k)
  BY <1>4, SeenNext
<1>7. ~ Seen(u, b, k, 0)
  BY DEF Seen
<1>8. \A n \in 0 .. Len(u) : ~ Seen(u, b, k, n) => Partials(u, b, k)[n] = 0
  BY <1>1, <1>4, UnseenIsZero
<1>9. DotProduct(u, b, k) = Partials(u, b, k)[Len(u)]
  BY DotIsLastPartial
<1>10. \A d : IsResult(u, d, k) <=> /\ Seen(u, b, k, Len(u)) /\ DotProduct(u, b, k) # NaN
                                    /\ is_float /\ d => DotProduct(u, b, k) # 0
  BY <1>4 DEF IsResult, Seen
<1>11. \A n \in 0 .. Len(u) : Partials(u, b, k)[n] \in Value
  BY <1>5
<1> QED
  BY <1>3, <1>5, <1>6, <1>7, <1>8, <1>9, <1>10, <1>11

\* The results of row s among the columns before n.
LEMMA ResultFacts ==
  ASSUME CallOK, lo < Len(a), NEW s \in Block, NEW d \in BOOLEAN, NEW n \in 0 .. NCols
  PROVE  /\ Results(ARow(s), d, 0 .. n - 1) \subseteq Result
         /\ \A r : r \in Results(ARow(s), d, 0 .. n - 1) <=>
              \E k \in Columns : /\ k < n /\ IsResult(ARow(s), d, k)
                                 /\ r = [idx |-> k, val |-> DotProduct(ARow(s), b, k)]
<1>1. \A k : k \in 0 .. n - 1 <=> k \in Columns /\ k < n
  BY Constants DEF Columns
<1>2. \A r : r \in Results(ARow(s), d, 0 .. n - 1) <=>
        \E k \in Columns : /\ k < n /\ IsResult(ARow(s), d, k)
                           /\ r = [idx |-> k, val |-> DotProduct(ARow(s), b, k)]
  BY <1>1 DEF Results
<1>3. ASSUME NEW k \in Columns, IsResult(ARow(s), d, k)
      PROVE  [idx |-> k, val |-> DotProduct(ARow(s), b, k)] \in Result
  <2>1. Len(ARow(s)) \in 0 .. Len(ARow(s))
    BY BlockFacts
  <2>2. DotProduct(ARow(s), b, k) \in Value /\ DotProduct(ARow(s), b, k) # NaN
    BY <1>3, <2>1, ColumnFacts
  <2> QED
    BY <2>2 DEF Value, Result
<1> QED
  BY <1>2, <1>3

-----------------------------------------------------------------------------
(* Cursors and segments *)

\* The cursors of the block's rows lie one row after the other.
LEMMA CursorBases ==
  ASSUME CallOK, lo < Len(a)
  PROVE  /\ CursorBase(0) = 0
         /\ \A s \in 0 .. BlockLen : CursorBase(s) \in Nat
         /\ \A s \in Block : CursorBase(s + 1) = CursorBase(s) + Len(ARow(s))
<1>1. PICK n \in Nat : n = BlockLen
  BY BlockFacts
<1>2. \A s \in 0 .. n - 1 : ARow(s) \in Seq(Factor)
  BY <1>1, BlockFacts
<1> DEFINE f == [p \in 1 .. n |-> ARow(p - 1)]
           Flat(m) == FlattenSeq([p \in 1 .. m |-> f[p]])
<1>3. f \in [1 .. n -> Seq(Factor)]
  BY <1>2
<1>4. \A p \in 1 .. n : f[p] = ARow(p - 1)
  OBVIOUS
<1>5. \A m \in 0 .. n : CursorBase(m) = Len(Flat(m))
  <2> SUFFICES ASSUME NEW m \in 0 .. n PROVE CursorBase(m) = Len(Flat(m))
    OBVIOUS
  <2>1. [p \in 1 .. m |-> f[p]] = [p \in 1 .. m |-> ARow(p - 1)]
    BY <1>4
  <2> QED
    BY <2>1 DEF CursorBase
<1> HIDE DEF f
<1>6. /\ Flat(0) = <<>>
      /\ \A m \in 0 .. n : Flat(m) \in Seq(Factor)
      /\ \A m \in 1 .. n : Flat(m) = Flat(m - 1) \o f[m]
  BY <1>3, FlattenPrefix
<1> HIDE DEF Flat
<1>7. CursorBase(0) = 0
  BY <1>5, <1>6
<1>8. \A s \in 0 .. n : CursorBase(s) \in Nat
  BY <1>5, <1>6
<1>9. ASSUME NEW s \in 0 .. n - 1 PROVE CursorBase(s + 1) = CursorBase(s) + Len(ARow(s))
  <2>1. s + 1 \in 1 .. n /\ (s + 1) - 1 = s /\ s \in 0 .. n /\ s + 1 \in 0 .. n
    BY <1>9
  <2>2. Flat(s + 1) = Flat(s) \o ARow(s) /\ Flat(s) \in Seq(Factor) /\ ARow(s) \in Seq(Factor)
    BY <1>2, <1>4, <1>6, <2>1
  <2>3. Len(Flat(s + 1)) = Len(Flat(s)) + Len(ARow(s))
    BY <2>2, ConcatProperties
  <2> QED
    BY <1>5, <2>1, <2>3
<1> QED
  BY <1>1, <1>7, <1>8, <1>9 DEF Block

LEMMA CursorBasesGrow ==
  ASSUME CallOK, lo < Len(a), NEW s \in 0 .. BlockLen, NEW t \in 0 .. BlockLen, s <= t
  PROVE  CursorBase(s) <= CursorBase(t)
<1> DEFINE S == {n \in Nat : n \in s .. BlockLen => CursorBase(s) <= CursorBase(n)}
<1>1. BlockLen \in Nat /\ Block = 0 .. BlockLen - 1
  BY BlockFacts
<1>2. CursorBase(s) \in Nat
  BY CursorBases
<1>3. 0 \in S
  BY <1>1, <1>2
<1>4. ASSUME NEW n \in Nat, n \in S PROVE n + 1 \in S
  <2> SUFFICES ASSUME n + 1 \in s .. BlockLen PROVE CursorBase(s) <= CursorBase(n + 1)
    OBVIOUS
  <2>1. CASE n + 1 = s
    BY <1>2, <2>1
  <2>2. CASE n + 1 # s
    <3>1. n \in s .. BlockLen /\ n \in Block /\ n \in 0 .. BlockLen
      BY <1>1, <2>2
    <3>2. CursorBase(s) <= CursorBase(n) /\ CursorBase(n) \in Nat /\ Len(ARow(n)) \in Nat
      BY <1>4, <3>1, CursorBases, BlockFacts
    <3>3. CursorBase(n + 1) = CursorBase(n) + Len(ARow(n))
      BY <3>1, CursorBases
    <3> QED
      BY <1>2, <3>2, <3>3
  <2> QED
    BY <2>1, <2>2
<1> HIDE DEF S
<1>5. \A n \in Nat : n \in S
  BY <1>3, <1>4, Induction
<1>6. t \in Nat /\ t \in s .. BlockLen
  BY <1>1
<1> QED
  BY <1>5, <1>6 DEF S

\* No two entries of the block share a cursor.
LEMMA CursorIndex ==
  ASSUME CallOK, lo < Len(a), NEW s \in Block, NEW e \in 1 .. Len(ARow(s))
  PROVE  /\ CursorBase(s) + e \in 1 .. CursorBase(BlockLen)
         /\ \A t \in Block : \A f \in 1 .. Len(ARow(t)) :
              CursorBase(s) + e = CursorBase(t) + f => s = t /\ e = f
<1>1. BlockLen \in Nat /\ Block = 0 .. BlockLen - 1
  BY BlockFacts
<1>2. ASSUME NEW t \in Block, NEW f \in 1 .. Len(ARow(t))
      PROVE  /\ t \in 0 .. BlockLen /\ t + 1 \in 0 .. BlockLen /\ CursorBase(t) \in Nat
             /\ CursorBase(t) + f <= CursorBase(t + 1) /\ CursorBase(t + 1) \in Nat
             /\ Len(ARow(t)) \in Nat /\ f \in Nat \ {0}
  <2>1. t \in 0 .. BlockLen /\ t + 1 \in 0 .. BlockLen
    BY <1>1
  <2>2. /\ CursorBase(t) \in Nat /\ CursorBase(t + 1) \in Nat /\ Len(ARow(t)) \in Nat
        /\ CursorBase(t + 1) = CursorBase(t) + Len(ARow(t))
    BY <2>1, CursorBases, BlockFacts
  <2> QED
    BY <2>1, <2>2
<1>3. CursorBase(s + 1) <= CursorBase(BlockLen) /\ CursorBase(BlockLen) \in Nat
  <2>1. s + 1 \in 0 .. BlockLen /\ BlockLen \in 0 .. BlockLen /\ s + 1 <= BlockLen
    BY <1>1
  <2> QED
    BY <2>1, CursorBases, CursorBasesGrow
<1>4. CursorBase(s) + e \in 1 .. CursorBase(BlockLen)
  BY <1>2, <1>3
<1>5. ASSUME NEW t \in Block, NEW f \in 1 .. Len(ARow(t)),
             CursorBase(s) + e = CursorBase(t) + f
      PROVE  s = t /\ e = f
  <2>1. CASE s = t
    BY <1>2, <1>5, <2>1
  <2>2. CASE s < t
    <3>1. s + 1 \in 0 .. BlockLen /\ t \in 0 .. BlockLen /\ s + 1 <= t
      BY <1>1, <2>2
    <3>2. CursorBase(s + 1) <= CursorBase(t)
      BY <3>1, CursorBasesGrow
    <3>3. /\ CursorBase(s) + e <= CursorBase(s + 1) /\ CursorBase(s) \in Nat
          /\ CursorBase(s + 1) \in Nat /\ CursorBase(t) \in Nat /\ e \in Nat /\ f \in Nat \ {0}
      BY <1>2
    <3> QED
      BY <1>5, <3>2, <3>3
  <2>3. CASE t < s
    <3>1. t + 1 \in 0 .. BlockLen /\ s \in 0 .. BlockLen /\ t + 1 <= s
      BY <1>1, <2>3
    <3>2. CursorBase(t + 1) <= CursorBase(s)
      BY <3>1, CursorBasesGrow
    <3>3. /\ CursorBase(t) + f <= CursorBase(t + 1) /\ CursorBase(s) \in Nat
          /\ CursorBase(t + 1) \in Nat /\ CursorBase(t) \in Nat /\ f \in Nat /\ e \in Nat \ {0}
      BY <1>2
    <3> QED
      BY <1>5, <3>2, <3>3
  <2> QED
    BY <1>1, <2>1, <2>2, <2>3
<1> QED
  BY <1>4, <1>5

\* Whatever the projection, an entry meets its row of B in the chunk's columns,
\* and leaves the cursor behind them.
LEMMA SegmentFacts ==
  ASSUME CallOK, PositionOK, CursorsOK, pc = "scatter", jj \in 1 .. Len(ARow(q))
  PROVE  LET r == BRow(q, jj) IN
         /\ Segment(q, jj) = {p \in DOMAIN r : r[p].k >= c0 /\ r[p].k < ChunkEnd}
         /\ projection = "Cursor" =>
              Cursor(q, jj) + Cardinality(Segment(q, jj)) = PartitionPoint(r, ChunkEnd)
         /\ \A k \in Locals : k \in Met(q, jj) <=> k < Width /\ Has(r, c0 + k)
<1>1. /\ lo < Len(a) /\ q \in Block /\ DOMAIN ARow(q) = 1 .. Len(ARow(q))
      /\ c0 \in 0 .. NCols
  BY BlockFacts DEF PositionOK
<1>2. PICK r : r = BRow(q, jj)
  OBVIOUS
<1>3. r \in Seq(Cell) /\ Canonical(r)
  BY <1>1, <1>2, EntryFacts
<1>4. PICK from, to : from = PartitionPoint(r, c0) /\ to = PartitionPoint(r, ChunkEnd)
  OBVIOUS
<1>5. c0 \in Int /\ ChunkEnd \in Int /\ c0 <= ChunkEnd
  BY <1>1, ChunkFacts
<1>6. /\ from \in 1 .. Len(r) + 1 /\ to \in 1 .. Len(r) + 1 /\ from <= to
      /\ from .. to - 1 = {p \in DOMAIN r : r[p].k >= c0 /\ r[p].k < ChunkEnd}
      /\ Cardinality({p \in from .. Len(r) : r[p].k < ChunkEnd}) = to - from
  BY <1>3, <1>4, <1>5, BetweenPoints
<1>7. Len(r) \in Nat /\ from \in Int /\ to \in Int
  BY <1>3, <1>6
<1>8. projection = "Cursor" => Cursor(q, jj) = from
  BY <1>1, <1>2, <1>4 DEF CursorsOK, CursorsResume, PositionOK
<1>9. projection = "Cursor" => Stop(r, from) = to
  BY <1>6, <1>7 DEF Stop
<1>10. Segment(q, jj) = from .. to - 1
  BY <1>2, <1>4, <1>8, <1>9 DEF Segment
<1>11. Cardinality(from .. to - 1) = to - from
  <2>1. PICK m \in Int : m = to - 1
    BY <1>7
  <2>2. Cardinality(from .. m) = IF from > m THEN 0 ELSE m - from + 1
    BY <1>7, FS_Interval
  <2> QED
    BY <1>6, <1>7, <2>1, <2>2
<1>12. projection = "Cursor" => Cursor(q, jj) + Cardinality(Segment(q, jj)) = to
  BY <1>7, <1>8, <1>10, <1>11
<1>13. ASSUME NEW k \in Locals PROVE k \in Met(q, jj) <=> k < Width /\ Has(r, c0 + k)
  <2>1. \A p \in DOMAIN r : r[p].k \in Columns /\ r[p].k \in Int
    BY <1>3, AtEntry, Constants DEF Columns
  <2>2. k \in Met(q, jj) <=> \E p \in DOMAIN r : r[p].k >= c0 /\ r[p].k < ChunkEnd /\ k = r[p].k - c0
    BY <1>2, <1>6, <1>10 DEF Met
  <2>3. k \in Int /\ k >= 0 /\ ChunkEnd = c0 + Width /\ Width \in Int
    BY <1>1, ChunkFacts, Constants DEF Locals
  <2>4. \A p \in DOMAIN r : r[p].k >= c0 /\ r[p].k < ChunkEnd /\ k = r[p].k - c0
                            <=> k < Width /\ r[p].k = c0 + k
    BY <1>5, <2>1, <2>3
  <2> QED
    BY <2>2, <2>4 DEF Has
<1> QED
  BY <1>2, <1>4, <1>6, <1>10, <1>12, <1>13

-----------------------------------------------------------------------------
(* Steps *)

LEMMA CallStays ==
  ASSUME UNCHANGED <<call, lo>>
  PROVE  /\ UNCHANGED <<a, b, is_float, projection, sort, block_rows, BlockLen, Block>>
         /\ \A s : ARow(s)' = ARow(s) /\ CursorBase(s)' = CursorBase(s)
         /\ \A s, e : BRow(s, e)' = BRow(s, e)
         /\ CallOK => CallOK'
BY DEF call, BlockLen, Block, ARow, BRow, CursorBase, CallOK

\* What a result is depends on B and the element type only.
LEMMA ResultsStay ==
  ASSUME UNCHANGED <<b, is_float>>
  PROVE  \A u, d, S : Results(u, d, S)' = Results(u, d, S)
BY DEF Results, IsResult

\* What OutputIsTopN says of one row, f, whose results are `all`.
RowIsRight(f, all, zero, descending) ==
  LET row == {f[p] : p \in DOMAIN f}
  IN  /\ Cardinality(row) = Len(f)
      /\ \E zeros \in SUBSET {c \in all : c.val = 0 /\ zero} :
           Selection(0)!IsTopN(row, all \ zeros)
      /\ descending => \A p, s \in DOMAIN f : p < s => f[p].val >= f[s].val

RightRow(i) ==
  RowIsRight(out[i], Results(a[i], FALSE, 0 .. NCols - 1), is_float, sort = "ByValueDesc")

LEMMA OutputIsRows ==
  /\ OutputIsTopN <=> /\ Len(out) = lo + (IF pc = "emit" THEN q ELSE 0)
                      /\ \A i \in DOMAIN out : RightRow(i)
  /\ OutputIsTopN' <=> /\ Len(out') = lo' + (IF pc' = "emit" THEN q' ELSE 0)
                       /\ \A i \in DOMAIN out' : RightRow(i)'
BY DEF OutputIsTopN, RightRow, RowIsRight

LEMMA RightRowNext ==
  ASSUME UNCHANGED <<a, b, is_float, sort>>, NEW i
  PROVE  RightRow(i)' <=>
           RowIsRight(out'[i], Results(a[i], FALSE, 0 .. NCols - 1), is_float, sort = "ByValueDesc")
<1>1. RightRow(i)' <=>
        RowIsRight(out'[i], Results(a[i], FALSE, 0 .. NCols - 1)', is_float', (sort = "ByValueDesc")')
  BY DEF RightRow, RowIsRight, Selection!IsTopN, Selection!Eligible, Selection!Cardinality
<1>2. Results(a[i], FALSE, 0 .. NCols - 1)' = Results(a[i], FALSE, 0 .. NCols - 1)
  BY DEF Results, IsResult
<1> QED
  BY <1>1, <1>2

\* The rows already out stay right while no more come out.
LEMMA OutputStays ==
  ASSUME OutputOK, UNCHANGED <<call, lo, out>>,
         (IF pc = "emit" THEN q ELSE 0)' = (IF pc = "emit" THEN q ELSE 0)
  PROVE  OutputOK'
<1>1. UNCHANGED <<a, b, is_float, sort, lo, out>>
  BY DEF call
<1>2. \A i : RightRow(i)' <=> RightRow(i)
  BY <1>1, RightRowNext DEF RightRow
<1> QED
  BY <1>1, <1>2, OutputIsRows DEF OutputOK

LEMMA InitInv == Init => BInv
<1> SUFFICES ASSUME Init PROVE BInv
  OBVIOUS
<1>1. Len(a) \in Nat \ {0}
  BY RowOfA DEF Init
<1>2. block_rows \in 1 .. Len(a)
  <2>1. PICK row_block \in RowBlocks : block_rows = Min2(row_block, Len(a))
    BY DEF Init
  <2>2. row_block \in Nat \ {0}
    BY BlockAssumption
  <2> QED
    BY <1>1, <2>1, <2>2 DEF Min2
<1>3. CallOK
  BY <1>1, <1>2 DEF Init, CallOK
<1>4. PositionOK
  BY <1>1, <1>2, Constants DEF Init, PositionOK
<1>5. CursorsOK
  BY DEF Init, CursorsOK, CursorsResume
<1>6. AccumulatorOK
  BY BlockAssumption, Constants DEF Init, AccumulatorOK, Clean
<1>7. SelectionsOK
  BY DEF Init, SelectionsOK
<1>8. OutputOK
  BY DEF Init, OutputOK, OutputIsTopN
<1> QED
  BY <1>3, <1>4, <1>5, <1>6, <1>7, <1>8 DEF BInv

\* A clean accumulator is what a row that has not begun has accumulated.
LEMMA CleanIsAccumulated ==
  ASSUME CallOK, lo < Len(a), q \in Block, c0 \in 0 .. NCols, jj = 1, Clean
  PROVE  Accumulated
<1>1. ASSUME NEW k \in Locals, k < Width
      PROVE  Partials(ARow(q), b, c0 + k)[0] = 0 /\ ~ Seen(ARow(q), b, c0 + k, 0)
  <2>1. c0 + k \in Columns
    BY <1>1, ChunkFacts
  <2> QED
    BY <2>1, ColumnFacts
<1>2. Listed = {} /\ DOMAIN list = {}
  BY DEF Clean, Listed
<1>3. jj - 1 = 0
  OBVIOUS
<1> QED
  BY <1>1, <1>2, <1>3 DEF Accumulated, Clean

\* A selection that was reset holds nothing.
LEMMA ResetIsBest ==
  ASSUME NEW x, x = [entries |-> {}, n_set |-> 0, min |-> Threshold]
  PROVE  Best(x, {}, 0) /\ Typed(x)
<1>1. IsFiniteSet({}) /\ Cardinality({}) = 0
  BY FS_EmptySet
<1>2. x.entries = {} /\ x.n_set = 0 /\ x.min = Threshold /\ x \in Sel
  BY BlockAssumption DEF Sel
<1>3. Threshold \in Root({})
  BY <1>1, BlockAssumption DEF Root
<1>4. Holds({}, Threshold, {})
  BY <1>1, <1>3, BlockAssumption DEF Holds
<1> QED
  BY <1>2, <1>4, Constants DEF Best, Typed

LEMMA StartBlockInv ==
  ASSUME BInv, NEW d \in [Block -> BOOLEAN], StartBlock(d)
  PROVE  BInv'
<1>1. /\ UNCHANGED <<a, b, is_float, projection, sort, block_rows, BlockLen, Block>> /\ CallOK'
      /\ \A s : ARow(s)' = ARow(s) /\ CursorBase(s)' = CursorBase(s)
      /\ \A s, e : BRow(s, e)' = BRow(s, e)
  BY CallStays DEF StartBlock, BInv
<1>2. /\ CallOK /\ lo < Len(a) /\ pc = "block" /\ pc' = "scatter" /\ c0' = 0 /\ q' = 0 /\ jj' = 1
      /\ UNCHANGED <<lo, sums, list, chunk_max, out>>
  BY DEF StartBlock, BInv, PositionOK
<1>3. /\ BlockLen \in Nat \ {0} /\ BlockLen \in 1 .. block_rows /\ Block = 0 .. BlockLen - 1
      /\ 0 \in Block /\ Len(ARow(0)) \in Nat
  BY <1>2, BlockFacts
<1>4. PositionOK'
  BY <1>1, <1>2, <1>3, Constants DEF PositionOK, CallOK
<1>5. CursorsOK'
  <2>1. CursorBase(BlockLen) \in Nat
    BY <1>2, <1>3, CursorBases
  <2>2. cursors' = IF projection = "Cursor" THEN [p \in 1 .. CursorBase(BlockLen) |-> 1] ELSE <<>>
    BY DEF StartBlock, SeededCursors
  <2>3. cursors' \in Seq(Nat \ {0})
    BY <2>1, <2>2
  <2>4. projection = "Cursor" => Len(cursors') = CursorBase(BlockLen)
    BY <2>1, <2>2
  <2>5. ASSUME projection = "Cursor", NEW s \in Block, NEW e \in 1 .. Len(ARow(s))
        PROVE  cursors'[CursorBase(s) + e] = PartitionPoint(BRow(s, e), 0)
    <3>1. cursors'[CursorBase(s) + e] = 1
      BY <1>2, <2>2, <2>5, CursorIndex
    <3>2. BRow(s, e) \in Seq(Cell) /\ Canonical(BRow(s, e))
      BY <1>2, EntryFacts
    <3>3. PICK r : r = BRow(s, e)
      OBVIOUS
    <3>4. \A p \in DOMAIN r : ~ (r[p].k < 0)
      BY <3>2, <3>3, AtEntry, Constants DEF Columns
    <3>5. {p \in DOMAIN r : r[p].k < 0} = {}
      BY <3>4
    <3>6. PartitionPoint(r, 0) = 1
      <4>1. Cardinality({p \in DOMAIN r : r[p].k < 0}) = 0
        BY ONLY <3>5, FS_EmptySet
      <4> QED
        BY <4>1 DEF PartitionPoint
    <3> QED
      BY <3>1, <3>3, <3>6
  <2>6. CursorsResume'
    <3> SUFFICES ASSUME (projection = "Cursor")', NEW s \in Block', NEW e \in DOMAIN ARow(s)'
                 PROVE  Cursor(s, e)' = PartitionPoint(BRow(s, e)',
                          IF s < q' \/ (s = q' /\ e < jj') THEN ChunkEnd' ELSE c0')
      BY DEF CursorsResume
    <3>1. s \in Block /\ e \in 1 .. Len(ARow(s)) /\ projection = "Cursor" /\ e \in Nat \ {0}
      BY <1>1, <1>2, BlockFacts
    <3>2. ~ (s < q' \/ (s = q' /\ e < jj'))
      BY <1>2, <1>3, <3>1
    <3>3. Cursor(s, e)' = cursors'[CursorBase(s) + e]
      BY <1>1 DEF Cursor
    <3> QED
      BY <1>1, <1>2, <2>5, <3>1, <3>2, <3>3
  <2> QED
    BY <1>1, <2>3, <2>4, <2>6 DEF CursorsOK
<1>6. AccumulatorOK'
  <2>1. Clean'
    BY <1>2 DEF BInv, AccumulatorOK, Clean
  <2>2. (lo < Len(a) /\ q \in Block /\ c0 \in 0 .. NCols /\ jj = 1)'
    BY <1>1, <1>2, <1>3, Constants
  <2>3. (CallOK /\ lo < Len(a) /\ q \in Block /\ c0 \in 0 .. NCols /\ jj = 1 /\ Clean => Accumulated)'
    BY CleanIsAccumulated, PTL
  <2>4. Accumulated'
    BY <1>1, <2>1, <2>2, <2>3
  <2> QED
    BY <1>2, <2>4 DEF BInv, AccumulatorOK
<1>7. SelectionsOK'
  <2>1. /\ selected' = [s \in Block |-> [entries |-> {}, n_set |-> 0, min |-> Threshold]]
        /\ use_dense' = d /\ \A s \in Block : d[s] => is_float
    BY DEF StartBlock, MayBeDense
  <2>2. \A s \in Block : Best(selected'[s], {}, 0) /\ Typed(selected'[s])
    BY <2>1, ResetIsBest
  <2>3. ASSUME NEW s \in Block
        PROVE  Results(ARow(s), use_dense[s], Passed(s))' = {} /\ Done(s)' = 0
    <3>1. ~ (s < 0)
      BY <1>3
    <3>2. Passed(s)' = 0 .. 0 - 1 /\ Done(s)' = 0
      BY <1>2, <3>1 DEF Passed, Done
    <3>3. 0 .. 0 - 1 = {}
      OBVIOUS
    <3> QED
      BY <3>2, <3>3 DEF Results
  <2>4. \A s \in Block : (Best(selected[s], Results(ARow(s), use_dense[s], Passed(s)), Done(s)))'
    BY <2>2, <2>3 DEF Best, Holds
  <2>5. \A s \in DOMAIN selected' : Typed(selected[s])'
    BY <2>1, <2>2 DEF Typed
  <2> QED
    BY <1>1, <2>1, <2>4, <2>5 DEF SelectionsOK
<1>8. OutputOK'
  BY <1>2, OutputStays DEF BInv, StartBlock
<1> QED
  BY <1>1, <1>4, <1>5, <1>6, <1>7, <1>8 DEF BInv

Elements(f) == {f[p] : p \in DOMAIN f}
Distinct(f) == \A p, o \in DOMAIN f : f[p] = f[o] => p = o

\* A descending list of S holds each element of S once.
LEMMA DescendingLists ==
  ASSUME NEW S \in SUBSET Locals, NEW f \in Descending(S)
  PROVE  f \in Seq(Locals) /\ Elements(f) = S /\ Distinct(f)
<1>1. IsFiniteSet(S) /\ Cardinality(S) \in Nat
  <2>1. PICK m \in Int : m = ChunkCols - 1
    BY Constants
  <2>2. IsFiniteSet(0 .. m)
    BY FS_Interval
  <2> QED
    BY <2>1, <2>2, FS_Subset, FS_CardinalityType DEF Locals
<1>2. PICK n \in Nat : n = Cardinality(S)
  BY <1>1
<1>3. f \in [1 .. n -> S] /\ \A x, y \in 1 .. n : x < y => f[x] > f[y]
  BY <1>2 DEF Descending
<1>4. \A x \in 1 .. n : f[x] \in Int /\ f[x] \in Locals
  <2>1. \A x \in 1 .. n : f[x] \in S
    BY <1>3
  <2>2. \A x \in Locals : x \in Int
    BY DEF Locals
  <2> QED
    BY <2>1, <2>2
<1>5. \A p, o \in 1 .. n : f[p] = f[o] => p = o
  <2> SUFFICES ASSUME NEW p \in 1 .. n, NEW o \in 1 .. n, f[p] = f[o] PROVE p = o
    OBVIOUS
  <2>1. ~ (p < o) /\ ~ (o < p)
    BY <1>3, <1>4
  <2> QED
    BY <2>1
<1>6. f \in Injection(1 .. n, S)
  BY <1>3, <1>5 DEF Injection, IsInjective
<1>7. Cardinality(1 .. n) = n
  BY FS_Interval
<1>8. f \in Surjection(1 .. n, S)
  BY <1>1, <1>2, <1>6, <1>7, FS_Injection
<1>9. {f[p] : p \in 1 .. n} = S
  BY <1>3, <1>8 DEF Surjection
<1>10. f \in Seq(Locals) /\ DOMAIN f = 1 .. n
  BY <1>3, <1>4
<1> QED
  BY <1>5, <1>9, <1>10 DEF Elements, Distinct

\* Two lists without a common element, one after the other.
LEMMA Appended ==
  ASSUME NEW f \in Seq(Locals), NEW g \in Seq(Locals), Distinct(f), Distinct(g),
         Elements(f) \cap Elements(g) = {}
  PROVE  /\ f \o g \in Seq(Locals) /\ Distinct(f \o g)
         /\ Elements(f \o g) = Elements(f) \cup Elements(g)
<1>1. PICK m \in Nat, n \in Nat : m = Len(f) /\ n = Len(g)
  OBVIOUS
<1>2. PICK h : h = f \o g
  OBVIOUS
<1>3. /\ h \in Seq(Locals) /\ Len(h) = m + n
      /\ DOMAIN f = 1 .. m /\ DOMAIN g = 1 .. n /\ DOMAIN h = 1 .. m + n
      /\ \A p \in 1 .. m + n : h[p] = IF p <= m THEN f[p] ELSE g[p - m]
  BY <1>1, <1>2, ConcatProperties
<1>4. \A p \in 1 .. m + n : \/ p \in 1 .. m /\ h[p] = f[p]
                            \/ p - m \in 1 .. n /\ h[p] = g[p - m] /\ ~ (p <= m)
  BY <1>3
<1>5. \A p \in 1 .. m : p \in 1 .. m + n /\ h[p] = f[p]
  BY <1>3
<1>6. ASSUME NEW p \in 1 .. n PROVE p + m \in 1 .. m + n /\ h[p + m] = g[p]
  <2>1. p + m \in 1 .. m + n /\ ~ (p + m <= m) /\ (p + m) - m = p
    OBVIOUS
  <2> QED
    BY <1>3, <2>1
<1>7. Elements(h) = Elements(f) \cup Elements(g)
  <2>1. ASSUME NEW x \in Elements(h) PROVE x \in Elements(f) \cup Elements(g)
    <3>1. PICK p \in 1 .. m + n : x = h[p]
      BY <1>3 DEF Elements
    <3> QED
      BY <1>3, <1>4, <3>1 DEF Elements
  <2>2. ASSUME NEW x \in Elements(f) PROVE x \in Elements(h)
    <3>1. PICK p \in 1 .. m : x = f[p]
      BY <1>3 DEF Elements
    <3> QED
      BY <1>3, <1>5, <3>1 DEF Elements
  <2>3. ASSUME NEW x \in Elements(g) PROVE x \in Elements(h)
    <3>1. PICK p \in 1 .. n : x = g[p]
      BY <1>3 DEF Elements
    <3>2. p + m \in 1 .. m + n /\ x = h[p + m]
      BY <1>6, <3>1
    <3> QED
      BY <1>3, <3>2 DEF Elements
  <2> QED
    BY <2>1, <2>2, <2>3
<1>8. ASSUME NEW p \in 1 .. m + n, NEW o \in 1 .. m + n, h[p] = h[o] PROVE p = o
  <2>1. CASE p <= m /\ o <= m
    <3>1. p \in 1 .. m /\ o \in 1 .. m /\ f[p] = f[o]
      BY <1>3, <1>8, <2>1
    <3> QED
      BY <1>3, <3>1 DEF Distinct
  <2>2. CASE ~ (p <= m) /\ ~ (o <= m)
    <3>1. p - m \in 1 .. n /\ o - m \in 1 .. n /\ g[p - m] = g[o - m]
      BY <1>3, <1>8, <2>2
    <3>2. p - m = o - m
      BY <1>3, <3>1 DEF Distinct
    <3> QED
      BY <3>2
  <2>3. CASE p <= m /\ ~ (o <= m)
    <3>1. p \in 1 .. m /\ o - m \in 1 .. n /\ f[p] = g[o - m]
      BY <1>3, <1>8, <2>3
    <3> QED
      BY <1>3, <3>1 DEF Elements
  <2>4. CASE ~ (p <= m) /\ o <= m
    <3>1. o \in 1 .. m /\ p - m \in 1 .. n /\ f[o] = g[p - m]
      BY <1>3, <1>8, <2>4
    <3> QED
      BY <1>3, <3>1 DEF Elements
  <2> QED
    BY <2>1, <2>2, <2>3, <2>4
<1>9. Distinct(h)
  BY <1>3, <1>8 DEF Distinct
<1> QED
  BY <1>2, <1>3, <1>7, <1>9

\* Where nothing moves but the accumulator and the cursors, selections stay right.
LEMMA SelectionsStay ==
  ASSUME SelectionsOK, UNCHANGED <<call, lo, pc, use_dense, selected, c0, q>>
  PROVE  SelectionsOK'
<1>1. /\ UNCHANGED <<b, is_float, Block>> /\ \A s : ARow(s)' = ARow(s)
  BY CallStays
<1>2. \A s : Passed(s)' = Passed(s) /\ Done(s)' = Done(s)
  BY DEF Passed, Done, ChunkEnd
<1>3. \A s : Results(ARow(s), use_dense[s], Passed(s))' = Results(ARow(s), use_dense[s], Passed(s))
  BY <1>1, <1>2 DEF Results, IsResult
<1>4. \A s : Best(selected[s], Results(ARow(s), use_dense[s], Passed(s)), Done(s))'
               <=> Best(selected[s], Results(ARow(s), use_dense[s], Passed(s)), Done(s))
  BY <1>2, <1>3 DEF Best, Holds
<1>5. \A s : Typed(selected[s])' <=> Typed(selected[s])
  BY DEF Typed
<1> QED
  BY <1>1, <1>4, <1>5 DEF SelectionsOK

LEMMA ScatterInv == BInv /\ Scatter => BInv'
<1> SUFFICES ASSUME BInv, Scatter PROVE BInv'
  OBVIOUS
<1>1. UNCHANGED <<call, lo, pc, use_dense, selected, c0, q, out>>
  BY DEF Scatter
<1>2. /\ UNCHANGED <<a, b, is_float, projection, sort, block_rows, BlockLen, Block>> /\ CallOK'
      /\ \A s : ARow(s)' = ARow(s) /\ CursorBase(s)' = CursorBase(s)
      /\ \A s, e : BRow(s, e)' = BRow(s, e)
      /\ ChunkEnd' = ChunkEnd /\ Width' = Width
  BY <1>1, CallStays DEF BInv, ChunkEnd, Width
<1>3. PICK u, r : u = ARow(q) /\ r = BRow(q, jj)
  OBVIOUS
<1>4. /\ CallOK /\ lo < Len(a) /\ pc = "scatter" /\ q \in Block /\ c0 \in 0 .. NCols
      /\ Len(u) \in Nat /\ DOMAIN u = 1 .. Len(u) /\ jj \in 1 .. Len(u) /\ jj' = jj + 1
      /\ r = b[u[jj].j] /\ u[jj].v \in Value /\ r \in Seq(Cell) /\ Canonical(r)
  <2>1. /\ CallOK /\ lo < Len(a) /\ pc = "scatter" /\ q \in Block /\ c0 \in 0 .. NCols
        /\ jj \in 1 .. Len(ARow(q)) + 1 /\ jj <= Len(ARow(q)) /\ jj' = jj + 1
    BY DEF BInv, PositionOK, Scatter
  <2>2. Len(ARow(q)) \in Nat /\ DOMAIN ARow(q) = 1 .. Len(ARow(q))
    BY <2>1, BlockFacts
  <2>3. jj \in 1 .. Len(ARow(q))
    BY <2>1, <2>2
  <2> QED
    BY <1>3, <2>1, <2>2, <2>3, EntryFacts DEF BRow
<1>5. PositionOK'
  BY <1>1, <1>2, <1>3, <1>4 DEF BInv, PositionOK
<1>6. /\ \A k \in Locals : k \in Met(q, jj) <=> k < Width /\ Has(r, c0 + k)
      /\ projection = "Cursor" =>
           Cursor(q, jj) + Cardinality(Segment(q, jj)) = PartitionPoint(r, ChunkEnd)
      /\ Met(q, jj) \subseteq Locals
  <2>1. /\ Segment(q, jj) = {p \in DOMAIN r : r[p].k >= c0 /\ r[p].k < ChunkEnd}
        /\ projection = "Cursor" =>
             Cursor(q, jj) + Cardinality(Segment(q, jj)) = PartitionPoint(r, ChunkEnd)
        /\ \A k \in Locals : k \in Met(q, jj) <=> k < Width /\ Has(r, c0 + k)
    BY <1>3, <1>4, SegmentFacts DEF BInv
  <2>3. \A p \in DOMAIN r : r[p].k \in Int
    BY <1>4, AtEntry, Constants DEF Columns
  <2>4. \A p \in Segment(q, jj) : r[p].k - c0 \in Locals
    BY <1>4, <2>1, <2>3, ChunkFacts
  <2>5. Met(q, jj) \subseteq Locals
    BY <1>3, <2>4 DEF Met
  <2> QED
    BY <2>1, <2>5
<1>7. CursorsOK'
  <2>1. CASE projection # "Cursor"
    <3>1. cursors' = cursors
      BY <2>1 DEF Scatter
    <3> QED
      BY <1>2, <2>1, <3>1 DEF BInv, CursorsOK, CursorsResume
  <2>2. CASE projection = "Cursor"
    <3>1. PICK at \in Nat : at = CursorBase(q) + jj
      <4>1. q \in 0 .. BlockLen /\ jj \in Nat
        BY <1>4, BlockFacts
      <4>2. PICK base \in Nat : base = CursorBase(q)
        BY <1>4, <4>1, CursorBases
      <4> QED
        BY <4>1, <4>2
    <3>2. PICK n \in Nat : n = CursorBase(BlockLen)
      BY <1>4, CursorBases, BlockFacts
    <3>3. /\ cursors \in Seq(Nat \ {0}) /\ Len(cursors) = n /\ DOMAIN cursors = 1 .. n
          /\ at \in 1 .. n
      BY <1>3, <1>4, <2>2, <3>1, <3>2, CursorIndex DEF BInv, CursorsOK
    <3>4. cursors' = [cursors EXCEPT ![at] = @ + Cardinality(Segment(q, jj))]
      BY <2>2, <3>1 DEF Scatter
    <3>5. cursors[at] + Cardinality(Segment(q, jj)) = PartitionPoint(r, ChunkEnd)
      BY <1>6, <2>2, <3>1 DEF Cursor
    <3>6. cursors' = [cursors EXCEPT ![at] = PartitionPoint(r, ChunkEnd)]
      BY <3>3, <3>4, <3>5
    <3>7. PartitionPoint(r, ChunkEnd) \in Nat \ {0}
      <4>1. ChunkEnd \in Int
        BY <1>4, ChunkFacts
      <4>2. PartitionPoint(r, ChunkEnd) \in 1 .. Len(r) + 1 /\ Len(r) \in Nat
        BY <1>4, <4>1, PartitionPointSplits DEF IsPoint
      <4> QED
        BY <4>2
    <3>8. cursors' \in Seq(Nat \ {0}) /\ Len(cursors') = n
      BY <3>3, <3>6, <3>7
    <3>9. CursorsResume'
      <4> SUFFICES ASSUME NEW s \in Block', NEW e \in DOMAIN ARow(s)'
                   PROVE  Cursor(s, e)' = PartitionPoint(BRow(s, e)',
                            IF s < q' \/ (s = q' /\ e < jj') THEN ChunkEnd' ELSE c0')
        BY DEF CursorsResume
      <4>1. /\ s \in Block /\ e \in 1 .. Len(ARow(s)) /\ e \in DOMAIN ARow(s)
            /\ e \in Nat \ {0} /\ s \in Nat /\ q \in Nat
        BY <1>2, <1>4, BlockFacts
      <4>2. Cursor(s, e)' = cursors'[CursorBase(s) + e]
        BY <1>2 DEF Cursor
      <4>3. CursorBase(s) + e \in 1 .. n /\ (CursorBase(s) + e = at => s = q /\ e = jj)
        BY <1>3, <1>4, <3>1, <3>2, <4>1, CursorIndex
      <4>4. CASE s = q /\ e = jj
        <5>1. s = q' /\ e < jj'
          BY <1>1, <1>4, <4>4
        <5>2. cursors'[CursorBase(s) + e] = PartitionPoint(r, ChunkEnd)
          BY <3>1, <3>3, <3>6, <4>4
        <5> QED
          BY <1>2, <1>3, <4>2, <4>4, <5>1, <5>2
      <4>5. CASE ~ (s = q /\ e = jj)
        <5>1. cursors'[CursorBase(s) + e] = Cursor(s, e)
          BY <3>3, <3>6, <4>3, <4>5 DEF Cursor
        <5>2. (s < q' \/ (s = q' /\ e < jj')) <=> (s < q \/ (s = q /\ e < jj))
          BY <1>1, <1>4, <4>1, <4>5
        <5>3. Cursor(s, e) = PartitionPoint(BRow(s, e),
                               IF s < q \/ (s = q /\ e < jj) THEN ChunkEnd ELSE c0)
          BY <1>4, <2>2, <4>1 DEF BInv, CursorsOK, CursorsResume
        <5> QED
          BY <1>1, <1>2, <4>2, <5>1, <5>2, <5>3
      <4> QED
        BY <4>4, <4>5
    <3> QED
      BY <1>2, <3>2, <3>8, <3>9 DEF CursorsOK
  <2> QED
    BY <2>1, <2>2
<1>8. /\ sums' = [k \in Locals |-> IF k \in Met(q, jj) THEN FMAdd(u[jj].v, At(r, c0 + k), sums[k])
                                  ELSE sums[k]]
      /\ use_dense[q] => /\ chunk_max' \in Largest({chunk_max} \cup
                               ({sums'[k] : k \in Met(q, jj)} \ {NaN}))
                         /\ list' = list
      /\ ~ use_dense[q] => /\ \E fresh \in Descending(Met(q, jj) \ Listed) : list' = fresh \o list
                           /\ chunk_max' = chunk_max
  BY <1>3 DEF Scatter
<1>9. /\ sums \in [Locals -> Value] /\ list \in Seq(Locals) /\ chunk_max \in Int
      /\ \A k \in Locals : sums[k] = IF k < Width THEN Partials(u, b, c0 + k)[jj - 1] ELSE 0
      /\ Distinct(list) /\ Listed = Elements(list)
      /\ use_dense[q] =>
           /\ list = <<>>
           /\ \A k \in Locals : k < Width /\ Seen(u, b, c0 + k, jj - 1) /\ sums[k] # NaN
                                => sums[k] <= chunk_max
      /\ ~ use_dense[q] => Listed = {k \in Locals : k < Width /\ Seen(u, b, c0 + k, jj - 1)}
  BY <1>3, <1>4 DEF BInv, AccumulatorOK, Accumulated, Distinct, Listed, Elements
<1>10. ASSUME NEW k \in Locals, k < Width
       PROVE  /\ Partials(u, b, c0 + k)[jj] =
                   IF Has(r, c0 + k)
                   THEN FMAdd(u[jj].v, At(r, c0 + k), Partials(u, b, c0 + k)[jj - 1])
                   ELSE Partials(u, b, c0 + k)[jj - 1]
              /\ Seen(u, b, c0 + k, jj) <=> Seen(u, b, c0 + k, jj - 1) \/ Has(r, c0 + k)
              /\ Partials(u, b, c0 + k)[jj] \in Value
  <2>1. c0 + k \in Columns
    BY <1>4, <1>10, ChunkFacts
  <2>2. jj \in 0 .. Len(u)
    BY <1>4
  <2> QED
    BY <1>3, <1>4, <2>1, <2>2, ColumnFacts
<1>11. \A k \in Locals : sums'[k] = IF k < Width THEN Partials(u, b, c0 + k)[jj] ELSE 0
  <2> SUFFICES ASSUME NEW k \in Locals
               PROVE  sums'[k] = IF k < Width THEN Partials(u, b, c0 + k)[jj] ELSE 0
    OBVIOUS
  <2>1. CASE k < Width
    BY <1>6, <1>8, <1>9, <1>10, <2>1
  <2>2. CASE ~ (k < Width)
    BY <1>6, <1>8, <1>9, <2>2
  <2> QED
    BY <2>1, <2>2
<1>12. sums' \in [Locals -> Value]
  <2>1. \A k \in Locals : sums'[k] \in Value
    BY <1>10, <1>11, Constants
  <2> QED
    BY <1>8, <2>1
<1>13. ASSUME use_dense[q] PROVE AccumulatorOK'
  <2>1. /\ chunk_max' \in {chunk_max} \cup ({sums'[k] : k \in Met(q, jj)} \ {NaN})
        /\ \A x \in {chunk_max} \cup ({sums'[k] : k \in Met(q, jj)} \ {NaN}) : x <= chunk_max'
        /\ list' = list
    BY <1>8, <1>13 DEF Largest
  <2>2. \A k \in Locals : sums'[k] # NaN => sums'[k] \in Int
    BY <1>12 DEF Value
  <2>3. chunk_max' \in Int
    BY <1>6, <1>9, <2>1, <2>2
  <2>4. chunk_max <= chunk_max'
    BY <2>1
  <2>5. ASSUME NEW k \in Locals, k < Width, Seen(u, b, c0 + k, jj), sums'[k] # NaN
        PROVE  sums'[k] <= chunk_max'
    <3>1. CASE k \in Met(q, jj)
      BY <2>1, <2>5, <3>1
    <3>2. CASE k \notin Met(q, jj)
      <4>1. ~ Has(r, c0 + k)
        BY <1>6, <2>5, <3>2
      <4>2. sums'[k] = sums[k] /\ Seen(u, b, c0 + k, jj - 1)
        BY <1>8, <1>10, <2>5, <3>2, <4>1
      <4>3. sums[k] <= chunk_max /\ sums[k] \in Int
        BY <1>9, <1>13, <2>2, <2>5, <4>2
      <4> QED
        BY <1>9, <2>3, <2>4, <4>2, <4>3
    <3> QED
      BY <3>1, <3>2
  <2>6. (jj - 1)' = jj /\ list' = <<>> /\ use_dense'[q'] /\ ARow(q)' = u
    BY <1>1, <1>2, <1>3, <1>4, <1>9, <1>13, <2>1
  <2>7. \A p, o \in DOMAIN list' : list'[p] = list'[o] => p = o
    BY <1>9, <2>1 DEF Distinct
  <2>8. Accumulated'
    BY <1>1, <1>2, <1>11, <2>5, <2>6, <2>7 DEF Accumulated
  <2> QED
    BY <1>1, <1>4, <1>9, <1>12, <2>1, <2>3, <2>8 DEF AccumulatorOK
<1>14. ASSUME ~ use_dense[q] PROVE AccumulatorOK'
  <2>1. PICK fresh \in Descending(Met(q, jj) \ Listed) : list' = fresh \o list
    BY <1>8, <1>14
  <2>2. Met(q, jj) \ Listed \in SUBSET Locals
    BY <1>6
  <2>3. fresh \in Seq(Locals) /\ Elements(fresh) = Met(q, jj) \ Listed /\ Distinct(fresh)
    BY <2>2, DescendingLists
  <2>4. Elements(fresh) \cap Elements(list) = {}
    BY <1>9, <2>3
  <2>5. /\ list' \in Seq(Locals) /\ Distinct(list')
        /\ Elements(list') = Elements(fresh) \cup Elements(list)
    BY <1>9, <2>1, <2>3, <2>4, Appended
  <2>6. Listed' = Met(q, jj) \cup Listed
    <3>1. Listed' = Elements(list')
      BY DEF Listed, Elements
    <3> QED
      BY <1>9, <2>3, <2>5, <3>1
  <2>7. Listed' = {k \in Locals : k < Width /\ Seen(u, b, c0 + k, jj)}
    <3>1. ASSUME NEW k \in Locals
          PROVE  k \in Listed' <=> k < Width /\ Seen(u, b, c0 + k, jj)
      BY <1>6, <1>9, <1>10, <1>14, <2>6, <3>1
    <3>2. Listed' \subseteq Locals
      BY <1>6, <1>9, <1>14, <2>6
    <3> QED
      BY <3>1, <3>2
  <2>8. (jj - 1)' = jj /\ ~ use_dense'[q'] /\ ARow(q)' = u
    BY <1>1, <1>2, <1>3, <1>4, <1>14
  <2>9. Accumulated'
    BY <1>1, <1>2, <1>11, <2>5, <2>7, <2>8 DEF Accumulated, Distinct
  <2> QED
    BY <1>1, <1>4, <1>8, <1>9, <1>12, <1>14, <2>5, <2>9 DEF AccumulatorOK
<1>15. SelectionsOK'
  BY <1>1, SelectionsStay DEF BInv
<1>16. OutputOK'
  BY <1>1, OutputStays DEF BInv
<1> QED
  BY <1>2, <1>5, <1>7, <1>13, <1>14, <1>15, <1>16 DEF BInv


-----------------------------------------------------------------------------
(* A row is drained *)

\* All entries of row q are in the accumulator.
Summed == pc = "scatter" /\ jj > Len(ARow(q))

\* Then a slot holds its column of the product.
LEMMA SumFacts ==
  ASSUME BInv, Summed, NEW k \in Locals, k < Width
  PROVE  /\ c0 + k \in Columns /\ sums[k] \in Value
         /\ sums[k] = DotProduct(ARow(q), b, c0 + k)
         /\ Seen(ARow(q), b, c0 + k, jj - 1) <=> Seen(ARow(q), b, c0 + k, Len(ARow(q)))
         /\ ~ Seen(ARow(q), b, c0 + k, jj - 1) => sums[k] = 0
         /\ IsResult(ARow(q), use_dense[q], c0 + k) <=>
              /\ Seen(ARow(q), b, c0 + k, jj - 1) /\ sums[k] # NaN
              /\ use_dense[q] => sums[k] # 0
<1>1. PICK u, n : u = ARow(q) /\ n = jj - 1
  OBVIOUS
<1>2. /\ CallOK /\ lo < Len(a) /\ q \in Block /\ c0 \in 0 .. NCols
      /\ jj \in 1 .. Len(u) + 1 /\ jj > Len(u) /\ (use_dense[q] => is_float)
  BY <1>1 DEF BInv, PositionOK, SelectionsOK, Summed
<1>3. Len(u) \in Nat
  BY <1>1, <1>2, BlockFacts
<1>4. n = Len(u) /\ n \in 0 .. Len(u)
  BY <1>1, <1>2, <1>3
<1>5. c0 + k \in Columns
  BY <1>2, ChunkFacts
<1>6. sums[k] = Partials(u, b, c0 + k)[n]
  BY <1>1 DEF BInv, AccumulatorOK, Accumulated, Summed
<1>7. sums[k] \in Value
  BY DEF BInv, AccumulatorOK
<1>8. /\ DotProduct(u, b, c0 + k) = Partials(u, b, c0 + k)[Len(u)]
      /\ ~ Seen(u, b, c0 + k, n) => Partials(u, b, c0 + k)[n] = 0
      /\ \A d : IsResult(u, d, c0 + k) <=> /\ Seen(u, b, c0 + k, Len(u))
                                           /\ DotProduct(u, b, c0 + k) # NaN
                                           /\ is_float /\ d => DotProduct(u, b, c0 + k) # 0
  BY <1>1, <1>2, <1>4, <1>5, ColumnFacts
<1>9. sums[k] = DotProduct(u, b, c0 + k)
  BY <1>4, <1>6, <1>8
<1> QED
  BY <1>1, <1>2, <1>4, <1>5, <1>6, <1>7, <1>8, <1>9

\* What is offered for the slots that f lists.
Offers(f) == [p \in DOMAIN f |-> [idx |-> c0 + f[p], val |-> sums[f[p]]]]

\* The dense accumulator is left out when nothing in it beats the threshold.
Skipped == use_dense[q] /\ ~ Gt(chunk_max, selected[q].min)

\* The candidates are the slots touched, or all of them, each once.
LEMMA CandidateList ==
  ASSUME BInv, Summed
  PROVE  \E f \in Seq(Locals) :
           /\ Distinct(f) /\ Candidates = Offers(f)
           /\ \A k \in Elements(f) :
                k < Width /\ (use_dense[q] \/ Seen(ARow(q), b, c0 + k, jj - 1))
           /\ ~ Skipped => \A k \in Locals :
                k < Width /\ (use_dense[q] \/ Seen(ARow(q), b, c0 + k, jj - 1)) => k \in Elements(f)
           /\ Skipped => f = <<>>
<1>1. /\ list \in Seq(Locals) /\ Distinct(list) /\ Listed = Elements(list)
      /\ ~ use_dense[q] =>
           Listed = {k \in Locals : k < Width /\ Seen(ARow(q), b, c0 + k, jj - 1)}
  BY DEF BInv, AccumulatorOK, Accumulated, Distinct, Elements, Listed, Summed
<1>2. CASE ~ use_dense[q]
  <2>1. Candidates = Offers(list) /\ ~ Skipped
    BY <1>2 DEF Candidates, Offers, Skipped
  <2> QED
    BY <1>1, <1>2, <2>1
<1>3. CASE Skipped
  <2>1. Candidates = <<>>
    BY <1>3 DEF Candidates, Skipped
  <2>2. Offers(<<>>) = <<>> /\ Elements(<<>>) = {} /\ Distinct(<<>>)
    BY DEF Offers, Elements, Distinct
  <2>3. <<>> \in Seq(Locals)
    OBVIOUS
  <2> QED
    BY <1>3, <2>1, <2>2, <2>3
<1>4. CASE use_dense[q] /\ ~ Skipped
  <2>1. PICK n \in Nat, c \in Nat : n = Width /\ c = c0
    BY ChunkFacts, Constants DEF BInv, PositionOK
  <2>2. /\ \A k \in Locals : k < n => k \in 0 .. n - 1
        /\ \A k \in 0 .. n - 1 : k \in Locals /\ k < n
    BY <2>1, ChunkFacts DEF BInv, PositionOK
  <2>3. PICK f : f = [p \in 1 .. n |-> p - 1]
    OBVIOUS
  <2>4. f \in Seq(Locals) /\ DOMAIN f = 1 .. n /\ \A p \in 1 .. n : f[p] = p - 1
    BY <2>2, <2>3
  <2>5. Distinct(f)
    BY <2>4 DEF Distinct
  <2>6. Elements(f) = 0 .. n - 1
    <3>1. ASSUME NEW k \in 0 .. n - 1 PROVE k \in Elements(f)
      <4>1. k + 1 \in 1 .. n /\ (k + 1) - 1 = k
        OBVIOUS
      <4> QED
        BY <2>4, <4>1 DEF Elements
    <3>2. ASSUME NEW k \in Elements(f) PROVE k \in 0 .. n - 1
      BY <2>4 DEF Elements
    <3> QED
      BY <3>1, <3>2
  <2>7. Candidates = Offers(f)
    <3>1. Candidates = [p \in 1 .. n |-> [idx |-> c + p - 1, val |-> sums[p - 1]]]
      BY <1>4, <2>1 DEF Candidates, Skipped, Width
    <3>2. Offers(f) = [p \in 1 .. n |-> [idx |-> c + f[p], val |-> sums[f[p]]]]
      BY <2>1, <2>4 DEF Offers
    <3>3. \A p \in 1 .. n : f[p] = p - 1 /\ c + f[p] = c + p - 1
      BY <2>4
    <3> QED
      BY <3>1, <3>2, <3>3
  <2> QED
    BY <1>4, <2>1, <2>2, <2>4, <2>5, <2>6, <2>7
<1> QED
  BY <1>2, <1>3, <1>4

\* The results of row q in this chunk.
ChunkResults ==
  {[idx |-> c0 + k, val |-> sums[k]] :
     k \in {o \in Locals : o < Width /\ IsResult(ARow(q), use_dense[q], c0 + o)}}

\* They are the candidates that are no NaN, and in a dense drain no zero; those
\* that are skipped beat nothing.
LEMMA CandidateFacts ==
  ASSUME BInv, Summed, NEW cs, cs = Candidates
  PROVE  /\ cs \in Seq(Candidate) /\ Len(cs) \in 0 .. Width
         /\ \A p, o \in 1 .. Len(cs) : p # o => cs[p].idx # cs[o].idx
         /\ \A p \in 1 .. Len(cs) : cs[p].idx >= c0
         /\ Reals(cs, Len(cs)) \subseteq ChunkResults
         /\ \/ Reals(cs, Len(cs)) = ChunkResults
            \/ Len(cs) = 0 /\ \A r \in ChunkResults : ~ (r.val > selected[q].min)
<1>1. PICK f \in Seq(Locals) :
           /\ Distinct(f) /\ cs = Offers(f)
           /\ \A k \in Elements(f) :
                k < Width /\ (use_dense[q] \/ Seen(ARow(q), b, c0 + k, jj - 1))
           /\ ~ Skipped => \A k \in Locals :
                k < Width /\ (use_dense[q] \/ Seen(ARow(q), b, c0 + k, jj - 1)) => k \in Elements(f)
           /\ Skipped => f = <<>>
  BY CandidateList
<1>2. PICK n \in Nat : n = Len(f)
  OBVIOUS
<1>3. PICK w \in Nat, c \in Nat : w = Width /\ c = c0
  BY ChunkFacts, Constants DEF BInv, PositionOK
<1>4. \A p \in 1 .. n : f[p] \in Locals /\ f[p] \in Nat /\ f[p] < w /\ f[p] \in Elements(f)
  <2>1. \A p \in 1 .. n : f[p] \in Locals /\ f[p] \in Elements(f)
    BY <1>2, ElementOfSeq DEF Elements
  <2>2. \A k \in Locals : k \in Nat
    BY DEF Locals
  <2>3. \A k \in Elements(f) : k < w
    BY <1>1, <1>3
  <2> QED
    BY <2>1, <2>2, <2>3
<1>5. /\ cs = [p \in 1 .. n |-> [idx |-> c + f[p], val |-> sums[f[p]]]]
      /\ \A p \in 1 .. n : cs[p] = [idx |-> c + f[p], val |-> sums[f[p]]]
                           /\ cs[p].idx = c + f[p] /\ cs[p].val = sums[f[p]]
  BY <1>1, <1>2, <1>3 DEF Offers
<1>6. \A k \in Locals : k < w => /\ c + k \in Columns /\ sums[k] \in Value
  BY <1>3, SumFacts
<1>7. cs \in Seq(Candidate) /\ Len(cs) = n
  <2>1. \A p \in 1 .. n : [idx |-> c + f[p], val |-> sums[f[p]]] \in Candidate
    BY <1>4, <1>6 DEF Candidate
  <2> QED
    BY <1>5, <2>1
<1>8. \A p, o \in 1 .. n : f[p] = f[o] => p = o
  BY <1>1, <1>2 DEF Distinct
<1>9. n <= w
  <2>1. f \in [1 .. n -> 0 .. w - 1]
    BY <1>2, <1>4
  <2>2. f \in Injection(1 .. n, 0 .. w - 1)
    BY <1>8, <2>1 DEF Injection, IsInjective
  <2>3. Cardinality(1 .. n) = n /\ IsFiniteSet(0 .. w - 1) /\ Cardinality(0 .. w - 1) = w
    <3>1. PICK m \in Int : m = w - 1
      OBVIOUS
    <3>2. Cardinality(1 .. n) = n /\ IsFiniteSet(0 .. m) /\ Cardinality(0 .. m) = m + 1
      BY <3>1, FS_Interval
    <3> QED
      BY <3>1, <3>2
  <2> QED
    BY <2>2, <2>3, FS_Injection
<1>10. \A p, o \in 1 .. n : p # o => cs[p].idx # cs[o].idx
  BY <1>4, <1>5, <1>8
<1>11. \A p \in 1 .. n : cs[p].idx >= c
  BY <1>4, <1>5
<1>12. ASSUME NEW k \in Locals, k < w
       PROVE  /\ IsResult(ARow(q), use_dense[q], c + k) <=>
                   /\ Seen(ARow(q), b, c + k, jj - 1) /\ sums[k] # NaN
                   /\ use_dense[q] => sums[k] # 0
              /\ ~ Seen(ARow(q), b, c + k, jj - 1) => sums[k] = 0
  BY <1>3, <1>12, SumFacts
<1>13. \A p \in 1 .. n : Real(cs[p]) <=> sums[f[p]] # NaN /\ (use_dense[q] => sums[f[p]] # 0)
  BY <1>5 DEF Real
<1>14. Reals(cs, n) \subseteq ChunkResults
  <2> SUFFICES ASSUME NEW p \in 1 .. n, Real(cs[p]) PROVE cs[p] \in ChunkResults
    BY DEF Reals
  <2>1. PICK k \in Locals : k = f[p] /\ k < w
    BY <1>4
  <2>2. use_dense[q] \/ Seen(ARow(q), b, c + k, jj - 1)
    BY <1>1, <1>3, <1>4, <2>1
  <2>3. IsResult(ARow(q), use_dense[q], c + k)
    BY <1>12, <1>13, <2>1, <2>2
  <2> QED
    BY <1>3, <1>5, <2>1, <2>3 DEF ChunkResults
<1>15. ASSUME NEW r \in ChunkResults
       PROVE  IF Skipped THEN ~ (r.val > selected[q].min) ELSE r \in Reals(cs, n)
  <2>1. PICK k \in Locals : /\ k < w /\ IsResult(ARow(q), use_dense[q], c + k)
                            /\ r = [idx |-> c + k, val |-> sums[k]]
    BY <1>3 DEF ChunkResults
  <2>2. /\ Seen(ARow(q), b, c + k, jj - 1) /\ sums[k] # NaN
        /\ use_dense[q] => sums[k] # 0
    BY <1>12, <2>1
  <2>3. CASE ~ Skipped
    <3>1. k \in Elements(f)
      BY <1>1, <1>3, <2>1, <2>2, <2>3
    <3>2. PICK p \in 1 .. n : k = f[p]
      BY <1>2, <3>1 DEF Elements
    <3>3. r = cs[p] /\ Real(cs[p])
      BY <1>5, <1>13, <2>1, <2>2, <3>2
    <3> QED
      BY <2>3, <3>3 DEF Reals
  <2>4. CASE Skipped
    <3>1. chunk_max \in Int /\ sums[k] <= chunk_max
      BY <1>3, <2>1, <2>2, <2>4 DEF BInv, AccumulatorOK, Accumulated, Summed, Skipped
    <3>2. sums[k] \in Int
      BY <1>6, <2>1, <2>2 DEF Value
    <3>3. selected[q].min \in Int
      BY DEF BInv, SelectionsOK, PositionOK, Summed, Best, Sel
    <3>4. ~ (chunk_max > selected[q].min)
      BY <2>4, <3>1, <3>3, Constants DEF Skipped, Gt
    <3>5. r.val = sums[k]
      BY <2>1
    <3> QED
      BY <2>4, <3>1, <3>2, <3>3, <3>4, <3>5
  <2> QED
    BY <2>3, <2>4
<1>16. Skipped => n = 0
  BY <1>1, <1>2
<1>17. CASE Skipped
  <2>1. n = 0 /\ \A r \in ChunkResults : ~ (r.val > selected[q].min)
    BY <1>15, <1>16, <1>17
  <2> QED
    BY <1>3, <1>7, <1>9, <1>10, <1>11, <1>14, <2>1
<1>18. CASE ~ Skipped
  <2>1. Reals(cs, n) = ChunkResults
    BY <1>14, <1>15, <1>18
  <2> QED
    BY <1>3, <1>7, <1>9, <1>10, <1>11, <2>1
<1> QED
  BY <1>17, <1>18

LEMMA ChunkResultFacts ==
  ASSUME BInv, Summed
  PROVE  LET old == Results(ARow(q), use_dense[q], 0 .. c0 - 1) IN
         /\ Results(ARow(q), use_dense[q], 0 .. ChunkEnd - 1) = old \cup ChunkResults
         /\ old \subseteq Result /\ ChunkResults \subseteq Result
         /\ \A r \in old : r.idx < c0
         /\ \A r \in ChunkResults : r.idx >= c0
<1>1. /\ CallOK /\ lo < Len(a) /\ q \in Block /\ c0 \in 0 .. NCols /\ use_dense[q] \in BOOLEAN
  BY DEF BInv, PositionOK, SelectionsOK, Summed
<1>2. PICK n \in Nat, c \in Nat, w \in Nat : n = ChunkEnd /\ c = c0 /\ w = Width
  BY <1>1, ChunkFacts, Constants
<1>3. /\ n = c + w /\ n \in 0 .. NCols /\ c \in 0 .. NCols
      /\ \A k \in Locals : k < w => c + k \in Columns /\ k \in 0 .. w - 1
      /\ \A k \in 0 .. w - 1 : k \in Locals /\ k < w
  BY <1>1, <1>2, ChunkFacts
<1>4. PICK u, d : u = ARow(q) /\ d = use_dense[q]
  OBVIOUS
<1>5. /\ Results(u, d, 0 .. n - 1) \subseteq Result
      /\ \A r : r \in Results(u, d, 0 .. n - 1) <=>
           \E k \in Columns : k < n /\ IsResult(u, d, k) /\ r = [idx |-> k, val |-> DotProduct(u, b, k)]
  BY <1>1, <1>3, <1>4, ResultFacts
<1>6. /\ Results(u, d, 0 .. c - 1) \subseteq Result
      /\ \A r : r \in Results(u, d, 0 .. c - 1) <=>
           \E k \in Columns : k < c /\ IsResult(u, d, k) /\ r = [idx |-> k, val |-> DotProduct(u, b, k)]
  BY <1>1, <1>3, <1>4, ResultFacts
<1>7. \A r : r \in ChunkResults <=>
        \E k \in Columns : /\ c <= k /\ k < n /\ IsResult(u, d, k)
                           /\ r = [idx |-> k, val |-> DotProduct(u, b, k)]
  <2>1. ASSUME NEW r \in ChunkResults
        PROVE  \E k \in Columns : /\ c <= k /\ k < n /\ IsResult(u, d, k)
                                  /\ r = [idx |-> k, val |-> DotProduct(u, b, k)]
    <3>1. PICK o \in Locals : o < w /\ IsResult(u, d, c + o) /\ r = [idx |-> c + o, val |-> sums[o]]
      BY <1>2, <1>4 DEF ChunkResults
    <3>2. sums[o] = DotProduct(u, b, c + o) /\ c + o \in Columns
      BY <1>2, <1>4, <3>1, SumFacts
    <3>3. c <= c + o /\ c + o < n
      BY <1>3, <3>1 DEF Locals
    <3> QED
      BY <3>1, <3>2, <3>3
  <2>2. ASSUME NEW k \in Columns, c <= k, k < n, IsResult(u, d, k)
        PROVE  [idx |-> k, val |-> DotProduct(u, b, k)] \in ChunkResults
    <3>1. PICK o \in 0 .. w - 1 : k = c + o
      <4>1. k \in Int
        BY DEF Columns
      <4>2. k - c \in 0 .. w - 1 /\ k = c + (k - c)
        BY <1>3, <2>2, <4>1
      <4> QED
        BY <4>2
    <3>2. o \in Locals /\ o < w
      BY <1>3
    <3>3. sums[o] = DotProduct(u, b, c + o)
      BY <1>2, <1>4, <3>2, SumFacts
    <3> QED
      BY <1>2, <1>4, <2>2, <3>1, <3>2, <3>3 DEF ChunkResults
  <2> QED
    BY <2>1, <2>2
<1>8. \A k \in Columns : k \in Int /\ (k < n <=> k < c \/ (c <= k /\ k < n))
  BY <1>3 DEF Columns
<1>9. Results(u, d, 0 .. n - 1) = Results(u, d, 0 .. c - 1) \cup ChunkResults
  BY <1>5, <1>6, <1>7, <1>8
<1>10. \A r \in Results(u, d, 0 .. c - 1) : r.idx < c
  BY <1>6
<1>11. \A r \in ChunkResults : r.idx >= c
  BY <1>7, <1>8
<1> QED
  BY <1>2, <1>4, <1>5, <1>6, <1>9, <1>10, <1>11

\* The drain leaves the row a selection of everything up to the chunk's end,
\* made of what it held and what this chunk offered.
LEMMA DrainSelects ==
  ASSUME BInv, Summed, NEW t \in Drained
  PROVE  /\ Best(t, Results(ARow(q), use_dense[q], 0 .. ChunkEnd - 1), ChunkEnd)
         /\ \A e \in t.entries : e \in selected[q].entries \/ AsResult(e) \in ChunkResults
<1>1. PICK cs : cs = Candidates
  OBVIOUS
<1>2. PICK n \in Nat, c \in Nat, w \in Nat : n = ChunkEnd /\ c = c0 /\ w = Width /\ n = c + w
  BY ChunkFacts, Constants DEF BInv, PositionOK
<1>3. PICK s : s = selected[q]
  OBVIOUS
<1>4. PICK R : R = Results(ARow(q), use_dense[q], 0 .. c - 1)
  OBVIOUS
<1>5. Best(s, R, c)
  BY <1>2, <1>3, <1>4 DEF BInv, SelectionsOK, PositionOK, Summed, Passed, Done
<1>6. /\ cs \in Seq(Candidate) /\ Len(cs) \in 0 .. w
      /\ \A p, o \in 1 .. Len(cs) : p # o => cs[p].idx # cs[o].idx
      /\ \A p \in 1 .. Len(cs) : cs[p].idx >= c
      /\ Reals(cs, Len(cs)) \subseteq ChunkResults
      /\ \/ Reals(cs, Len(cs)) = ChunkResults
         \/ Len(cs) = 0 /\ \A r \in ChunkResults : ~ (r.val > s.min)
  BY <1>1, <1>2, <1>3, CandidateFacts
<1>7. /\ Results(ARow(q), use_dense[q], 0 .. n - 1) = R \cup ChunkResults
      /\ R \subseteq Result /\ ChunkResults \subseteq Result
      /\ \A r \in R : r.idx < c /\ r.idx \in Int
  BY <1>2, <1>4, ChunkResultFacts DEF Result, Columns
<1>8. \A r \in R, p \in 1 .. Len(cs) : r.idx # cs[p].idx
  <2>1. \A p \in 1 .. Len(cs) : cs[p] \in Candidate
    BY <1>6, ElementOfSeq
  <2>2. \A p \in 1 .. Len(cs) : cs[p].idx \in Int
    BY <2>1 DEF Candidate, Columns
  <2> QED
    BY <1>6, <1>7, <2>2
<1>9. t \in After(s)
  BY <1>3 DEF Drained
<1>10. ASSUME Reals(cs, Len(cs)) = ChunkResults
       PROVE  Best(t, R \cup ChunkResults, c + Len(cs))
  BY <1>1, <1>5, <1>6, <1>7, <1>8, <1>9, <1>10, AfterIsBest
<1>11. \A e \in t.entries : e \in s.entries \/ AsResult(e) \in Reals(cs, Len(cs))
  BY <1>1, <1>5, <1>6, <1>7, <1>8, <1>9, AfterIsBest
<1>12. ASSUME Len(cs) = 0, \A r \in ChunkResults : ~ (r.val > s.min)
       PROVE  Best(t, R \cup ChunkResults, c + Len(cs))
  <2>1. PICK S : S = R \cup ChunkResults
    OBVIOUS
  <2>2. Holds(s.entries, s.min, S)
    <3>1. PICK h, m : h = s.entries /\ m = s.min
      OBVIOUS
    <3>2. Holds(h, m, R) /\ R \subseteq S /\ \A r \in S : r \in R \/ ~ (r.val > m)
      BY <1>5, <1>12, <2>1, <3>1 DEF Best
    <3>3. Holds(h, m, S)
      BY <3>2, HoldsMore
    <3> QED
      BY <3>1, <3>3
  <2>3. Best(s, S, c) /\ S \subseteq Result
    BY <1>5, <1>7, <2>1, <2>2 DEF Best
  <2>4. \A r \in S, p \in 1 .. Len(cs) : r.idx # cs[p].idx
    BY <1>12
  <2>5. Best(t, S \cup Reals(cs, Len(cs)), c + Len(cs))
    BY <1>1, <1>6, <1>9, <2>3, <2>4, AfterIsBest
  <2>6. S \cup Reals(cs, Len(cs)) = S
    BY <1>6, <2>1
  <2> QED
    BY <2>1, <2>5, <2>6
<1>13. Best(t, R \cup ChunkResults, c + Len(cs))
  BY <1>6, <1>10, <1>12
<1>14. t.n_set \in Nat /\ t.n_set <= c + Len(cs) /\ c + Len(cs) <= n
  BY <1>2, <1>6, <1>13 DEF Best, Sel
<1>15. Best(t, R \cup ChunkResults, n)
  BY <1>2, <1>6, <1>13, <1>14 DEF Best
<1> QED
  BY <1>2, <1>3, <1>6, <1>7, <1>11, <1>15

LEMMA BestIsTyped ==
  ASSUME NEW x, NEW R, NEW n \in 0 .. NCols, Best(x, R, n)
  PROVE  Typed(x)
<1>1. x.entries \subseteq Entry /\ x.n_set \in Nat /\ x.n_set <= n
  BY DEF Best, Sel, Holds
<1>2. \A e \in x.entries : e.order < x.n_set
  BY DEF Best
<1>3. PICK h : h = x.entries
  OBVIOUS
<1>4. PICK m \in Nat : m = x.n_set
  BY <1>1
<1>5. ASSUME NEW e \in h PROVE e \in [order : 0 .. m - 1, idx : Columns, val : Int]
  <2>1. e \in Entry /\ e.order < m
    BY <1>1, <1>2, <1>3, <1>4
  <2>2. e.order \in 0 .. m - 1
    BY <2>1 DEF Entry
  <2> QED
    BY <2>1, <2>2 DEF Entry
<1>6. m \in 0 .. NCols
  BY <1>1, <1>4, Constants
<1> QED
  BY <1>3, <1>4, <1>5, <1>6 DEF Typed

\* Clearing what the row touched clears everything.
LEMMA DrainCleans ==
  ASSUME BInv, Summed, Drain
  PROVE  Clean' /\ sums' \in [Locals -> Value] /\ list' \in Seq(Locals) /\ chunk_max' \in Int
<1>1. sums' = Cleared /\ list' = <<>> /\ chunk_max' = MinValue
  BY DEF Drain
<1>2. \A k \in Locals : sums'[k] = 0
  <2> SUFFICES ASSUME NEW k \in Locals PROVE Cleared[k] = 0
    BY <1>1
  <2>1. ~ (k < Width) => sums[k] = 0
    BY DEF BInv, AccumulatorOK, Accumulated, Summed
  <2>2. k < Width <=> k < ChunkEnd - c0
    BY DEF Width
  <2>3. CASE use_dense[q]
    BY <2>1, <2>2, <2>3 DEF Cleared
  <2>4. CASE ~ use_dense[q]
    <3>1. k \in Listed <=> k < Width /\ Seen(ARow(q), b, c0 + k, jj - 1)
      BY <2>4 DEF BInv, AccumulatorOK, Accumulated, Summed
    <3>2. k < Width /\ ~ Seen(ARow(q), b, c0 + k, jj - 1) => sums[k] = 0
      BY SumFacts
    <3> QED
      BY <2>1, <2>4, <3>1, <3>2 DEF Cleared
  <2> QED
    BY <2>3, <2>4
<1>3. sums' = [k \in Locals |-> sums'[k]]
  BY <1>1 DEF Cleared
<1> QED
  BY <1>1, <1>2, <1>3, BlockAssumption, Constants DEF Clean

\* Where the drain leads: the next row, or the first one in the next chunk.
LEMMA DrainMoves ==
  ASSUME BInv, Drain
  PROVE  /\ Summed /\ UNCHANGED <<call, lo, use_dense, cursors, out>> /\ jj' = 1
         /\ \A s \in Block : Done(s)' = IF s <= q THEN ChunkEnd ELSE c0
         /\ \A s \in Block : pc' = "scatter" => (IF s < q' THEN ChunkEnd' ELSE c0')
                                                   = IF s <= q THEN ChunkEnd ELSE c0
         /\ CallOK' /\ PositionOK'
<1>1. /\ UNCHANGED <<a, b, is_float, projection, sort, block_rows, BlockLen, Block>> /\ CallOK'
      /\ \A s : ARow(s)' = ARow(s)
  BY CallStays DEF Drain, BInv
<1>2. /\ CallOK /\ lo < Len(a) /\ pc = "scatter" /\ q \in Block /\ c0 \in 0 .. NCols /\ c0 < NCols
      /\ Summed /\ UNCHANGED <<call, lo, use_dense, cursors, out>> /\ jj' = 1
  BY DEF Drain, BInv, PositionOK, Summed
<1>3. /\ BlockLen \in Nat \ {0} /\ BlockLen \in 1 .. block_rows /\ Block = 0 .. BlockLen - 1
      /\ \A s \in Block : Len(ARow(s)) \in Nat
  BY <1>2, BlockFacts
<1>4. PICK n \in 0 .. NCols, c \in 0 .. NCols : n = ChunkEnd /\ c = c0
  BY <1>2, ChunkFacts
<1>5. CASE q + 1 < BlockLen
  <2>1. q' = q + 1 /\ pc' = "scatter" /\ c0' = c0 /\ ChunkEnd' = ChunkEnd
    BY <1>2, <1>5 DEF Drain, ChunkEnd
  <2>2. \A s \in Block : s < q' <=> s <= q
    BY <1>2, <1>3, <2>1
  <2>3. \A s \in Block : Done(s)' = IF s <= q THEN ChunkEnd ELSE c0
    BY <1>1, <2>1, <2>2 DEF Done
  <2>4. q + 1 \in Block
    BY <1>2, <1>3, <1>5
  <2>5. q + 1 \in 0 .. block_rows - 1
    BY <1>1, <1>2, <1>3, <2>4 DEF CallOK
  <2>6. jj' \in 1 .. Len(ARow(q + 1)) + 1
    BY <1>2, <1>3, <2>4
  <2>7. PositionOK'
    BY <1>1, <1>2, <2>1, <2>4, <2>5, <2>6 DEF PositionOK
  <2> QED
    BY <1>1, <1>2, <2>1, <2>2, <2>3, <2>7
<1>6. CASE ~ (q + 1 < BlockLen)
  <2>1. /\ q' = 0 /\ c0' = n /\ pc' = IF n < NCols THEN "scatter" ELSE "emit"
    BY <1>4, <1>6 DEF Drain
  <2>2. \A s \in Block : s <= q /\ ~ (s < q')
    BY <1>2, <1>3, <1>6, <2>1
  <2>3. \A s \in Block : Done(s)' = IF s <= q THEN ChunkEnd ELSE c0
    BY <1>1, <1>4, <2>1, <2>2 DEF Done
  <2>4. 0 \in Block /\ 0 \in 0 .. block_rows - 1
    BY <1>1, <1>2, <1>3 DEF CallOK
  <2>5. jj' \in 1 .. Len(ARow(0)) + 1
    BY <1>2, <1>3, <2>4
  <2>6. n \in 0 .. NCols /\ (~ (n < NCols) => n = NCols)
    BY Constants
  <2>7. PositionOK'
    BY <1>1, <1>2, <2>1, <2>4, <2>5, <2>6 DEF PositionOK
  <2> QED
    BY <1>1, <1>2, <1>4, <2>1, <2>2, <2>3, <2>7
<1> QED
  BY <1>5, <1>6

LEMMA DrainInv == BInv /\ Drain => BInv'
<1> SUFFICES ASSUME BInv, Drain PROVE BInv'
  OBVIOUS
<1>1. /\ UNCHANGED <<a, b, is_float, projection, sort, block_rows, BlockLen, Block>>
      /\ \A s : ARow(s)' = ARow(s) /\ CursorBase(s)' = CursorBase(s)
      /\ \A s, e : BRow(s, e)' = BRow(s, e)
  BY CallStays DEF Drain
<1>2. /\ Summed /\ UNCHANGED <<call, lo, use_dense, cursors, out>> /\ jj' = 1
      /\ \A s \in Block : Done(s)' = IF s <= q THEN ChunkEnd ELSE c0
      /\ \A s \in Block : pc' = "scatter" => (IF s < q' THEN ChunkEnd' ELSE c0')
                                                = IF s <= q THEN ChunkEnd ELSE c0
      /\ CallOK' /\ PositionOK'
  BY DrainMoves
<1>3. /\ CallOK /\ lo < Len(a) /\ pc = "scatter" /\ q \in Block /\ c0 \in 0 .. NCols
      /\ jj > Len(ARow(q))
  BY <1>2 DEF BInv, PositionOK, Summed
<1>4. /\ Block \subseteq Nat /\ q \in Nat
      /\ \A s \in Block : Len(ARow(s)) \in Nat /\ DOMAIN ARow(s) = 1 .. Len(ARow(s))
  BY <1>3, BlockFacts
<1>5. CursorsOK'
  <2>1. cursors' \in Seq(Nat \ {0})
    BY <1>2 DEF BInv, CursorsOK
  <2>2. (pc = "scatter" /\ projection = "Cursor" => Len(cursors) = CursorBase(BlockLen))'
    BY <1>1, <1>2, <1>3 DEF BInv, CursorsOK
  <2>3. CursorsResume'
    <3> SUFFICES ASSUME (pc = "scatter")', (projection = "Cursor")',
                        NEW s \in Block', NEW e \in DOMAIN ARow(s)'
                 PROVE  Cursor(s, e)' = PartitionPoint(BRow(s, e)',
                          IF s < q' \/ (s = q' /\ e < jj') THEN ChunkEnd' ELSE c0')
      BY DEF CursorsResume
    <3>1. s \in Block /\ e \in 1 .. Len(ARow(s)) /\ e \in DOMAIN ARow(s) /\ projection = "Cursor"
      BY <1>1, <1>4
    <3>2. Cursor(s, e)' = Cursor(s, e)
      BY <1>1, <1>2 DEF Cursor
    <3>3. Cursor(s, e) = PartitionPoint(BRow(s, e),
                           IF s < q \/ (s = q /\ e < jj) THEN ChunkEnd ELSE c0)
      BY <1>3, <3>1 DEF BInv, CursorsOK, CursorsResume
    <3>4. s < q \/ (s = q /\ e < jj) <=> s <= q
      <4>1. jj \in Nat /\ s \in Nat /\ q \in Nat /\ Len(ARow(s)) \in Nat
        BY <1>3, <1>4, <3>1 DEF BInv, PositionOK
      <4>2. s = q => e < jj
        BY <1>3, <3>1, <4>1
      <4> QED
        BY <4>1, <4>2
    <3>5. ~ (e < jj')
      BY <1>2, <1>4, <3>1
    <3>6. (IF s < q' \/ (s = q' /\ e < jj') THEN ChunkEnd' ELSE c0')
            = IF s < q \/ (s = q /\ e < jj) THEN ChunkEnd ELSE c0
      BY <1>2, <3>1, <3>4, <3>5
    <3> QED
      BY <1>1, <3>2, <3>3, <3>6
  <2> QED
    BY <2>1, <2>2, <2>3 DEF CursorsOK
<1>6. AccumulatorOK'
  <2>1. Clean' /\ sums' \in [Locals -> Value] /\ list' \in Seq(Locals) /\ chunk_max' \in Int
    BY <1>2, DrainCleans
  <2>2. (CallOK /\ lo < Len(a) /\ q \in Block /\ c0 \in 0 .. NCols /\ jj = 1 /\ Clean => Accumulated)'
    BY CleanIsAccumulated, PTL
  <2>3. (pc = "scatter")' => (lo < Len(a) /\ q \in Block /\ c0 \in 0 .. NCols)'
    BY <1>2 DEF PositionOK
  <2>4. (pc = "scatter")' => Accumulated'
    BY <1>2, <2>1, <2>2, <2>3
  <2> QED
    BY <2>1, <2>4 DEF AccumulatorOK
<1>7. SelectionsOK'
  <2>1. PICK t \in Drained : selected' = [selected EXCEPT ![q] = t]
    BY DEF Drain
  <2>2. /\ use_dense \in [Block -> BOOLEAN] /\ \A s \in Block : use_dense[s] => is_float
        /\ DOMAIN selected = Block /\ selected = [s \in Block |-> selected[s]]
        /\ \A s \in Block : /\ Typed(selected[s])
                            /\ Best(selected[s], Results(ARow(s), use_dense[s], Passed(s)), Done(s))
    BY <1>3 DEF BInv, SelectionsOK
  <2>3. /\ selected' = [s \in Block |-> IF s = q THEN t ELSE selected[s]] /\ DOMAIN selected' = Block
        /\ \A s \in Block : selected'[s] = IF s = q THEN t ELSE selected[s]
    BY <1>3, <2>1, <2>2
  <2>4. ChunkEnd \in 0 .. NCols
    BY <1>3, ChunkFacts
  <2>5. Best(t, Results(ARow(q), use_dense[q], 0 .. ChunkEnd - 1), ChunkEnd) /\ Typed(t)
    BY <1>2, <2>4, DrainSelects, BestIsTyped
  <2>6. \A s \in Block : /\ Passed(s) = 0 .. Done(s) - 1
                         /\ Passed(s)' = 0 .. Done(s)' - 1
    BY DEF Passed, Done
  <2>7. \A s \in Block : Results(ARow(s), use_dense[s], Passed(s))'
                           = Results(ARow(s), use_dense[s], 0 .. Done(s)' - 1)
    BY <1>1, <1>2, <2>6 DEF Results, IsResult
  <2>8. ASSUME NEW s \in Block
        PROVE  Best(selected'[s], Results(ARow(s), use_dense[s], 0 .. Done(s)' - 1), Done(s)')
    <3>1. CASE s = q
      BY <1>2, <1>4, <2>3, <2>5, <3>1
    <3>2. CASE s # q
      <4>1. Done(s)' = Done(s)
        BY <1>2, <1>3, <1>4, <3>2 DEF Done
      <4> QED
        BY <2>2, <2>3, <2>6, <3>2, <4>1
    <3> QED
      BY <3>1, <3>2
  <2>9. \A s \in Block : Best(selected[s], Results(ARow(s), use_dense[s], Passed(s)), Done(s))'
    BY <2>7, <2>8 DEF Best, Holds
  <2>10. \A s \in DOMAIN selected' : Typed(selected[s])'
    BY <2>2, <2>3, <2>5 DEF Typed
  <2> QED
    BY <1>1, <1>2, <2>2, <2>3, <2>9, <2>10 DEF SelectionsOK
<1>8. OutputOK'
  <2>1. (IF pc = "emit" THEN q ELSE 0)' = 0 /\ (IF pc = "emit" THEN q ELSE 0) = 0
    BY <1>3 DEF Drain
  <2> QED
    BY <1>2, <2>1, OutputStays DEF BInv
<1> QED
  BY <1>2, <1>5, <1>6, <1>7, <1>8 DEF BInv

-----------------------------------------------------------------------------
(* A row is emitted *)

LEMMA BeforeByValue ==
  ASSUME NEW e, NEW f, sort = "ByValueDesc"
  PROVE  Before(e, f) <=> e.val > f.val
BY DEF Before

\* The row that comes out is right.
LEMMA EmittedRow ==
  ASSUME BInv, pc = "emit", NEW f \in Listings(selected[q].entries, Before),
         NEW g, g = [p \in DOMAIN f |-> [idx |-> f[p].idx, val |-> f[p].val]]
  PROVE  /\ RowIsRight(g, Results(a[lo + q + 1], FALSE, 0 .. NCols - 1), is_float,
                       sort = "ByValueDesc")
         /\ g \in Seq(Result)
<1>1. CallOK /\ lo < Len(a) /\ q \in Block /\ c0 = NCols /\ use_dense[q] \in BOOLEAN
  BY DEF BInv, PositionOK, SelectionsOK
<1>2. PICK h, m, u, d : /\ h = selected[q].entries /\ m = selected[q].min
                        /\ u = ARow(q) /\ d = use_dense[q]
  OBVIOUS
<1>3. u = a[lo + q + 1]
  BY <1>1, <1>2, BlockFacts
<1>4. PICK R, all : R = Results(u, d, 0 .. NCols - 1) /\ all = Results(u, FALSE, 0 .. NCols - 1)
  OBVIOUS
<1>5. Holds(h, m, R)
  BY <1>1, <1>2, <1>4 DEF BInv, SelectionsOK, Best, Passed
<1>6. NCols \in 0 .. NCols
  BY Constants
<1>7. /\ R \subseteq Result
      /\ \A r : r \in R <=> \E k \in Columns : /\ k < NCols /\ IsResult(u, d, k)
                                               /\ r = [idx |-> k, val |-> DotProduct(u, b, k)]
  BY <1>1, <1>2, <1>4, <1>6, ResultFacts
<1>8. \A r : r \in all <=> \E k \in Columns : /\ k < NCols /\ IsResult(u, FALSE, k)
                                              /\ r = [idx |-> k, val |-> DotProduct(u, b, k)]
  <2>1. PICK no \in BOOLEAN : no = FALSE
    OBVIOUS
  <2>2. \A r : r \in Results(u, no, 0 .. NCols - 1) <=>
          \E k \in Columns : /\ k < NCols /\ IsResult(u, no, k)
                             /\ r = [idx |-> k, val |-> DotProduct(u, b, k)]
    BY <1>1, <1>2, <1>6, ResultFacts
  <2> QED
    BY <1>4, <2>1, <2>2
<1>9. /\ \A k : IsResult(u, d, k) => IsResult(u, FALSE, k)
      /\ \A k : IsResult(u, FALSE, k) /\ ~ IsResult(u, d, k) => DotProduct(u, b, k) = 0 /\ is_float
  BY DEF IsResult
<1> DEFINE zeros == all \ R
<1>10. zeros \in SUBSET {c \in all : c.val = 0 /\ is_float} /\ all \ zeros = R
  <2>1. \A r \in R : r \in all
    BY <1>7, <1>8, <1>9
  <2>2. ASSUME NEW c \in all, c \notin R PROVE c.val = 0 /\ is_float
    <3>1. PICK k \in Columns : /\ k < NCols /\ IsResult(u, FALSE, k)
                               /\ c = [idx |-> k, val |-> DotProduct(u, b, k)]
      BY <1>8
    <3>2. ~ IsResult(u, d, k)
      BY <1>7, <2>2, <3>1
    <3> QED
      BY <1>9, <3>1, <3>2
  <2> QED
    BY <2>1, <2>2
<1> DEFINE row == {AsResult(e) : e \in h}
<1>11. Selection(0)!IsTopN(row, R) /\ Cardinality(row) = Cardinality(h)
  BY <1>5, <1>7, HoldsIsTopN
<1>12. PICK n \in Nat : n = Cardinality(h)
  BY <1>5, RootFacts
<1>13. /\ f \in [1 .. n -> h] /\ {f[p] : p \in 1 .. n} = h
       /\ \A p, s \in 1 .. n : p < s => ~ Before(f[s], f[p])
  <2>1. f \in [1 .. Cardinality(h) -> h]
    BY <1>2 DEF Listings
  <2>2. DOMAIN f = 1 .. n
    BY <1>12, <2>1
  <2>3. {f[p] : p \in DOMAIN f} = h /\ \A p, s \in DOMAIN f : p < s => ~ Before(f[s], f[p])
    BY <1>2 DEF Listings
  <2> QED
    BY <1>12, <2>1, <2>2, <2>3
<1>14. /\ g = [p \in 1 .. n |-> AsResult(f[p])] /\ DOMAIN g = 1 .. n /\ Len(g) = n
       /\ \A p \in 1 .. n : g[p] = AsResult(f[p]) /\ g[p].val = f[p].val /\ f[p].val \in Int
  <2>1. DOMAIN f = 1 .. n
    BY <1>13
  <2>2. g = [p \in 1 .. n |-> AsResult(f[p])]
    BY <2>1 DEF AsResult
  <2>3. \A p \in 1 .. n : f[p] \in h /\ f[p].val \in Int
    BY <1>5, <1>13, RootFacts
  <2>4. \A p \in 1 .. n : AsResult(f[p]).val = f[p].val
    BY DEF AsResult
  <2>5. Len(g) = n
    BY <2>2
  <2> QED
    BY <2>2, <2>3, <2>4, <2>5
<1>15. {g[p] : p \in DOMAIN g} = row
  <2>1. {g[p] : p \in DOMAIN g} = {AsResult(f[p]) : p \in 1 .. n}
    BY <1>14
  <2>2. {AsResult(f[p]) : p \in 1 .. n} = row
    BY <1>13
  <2> QED
    BY <2>1, <2>2
<1>16. sort = "ByValueDesc" => \A p, s \in DOMAIN g : p < s => g[p].val >= g[s].val
  <2> SUFFICES ASSUME sort = "ByValueDesc", NEW p \in 1 .. n, NEW s \in 1 .. n, p < s
               PROVE  f[p].val >= f[s].val
    BY <1>14
  <2>1. ~ (f[s].val > f[p].val)
    BY <1>13, BeforeByValue
  <2> QED
    BY <1>14, <2>1
<1>17. Cardinality(row) = Len(g)
  BY <1>11, <1>12, <1>14
<1> HIDE DEF zeros, row
<1>18. \E z \in SUBSET {c \in all : c.val = 0 /\ is_float} : Selection(0)!IsTopN(row, all \ z)
  BY <1>10, <1>11
<1>19. g \in Seq(Result)
  <2>1. \A p \in 1 .. n : AsResult(f[p]) \in Result
    BY <1>5, <1>7, <1>13 DEF Holds
  <2> QED
    BY <1>14, <2>1
<1> QED
  BY <1>3, <1>4, <1>15, <1>16, <1>17, <1>18, <1>19 DEF RowIsRight

LEMMA EmitRowInv == BInv /\ EmitRow => BInv'
<1> SUFFICES ASSUME BInv, EmitRow PROVE BInv'
  OBVIOUS
<1>1. /\ UNCHANGED <<call, use_dense, selected, cursors, c0, jj, sums, list, chunk_max>>
      /\ UNCHANGED <<a, b, is_float, projection, sort, block_rows>>
  BY DEF EmitRow, call
<1>2. /\ CallOK /\ lo < Len(a) /\ pc = "emit" /\ q \in Block /\ c0 = NCols /\ jj = 1
  BY DEF EmitRow, BInv, PositionOK
<1>3. /\ BlockLen \in Nat \ {0} /\ BlockLen \in 1 .. block_rows /\ Block = 0 .. BlockLen - 1
      /\ lo + BlockLen \in 1 .. Len(a) /\ lo \in Nat /\ block_rows \in Nat /\ Len(a) \in Nat
  BY <1>2, BlockFacts DEF CallOK
<1>4. \/ /\ q + 1 < BlockLen /\ q' = q + 1 /\ pc' = "emit" /\ lo' = lo
      \/ /\ q + 1 = BlockLen /\ q' = 0 /\ lo' = lo + BlockLen
         /\ pc' \in {"block", "done"} /\ (pc' # "done" => lo' < Len(a))
  BY <1>2, <1>3 DEF EmitRow
<1>5. CallOK'
  BY <1>1, <1>2, <1>3, <1>4 DEF CallOK
<1>6. PositionOK'
  <2>1. CASE lo' = lo /\ pc' = "emit" /\ q' = q + 1 /\ q + 1 < BlockLen
    <3>1. Block' = Block
      BY <1>1, <2>1 DEF Block, BlockLen
    <3>2. q + 1 \in Block /\ q + 1 \in 0 .. block_rows - 1
      BY <1>2, <1>3, <2>1
    <3> QED
      BY <1>1, <1>2, <2>1, <3>1, <3>2 DEF BInv, PositionOK
  <2>2. CASE q' = 0 /\ pc' \in {"block", "done"} /\ (pc' # "done" => lo' < Len(a))
    BY <1>1, <1>2, <1>3, <2>2 DEF BInv, PositionOK
  <2> QED
    BY <1>4, <2>1, <2>2
<1>7. pc' # "scatter"
  BY <1>4
<1>8. CursorsOK'
  BY <1>1, <1>7 DEF BInv, CursorsOK, CursorsResume
<1>9. AccumulatorOK'
  BY <1>1, <1>2, <1>7 DEF BInv, AccumulatorOK, Clean
<1>10. SelectionsOK'
  <2>1. \A s \in DOMAIN selected' : Typed(selected[s])'
    BY <1>1 DEF BInv, SelectionsOK, Typed
  <2>2. CASE pc' # "emit"
    BY <1>7, <2>1, <2>2 DEF SelectionsOK
  <2>3. CASE pc' = "emit"
    <3>1. UNCHANGED <<call, lo>>
      BY <1>1, <1>4, <2>3
    <3>2. UNCHANGED <<b, is_float, Block>> /\ \A s : ARow(s)' = ARow(s)
      BY <3>1, CallStays
    <3>3. \A s : Passed(s)' = Passed(s) /\ Done(s)' = Done(s)
      BY <1>1, <1>2, <2>3 DEF Passed, Done
    <3>4. \A s : Results(ARow(s), use_dense[s], Passed(s))' = Results(ARow(s), use_dense[s], Passed(s))
      BY <1>1, <3>2, <3>3 DEF Results, IsResult
    <3>5. \A s : Best(selected[s], Results(ARow(s), use_dense[s], Passed(s)), Done(s))'
                   <=> Best(selected[s], Results(ARow(s), use_dense[s], Passed(s)), Done(s))
      BY <1>1, <3>3, <3>4 DEF Best, Holds
    <3> QED
      BY <1>1, <1>2, <2>1, <3>2, <3>5 DEF BInv, SelectionsOK
  <2> QED
    BY <2>2, <2>3
<1>11. OutputOK'
  <2>1. PICK f \in Listings(selected[q].entries, Before) :
          out' = Append(out, [p \in DOMAIN f |-> [idx |-> f[p].idx, val |-> f[p].val]])
    BY DEF EmitRow
  <2>2. PICK g : g = [p \in DOMAIN f |-> [idx |-> f[p].idx, val |-> f[p].val]]
    OBVIOUS
  <2>3. /\ RowIsRight(g, Results(a[lo + q + 1], FALSE, 0 .. NCols - 1), is_float,
                      sort = "ByValueDesc")
        /\ g \in Seq(Result)
    BY <1>2, <2>2, EmittedRow
  <2>4. Len(out) = lo + q /\ \A i \in DOMAIN out : RightRow(i)
    BY <1>2, OutputIsRows DEF BInv, OutputOK
  <2>5. PICK n \in Nat : n = Len(out)
    BY <1>2, <1>3, <2>4
  <2>6. /\ Len(out') = n + 1 /\ DOMAIN out' = 1 .. n + 1 /\ DOMAIN out = 1 .. n /\ out'[n + 1] = g
        /\ out' \in Seq(Seq(Result)) /\ \A i \in 1 .. n : out'[i] = out[i]
    BY <2>1, <2>2, <2>3, <2>5, AppendProperties DEF BInv, OutputOK
  <2>7. \A i : RightRow(i)' <=>
          RowIsRight(out'[i], Results(a[i], FALSE, 0 .. NCols - 1), is_float, sort = "ByValueDesc")
    BY <1>1, RightRowNext
  <2>8. \A i \in 1 .. n : RightRow(i)'
    BY <2>4, <2>6, <2>7 DEF RightRow
  <2>9. RightRow(n + 1)'
    BY <2>3, <2>4, <2>5, <2>6, <2>7
  <2>10. \A i \in DOMAIN out' : RightRow(i)'
    <3>1. \A i \in 1 .. n + 1 : i \in 1 .. n \/ i = n + 1
      OBVIOUS
    <3> QED
      BY <2>6, <2>8, <2>9, <3>1
  <2>11. Len(out') = lo' + (IF pc' = "emit" THEN q' ELSE 0)
    <3>1. Len(out') = lo + q + 1 /\ q \in Nat /\ lo \in Nat
      BY <1>2, <1>3, <2>4, <2>5, <2>6
    <3> QED
      BY <1>3, <1>4, <3>1
  <2> QED
    BY <2>6, <2>10, <2>11, OutputIsRows DEF OutputOK
<1> QED
  BY <1>5, <1>6, <1>8, <1>9, <1>10, <1>11 DEF BInv

LEMMA StutterInv == BInv /\ UNCHANGED vars => BInv'
<1> SUFFICES ASSUME BInv, UNCHANGED vars PROVE BInv'
  OBVIOUS
<1>1. UNCHANGED <<call, pc, lo, use_dense, selected, cursors, c0, q, jj, sums, list, chunk_max, out>>
  BY DEF vars
<1>2. /\ UNCHANGED <<a, b, is_float, projection, sort, block_rows, BlockLen, Block>> /\ CallOK'
      /\ \A s : ARow(s)' = ARow(s) /\ CursorBase(s)' = CursorBase(s)
      /\ \A s, e : BRow(s, e)' = BRow(s, e)
  BY <1>1, CallStays DEF BInv
<1>3. PositionOK'
  BY <1>1, <1>2 DEF BInv, PositionOK
<1>4. CursorsOK'
  BY <1>1, <1>2 DEF BInv, CursorsOK, CursorsResume, Cursor, ChunkEnd
<1>5. AccumulatorOK'
  BY <1>1, <1>2 DEF BInv, AccumulatorOK, Accumulated, Clean, Listed, Width, ChunkEnd
<1>6. SelectionsOK'
  BY <1>1, SelectionsStay DEF BInv
<1>7. OutputOK'
  BY <1>1, OutputStays DEF BInv
<1> QED
  BY <1>2, <1>3, <1>4, <1>5, <1>6, <1>7 DEF BInv

LEMMA StepInv == BInv /\ [Next]_vars => BInv'
<1> SUFFICES ASSUME BInv, [Next]_vars PROVE BInv'
  OBVIOUS
<1>1. ASSUME NEW d \in [Block -> BOOLEAN], StartBlock(d) PROVE BInv'
  BY <1>1, StartBlockInv
<1>2. CASE Scatter
  BY <1>2, ScatterInv
<1>3. CASE Drain
  BY <1>3, DrainInv
<1>4. CASE EmitRow
  BY <1>4, EmitRowInv
<1>5. CASE UNCHANGED vars
  BY <1>5, StutterInv
<1> QED
  BY <1>1, <1>2, <1>3, <1>4, <1>5 DEF Next

-----------------------------------------------------------------------------
(* The theorems *)

\* The invariant holds whatever the matrices, widths and block size: every chunk
\* of every block finds its own row's state where that row left it.
THEOREM BlockInvariant == Spec => []BInv
BY InitInv, StepInv, PTL DEF Spec

LEMMA TypesFollow == BInv => TypeOK
<1> SUFFICES ASSUME BInv PROVE TypeOK
  OBVIOUS
<1>1. CallOK /\ PositionOK /\ CursorsOK /\ AccumulatorOK /\ SelectionsOK /\ OutputIsTopN
  BY DEF BInv, OutputOK
<1>2. \A s \in DOMAIN selected :
        /\ selected[s].entries \subseteq [order : 0 .. selected[s].n_set - 1,
                                          idx : 0 .. NCols - 1, val : Int]
        /\ selected[s].n_set \in 0 .. NCols
  BY <1>1 DEF SelectionsOK, Typed, Columns
<1>3. \A k \in Locals : sums[k] \in Value
  BY <1>1 DEF AccumulatorOK
<1>4. Len(out) <= Len(a)
  <2>1. Len(out) = lo + (IF pc = "emit" THEN q ELSE 0) /\ Len(a) \in Nat /\ lo \in 0 .. Len(a)
    BY <1>1, RowOfA DEF OutputIsTopN, CallOK
  <2>2. CASE pc = "emit"
    <3>1. lo < Len(a) /\ q \in Block
      BY <1>1, <2>2 DEF PositionOK
    <3>2. lo + BlockLen \in 1 .. Len(a) /\ BlockLen \in Nat /\ q \in 0 .. BlockLen - 1
      BY <1>1, <3>1, BlockFacts
    <3> QED
      BY <2>1, <2>2, <3>2
  <2>3. CASE pc # "emit"
    BY <2>1, <2>3
  <2> QED
    BY <2>2, <2>3
<1> QED
  BY <1>1, <1>2, <1>3, <1>4 DEF CallOK, PositionOK, CursorsOK, AccumulatorOK, TypeOK

\* The driver's position, the shared accumulator, the cursors and every row's
\* heap keep their types; no heap counts more pushes than there are columns.
THEOREM TypesHold == Spec => []TypeOK
BY BlockInvariant, TypesFollow, PTL

LEMMA CleanFollows == BInv => AccumulatorClean
<1> SUFFICES ASSUME BInv, jj = 1 \/ pc # "scatter" PROVE Clean
  BY DEF AccumulatorClean, Clean
<1>1. CASE pc # "scatter"
  BY <1>1 DEF BInv, AccumulatorOK
<1>2. CASE pc = "scatter"
  <2>1. CallOK /\ lo < Len(a) /\ q \in Block /\ c0 \in 0 .. NCols /\ jj - 1 = 0 /\ Accumulated
    BY <1>2 DEF BInv, PositionOK, AccumulatorOK
  <2>2. ASSUME NEW k \in Locals, k < Width
        PROVE  Partials(ARow(q), b, c0 + k)[0] = 0 /\ ~ Seen(ARow(q), b, c0 + k, 0)
    <3>1. c0 + k \in Columns
      BY <2>1, <2>2, ChunkFacts
    <3> QED
      BY <2>1, <3>1, ColumnFacts
  <2>3. \A k \in Locals : sums[k] = 0
    BY <2>1, <2>2 DEF Accumulated
  <2>4. list = <<>>
    <3>1. CASE use_dense[q]
      BY <2>1, <3>1 DEF Accumulated
    <3>2. CASE ~ use_dense[q]
      <4>1. Listed = {k \in Locals : k < Width /\ Seen(ARow(q), b, c0 + k, 0)}
        BY <2>1, <3>2 DEF Accumulated
      <4>2. \A p \in DOMAIN list : list[p] \in Listed
        BY DEF Listed
      <4>3. list \in Seq(Locals) /\ DOMAIN list = {}
        BY <2>2, <4>1, <4>2 DEF BInv, AccumulatorOK
      <4> QED
        BY <4>3
    <3> QED
      BY <3>1, <3>2
  <2> QED
    BY <2>3, <2>4 DEF Clean
<1> QED
  BY <1>1, <1>2

\* The drain of a row, dense or linked, complete or skipped, in a chunk of any
\* width, leaves no sum and no listed column to whoever takes the accumulator over.
THEOREM AccumulatorIsClean == Spec => []AccumulatorClean
BY BlockInvariant, CleanFollows, PTL

\* Between two chunks other rows run, but a row's cursors stand where it stopped:
\* at the first entry of each of its rows of B past the chunks it has seen.
THEOREM CursorsAlwaysResume == Spec => []CursorsResume
BY BlockInvariant, PTL DEF BInv, CursorsOK

\* The rows come out in the order of A, each with the best columns of its whole
\* product, however the run cut it into blocks and chunks, whichever projection
\* found the entries of B and whichever accumulator summed them.
THEOREM RowsAreTopN == Spec => []OutputIsTopN
BY BlockInvariant, PTL DEF BInv, OutputOK

-----------------------------------------------------------------------------
(* Refinement of TopN *)

\* A step of row s's selection, or none.
RowStep(s) == Selection(s)!Next \/ UNCHANGED <<Offered(s), Kept(s)>>

LEMMA KeptIs ==
  ASSUME NEW s, Working(s)
  PROVE  /\ Kept(s) = {AsResult(e) : e \in selected[s].entries}
         /\ Offered(s) = Results(ARow(s), use_dense[s], Passed(s))
BY DEF Kept, Offered, AsResult

LEMMA StartBlockSelects ==
  ASSUME BInv, NEW d \in [Block -> BOOLEAN], StartBlock(d), NEW s
  PROVE  RowStep(s)
<1>1. UNCHANGED <<call, lo>> /\ pc' = "scatter" /\ c0' = 0 /\ q' = 0
  BY DEF StartBlock
<1>2. Block' = Block /\ ARow(s)' = ARow(s)
  BY <1>1, CallStays
<1>3. ASSUME s \in Block PROVE Offered(s)' = {} /\ Kept(s)' = {}
  <2>1. selected'[s].entries = {}
    BY <1>3 DEF StartBlock
  <2>2. ~ (s < 0)
    BY <1>3 DEF Block
  <2>3. Passed(s)' = 0 .. 0 - 1
    BY <1>1, <2>2 DEF Passed
  <2>4. 0 .. 0 - 1 = {}
    OBVIOUS
  <2> QED
    BY <2>1, <2>3, <2>4 DEF Offered, Kept, Results
<1>4. ASSUME s \notin Block PROVE Offered(s)' = {} /\ Kept(s)' = {}
  BY <1>2, <1>4 DEF Offered, Kept, Working
<1> QED
  BY <1>3, <1>4 DEF RowStep, Selection!Next, Selection!Reset

LEMMA DrainOffersRow ==
  ASSUME BInv, BInv', Drain, NEW s
  PROVE  RowStep(s)
<1>1. /\ UNCHANGED <<a, b, is_float, Block>> /\ ARow(s)' = ARow(s)
  BY CallStays DEF Drain
<1>2. /\ Summed /\ UNCHANGED <<lo, use_dense>>
      /\ s \in Block => Done(s)' = IF s <= q THEN ChunkEnd ELSE c0
  BY DrainMoves
<1>3. pc = "scatter" /\ pc' \in {"scatter", "emit"} /\ q \in Block /\ q \in Nat
  BY DEF Drain, BInv, PositionOK, Block
<1>4. CASE s \notin Block
  BY <1>1, <1>4 DEF RowStep, Offered, Kept, Working
<1>5. ASSUME s \in Block
      PROVE  /\ Kept(s) = {AsResult(e) : e \in selected[s].entries}
             /\ Kept(s)' = {AsResult(e) : e \in selected'[s].entries}
             /\ Offered(s) = Results(ARow(s), use_dense[s], 0 .. Done(s) - 1)
             /\ Offered(s)' = Results(ARow(s), use_dense[s], 0 .. Done(s)' - 1)
  <2>1. Working(s) /\ Working(s)'
    BY <1>1, <1>3, <1>5 DEF Working
  <2>2. Kept(s)' = {AsResult(e) : e \in selected'[s].entries}
    BY <2>1 DEF Kept, AsResult
  <2>3. Offered(s)' = Results(ARow(s), use_dense[s], 0 .. Done(s)' - 1)
    BY <1>1, <1>2, <2>1 DEF Offered, Passed, Done, Results, IsResult
  <2> QED
    BY <2>1, <2>2, <2>3, KeptIs DEF Passed, Done
<1>6. ASSUME s \in Block, s # q PROVE UNCHANGED <<Offered(s), Kept(s)>>
  <2>1. Done(s)' = Done(s)
    <3>1. s \in Nat
      BY <1>6 DEF Block
    <3> QED
      BY <1>2, <1>3, <1>6, <3>1 DEF Done
  <2>2. selected'[s] = selected[s]
    <3>1. DOMAIN selected = Block
      BY <1>3 DEF BInv, SelectionsOK
    <3> QED
      BY <1>6, <3>1 DEF Drain
  <2> QED
    BY <1>5, <1>6, <2>1, <2>2
<1>7. ASSUME s = q PROVE Selection(s)!Offer
  <2>1. PICK t \in Drained : selected' = [selected EXCEPT ![q] = t]
    BY DEF Drain
  <2>2. selected'[s] = t
    BY <1>3, <1>7, <2>1 DEF BInv, SelectionsOK
  <2>3. Done(s) = c0 /\ Done(s)' = ChunkEnd
    BY <1>2, <1>3, <1>7 DEF Done
  <2>4. PICK old, new, h, g, m : /\ old = Offered(s) /\ new = Offered(s)'
                                 /\ h = selected[s].entries /\ g = t.entries /\ m = t.min
    OBVIOUS
  <2>5. /\ old = Results(ARow(q), use_dense[q], 0 .. c0 - 1)
        /\ new = Results(ARow(q), use_dense[q], 0 .. ChunkEnd - 1)
        /\ Kept(s) = {AsResult(e) : e \in h} /\ Kept(s)' = {AsResult(e) : e \in g}
    BY <1>3, <1>5, <1>7, <2>2, <2>3, <2>4
  <2>6. /\ new = old \cup ChunkResults /\ old \subseteq Result /\ ChunkResults \subseteq Result
        /\ old \cap ChunkResults = {}
    <3>1. /\ new = old \cup ChunkResults /\ old \subseteq Result /\ ChunkResults \subseteq Result
          /\ \A r \in old : r.idx < c0
          /\ \A r \in ChunkResults : r.idx >= c0
      BY <1>2, <2>5, ChunkResultFacts
    <3>2. c0 \in Int /\ \A r \in Result : r.idx \in Int
      BY Constants DEF BInv, PositionOK, Result, Columns
    <3>3. \A r \in old : r \notin ChunkResults
      BY <3>1, <3>2
    <3> QED
      BY <3>1, <3>3
  <2>7. /\ Best(t, new, ChunkEnd)
        /\ \A e \in g : e \in h \/ AsResult(e) \in ChunkResults
    BY <1>2, <1>7, <2>4, <2>5, DrainSelects
  <2>8. Selection(s)!IsTopN(Kept(s)', new)
    <3>1. Holds(g, m, new)
      BY <2>4, <2>7 DEF Best
    <3>2. new \subseteq Result
      BY <2>6
    <3>3. Selection(s)!IsTopN({AsResult(e) : e \in g}, new)
      BY <3>1, <3>2, HoldsIsTopN
    <3> QED
      BY <2>5, <3>3
  <2>9. Kept(s)' \subseteq Kept(s) \cup (new \ old)
    <3>1. ASSUME NEW e \in g PROVE AsResult(e) \in Kept(s) \cup (new \ old)
      BY <2>5, <2>6, <2>7
    <3> QED
      BY <2>5, <3>1
  <2>10. old \subseteq new
    BY <2>6
  <2> QED
    BY <2>4, <2>8, <2>9, <2>10 DEF Selection!Offer
<1> QED
  BY <1>4, <1>6, <1>7 DEF RowStep, Selection!Next

LEMMA EmitSelects ==
  ASSUME BInv, EmitRow, NEW s
  PROVE  RowStep(s)
<1>1. /\ UNCHANGED <<a, b, is_float, block_rows, use_dense, selected, c0>> /\ pc = "emit"
  BY DEF EmitRow, call
<1>2. CASE q + 1 < BlockLen
  <2>1. UNCHANGED <<lo, pc, call>>
    BY <1>2 DEF EmitRow
  <2>2. Block' = Block /\ ARow(s)' = ARow(s)
    BY <2>1, CallStays
  <2> QED
    BY <1>1, <2>1, <2>2 DEF RowStep, Offered, Kept, Working, Passed, ChunkEnd, Results, IsResult
<1>3. CASE ~ (q + 1 < BlockLen)
  <2>1. pc' \notin {"scatter", "emit"}
    BY <1>3 DEF EmitRow
  <2>2. Offered(s)' = {} /\ Kept(s)' = {}
    BY <2>1 DEF Offered, Kept, Working
  <2> QED
    BY <2>2 DEF RowStep, Selection!Next, Selection!Reset
<1> QED
  BY <1>2, <1>3

LEMMA StillSelects ==
  ASSUME UNCHANGED <<call, lo, pc, use_dense, selected, c0, q>>, NEW s
  PROVE  UNCHANGED <<Offered(s), Kept(s)>>
<1>1. Block' = Block /\ ARow(s)' = ARow(s) /\ UNCHANGED <<b, is_float>>
  BY CallStays
<1> QED
  BY <1>1 DEF Offered, Kept, Working, Passed, ChunkEnd, Results, IsResult

LEMMA StepSelects == BInv /\ BInv' /\ [Next]_vars => [\A s \in 0 .. Len(a) - 1 : RowStep(s)]_vars
<1> SUFFICES ASSUME BInv, BInv', Next, NEW s PROVE RowStep(s)
  OBVIOUS
<1>1. ASSUME NEW d \in [Block -> BOOLEAN], StartBlock(d) PROVE RowStep(s)
  BY <1>1, StartBlockSelects
<1>2. CASE Scatter
  BY <1>2, StillSelects DEF Scatter, RowStep
<1>3. CASE Drain
  BY <1>3, DrainOffersRow
<1>4. CASE EmitRow
  BY <1>4, EmitSelects
<1> QED
  BY <1>1, <1>2, <1>3, <1>4 DEF Next

\* While the rows of a block take turns with one accumulator, chunk by chunk,
\* each row's heap goes through a selection of what that row alone has been
\* offered: what enters it was new, and what it dropped does not come back.
THEOREM RowsAreSelections == Spec => RowsSelect
<1>1. BInv /\ BInv' /\ [Next]_vars =>
        [\A s \in 0 .. Len(a) - 1 : Selection(s)!Next \/ UNCHANGED <<Offered(s), Kept(s)>>]_vars
  BY StepSelects DEF RowStep
<1> QED
  BY <1>1, BlockInvariant, PTL DEF Spec, RowsSelect
=============================================================================
