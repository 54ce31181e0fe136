---------------------------- MODULE ProductProofs ----------------------------
(***************************************************************************)
(* Proofs about the plain product, and about the Python functions, of which *)
(* one computes it and the other hands on to it.                            *)
(*                                                                          *)
(* The plain product is exact: for any matrices, with rows of B in any      *)
(* order and with repeated columns, any number of columns and any index     *)
(* type, the two passes agree on every row boundary, every finished row is  *)
(* the row of the product, and a total that does not fit stops the size     *)
(* pass.                                                                    *)
(*                                                                          *)
(* PInv is inductive.  In the size pass the stamps in mask are the columns  *)
(* of the row read so far; in the fill pass they are the columns of the     *)
(* list threaded through next[], whose sums are what the products read so   *)
(* far contribute.  Both count the columns of TouchedBy, and so the passes  *)
(* agree.                                                                   *)
(*                                                                          *)
(* Of the Python functions ApiInv says which checks a call has passed at    *)
(* each stage; those that sp_matmul does not repeat survive the detour over *)
(* it, because it is entered with csr factors.  ResultInv adds that the     *)
(* factors and options of a call in progress are still those of a promised  *)
(* product: every conversion and transposition keeps the matrices or        *)
(* exchanges them.  The last step returns it, since the cursors read every  *)
(* entry of a row of B once, whatever its order, or the call panics.        *)
(***************************************************************************)
EXTENDS SpMatmul, PyApi, SequenceLemmas, FiniteSetTheorems, TLAPS

-----------------------------------------------------------------------------
(* The inductive invariant *)

Product == [k : Columns, val : Int]

\* The columns and the row under way, as far as they have been read.
Seen(n) == {Products[p].k : p \in 1 .. n}

\* t is the list threaded through next[], oldest first; only its columns have
\* sums.
Threaded(t) ==
  /\ length = Len(t)
  /\ \A p, q \in DOMAIN t : t[p] = t[q] => p = q
  /\ head = IF t = <<>> THEN HEAD_NIL ELSE t[Len(t)]
  /\ \A p \in DOMAIN t : next[t[p]] = IF p = 1 THEN HEAD_NIL ELSE t[p - 1]
  /\ \A k \in Columns : (\A p \in DOMAIN t : t[p] # k) => next[k] = UNVISITED /\ sums[k] = 0

Listed(t) == {t[p] : p \in DOMAIN t}

Position ==
  /\ a \in AMatrices /\ b \in BMatrices
  /\ pc = "start" => /\ i = 0 /\ at = 1 /\ row_nnz = 0 /\ indptr = <<0>>
                     /\ \A k \in Columns : mask[k] = UNVISITED
  /\ pc \in {"size", "fill", "pop", "panic"} => i < Len(a)
  /\ pc \in {"size", "fill"} => at <= Len(Products) + 1
  /\ indptr \in Seq(0 .. MaxIndex)
  /\ Len(indptr) = IF pc \in {"start", "size", "panic"} THEN i + 1 ELSE Len(a) + 1
  /\ pc \in {"start", "size", "panic"} => out = <<>>
  /\ pc \notin {"fill", "pop"} => Threaded(<<>>)

\* The size pass: an offset is what the rows before it touch.
Counted ==
  /\ \A r \in 0 .. Len(indptr) - 1 : indptr[r + 1] = TouchedUpTo(r)
  /\ pc = "size" => /\ \A k \in Columns : mask[k] <= i /\ (mask[k] = i <=> k \in Seen(at - 1))
                    /\ row_nnz = Cardinality(Seen(at - 1))
  /\ pc = "panic" => TouchedUpTo(i + 1) > MaxIndex

Emitted(from, to) == {out[p] : p \in from + 1 .. to}
Results(r, S) == {[k |-> k, val |-> RowTotal(r, k)] : k \in S}

\* The fill pass: the rows that are out are the rows of the product.
Filled ==
  pc \in {"fill", "pop", "done"} =>
    \A r \in 1 .. IF pc = "done" THEN Len(a) ELSE i :
      /\ indptr[r + 1] <= Len(out)
      /\ Emitted(indptr[r], indptr[r + 1]) = Results(a[r], TouchedBy(a[r]))

\* The row under way is in the list, or, in part, popped from it.
UnderWay ==
  /\ pc = "fill" => \E t \in Seq(Columns) :
       /\ Threaded(t) /\ Listed(t) = Seen(at - 1)
       /\ \A k \in Columns : sums[k] = Contribution(Products, at - 1, k)
       /\ Len(out) = indptr[i + 1]
  /\ pc = "pop" => \E t \in Seq(Columns) :
       /\ Threaded(t) /\ Listed(t) \subseteq TouchedBy(a[i + 1])
       /\ \A k \in Listed(t) : sums[k] = RowTotal(a[i + 1], k)
       /\ Len(out) + Len(t) = indptr[i + 2] /\ indptr[i + 1] <= Len(out)
       /\ Emitted(indptr[i + 1], Len(out)) = Results(a[i + 1], TouchedBy(a[i + 1]) \ Listed(t))
  /\ pc = "done" => Len(out) = indptr[Len(a) + 1]

PInv ==
  /\ TypeOK
  /\ Position
  /\ Counted
  /\ Filled
  /\ UnderWay
-----------------------------------------------------------------------------
(* Sums, products and counts *)

\* The sums of the prefixes of f.
LEMMA TotalPrefix ==
  ASSUME NEW n \in Nat, NEW f \in [1 .. n -> Int]
  PROVE  /\ Total([p \in 1 .. 0 |-> f[p]]) = 0
         /\ \A m \in 0 .. n : Total([p \in 1 .. m |-> f[p]]) \in Int
         /\ \A m \in 1 .. n : Total([p \in 1 .. m |-> f[p]])
                              = Total([p \in 1 .. m - 1 |-> f[p]]) + f[m]
<1> DEFINE step == [p \in 1 .. n |-> [x \in Int |-> x + f[p]]]
           IsSum(acc, s) == acc = [p \in 0 .. Len(s) |-> IF p = 0 THEN 0 ELSE acc[p - 1] + s[p]]
           Prefix(m) == [p \in 1 .. m |-> f[p]]
<1>1. PICK g : IsRun(g, Int, 0, n, step)
  <2>1. step \in [1 .. n -> [Int -> Int]] /\ 0 \in Int
    OBVIOUS
  <2> HIDE DEF step
  <2> QED
    BY <2>1, RecursionExists
<1>2. g \in [0 .. n -> Int] /\ g[0] = 0
  BY <1>1 DEF IsRun
<1>3. \A p \in 1 .. n : g[p] = g[p - 1] + f[p]
  <2> SUFFICES ASSUME NEW p \in 1 .. n PROVE g[p] = g[p - 1] + f[p]
    OBVIOUS
  <2>1. g[p - 1] \in Int
    BY <1>2
  <2>2. \A x \in Int : step[p][x] = x + f[p]
    OBVIOUS
  <2> HIDE DEF step
  <2>3. g[p] = step[p][g[p - 1]]
    BY <1>1 DEF IsRun
  <2> QED
    BY <2>1, <2>2, <2>3
<1> HIDE DEF step
<1>4. ASSUME NEW m \in 0 .. n PROVE Total(Prefix(m)) = g[m]
  <2>1. Len(Prefix(m)) = m /\ m \in Nat /\ \A p \in 1 .. m : Prefix(m)[p] = f[p] /\ p \in 1 .. n
    OBVIOUS
  <2> DEFINE s == Prefix(m)
             h == [p \in 0 .. m |-> g[p]]
             acc == CHOOSE x : IsSum(x, s)
  <2>2. IsSum(h, s)
    <3>1. \A p \in 0 .. m : h[p] = IF p = 0 THEN 0 ELSE h[p - 1] + s[p]
      BY <1>2, <1>3, <2>1
    <3>2. Len(s) = m /\ h = [p \in 0 .. m |-> h[p]]
      BY <2>1
    <3> HIDE DEF s, h
    <3> QED
      BY <3>1, <3>2
  <2>3. IsSum(acc, s)
    BY <2>2
  <2>4. Total(s) = acc[m]
    BY <2>1 DEF Total
  <2> HIDE DEF acc, h
  <2>5. acc[0] = 0 /\ \A p \in 1 .. m : acc[p] = acc[p - 1] + f[p]
    <3>1. 0 \in 0 .. m /\ \A p \in 1 .. m : p \in 0 .. m /\ p # 0
      BY <2>1
    <3>2. s = Prefix(m)
      OBVIOUS
    <3> HIDE DEF s
    <3>3. \A p \in 0 .. m : acc[p] = IF p = 0 THEN 0 ELSE acc[p - 1] + s[p]
      BY <2>1, <2>3, <3>2
    <3> QED
      BY <2>1, <3>1, <3>2, <3>3
  <2> HIDE DEF s
  <2> DEFINE S == {p \in Nat : p <= m => acc[p] = g[p]}
  <2>6. 0 \in S
    BY <1>2, <2>5
  <2>7. ASSUME NEW p \in Nat, p \in S PROVE p + 1 \in S
    <3> SUFFICES ASSUME p + 1 <= m PROVE acc[p + 1] = g[p + 1]
      OBVIOUS
    <3>1. p + 1 \in 1 .. m /\ p + 1 \in 1 .. n /\ (p + 1) - 1 = p /\ acc[p] = g[p]
      BY <2>1, <2>7
    <3> QED
      BY <1>3, <2>5, <3>1
  <2> HIDE DEF S
  <2>8. m \in S
    BY <2>1, <2>6, <2>7, Induction
  <2> QED
    BY <2>1, <2>4, <2>8 DEF S, s
<1> HIDE DEF Prefix
<1>5. 0 \in 0 .. n /\ \A m \in 1 .. n : m \in 0 .. n /\ m - 1 \in 0 .. n
  OBVIOUS
<1>6. Total(Prefix(0)) = 0
  BY <1>2, <1>4, <1>5
<1>7. \A m \in 0 .. n : Total(Prefix(m)) \in Int
  BY <1>2, <1>4
<1>8. \A m \in 1 .. n : Total(Prefix(m)) = Total(Prefix(m - 1)) + f[m]
  BY <1>3, <1>4, <1>5
<1> QED
  BY <1>6, <1>7, <1>8 DEF Prefix

LEMMA ContributionStep ==
  ASSUME NEW s \in Seq(Product), NEW k
  PROVE  /\ Contribution(s, 0, k) = 0
         /\ \A n \in 0 .. Len(s) : Contribution(s, n, k) \in Int
         /\ \A n \in 1 .. Len(s) : Contribution(s, n, k)
              = Contribution(s, n - 1, k) + IF s[n].k = k THEN s[n].val ELSE 0
<1> DEFINE f == [p \in 1 .. Len(s) |-> IF s[p].k = k THEN s[p].val ELSE 0]
<1>1. Len(s) \in Nat /\ f \in [1 .. Len(s) -> Int]
  <2>1. \A p \in 1 .. Len(s) : s[p] \in Product
    OBVIOUS
  <2>2. \A p \in 1 .. Len(s) : s[p].val \in Int
    BY <2>1 DEF Product
  <2> QED
    BY <2>2
<1>2. \A n \in 0 .. Len(s) :
        Contribution(s, n, k) = Total([p \in 1 .. n |-> f[p]])
  <2> SUFFICES ASSUME NEW n \in 0 .. Len(s)
               PROVE  Contribution(s, n, k) = Total([p \in 1 .. n |-> f[p]])
    OBVIOUS
  <2>1. [p \in 1 .. n |-> IF s[p].k = k THEN s[p].val ELSE 0] = [p \in 1 .. n |-> f[p]]
    OBVIOUS
  <2> HIDE DEF f
  <2> QED
    BY <2>1 DEF Contribution
<1>3. \A n \in 1 .. Len(s) : f[n] = IF s[n].k = k THEN s[n].val ELSE 0
  OBVIOUS
<1> HIDE DEF f
<1> DEFINE T(n) == Total([p \in 1 .. n |-> f[p]])
<1>4. /\ T(0) = 0
      /\ \A n \in 0 .. Len(s) : T(n) \in Int
      /\ \A n \in 1 .. Len(s) : T(n) = T(n - 1) + f[n]
  BY <1>1, TotalPrefix
<1>5. \A n \in 0 .. Len(s) : Contribution(s, n, k) = T(n)
  BY <1>2
<1>6. 0 \in 0 .. Len(s) /\ \A n \in 1 .. Len(s) : n \in 0 .. Len(s) /\ n - 1 \in 0 .. Len(s)
  BY <1>1
<1> HIDE DEF T
<1> QED
  BY <1>3, <1>4, <1>5, <1>6

\* The rows of the two matrices.
LEMMA RowFacts ==
  ASSUME a \in AMatrices, b \in BMatrices, NEW r \in DOMAIN a
  PROVE  /\ DOMAIN a = 1 .. Len(a) /\ Len(a) \in Nat
         /\ a[r] \in Seq([j : Nat, v : Int])
         /\ \A e \in DOMAIN a[r] : b[a[r][e].j] \in Seq([k : Columns, x : Int])
<1>1. a \in Seq(Seq([j : Nat, v : Int]))
  BY ProductAssumption
<1>2. DOMAIN a = 1 .. Len(a) /\ Len(a) \in Nat
  BY <1>1
<1>3. a[r] \in Seq([j : Nat, v : Int])
  BY <1>1, <1>2, ElementOfSeq
<1>4. \A e \in DOMAIN a[r] : a[r][e].j \in DOMAIN b
  BY ProductAssumption
<1>5. \A j \in DOMAIN b : b[j] \in Seq([k : Columns, x : Int])
  BY ProductAssumption
<1> QED
  BY <1>2, <1>3, <1>4, <1>5

\* The products of an entry of A with a row of B.
LEMMA EntryProducts ==
  ASSUME NEW m \in Seq([k : Columns, x : Int]), NEW v \in Int
  PROVE  [p \in DOMAIN m |-> [k |-> m[p].k, val |-> v * m[p].x]] \in Seq(Product)
<1>1. Len(m) \in Nat /\ DOMAIN m = 1 .. Len(m)
  OBVIOUS
<1>2. ASSUME NEW p \in 1 .. Len(m) PROVE [k |-> m[p].k, val |-> v * m[p].x] \in Product
  <2>1. m[p] \in [k : Columns, x : Int]
    BY <1>1, ElementOfSeq
  <2>2. m[p].k \in Columns /\ m[p].x \in Int
    BY <2>1
  <2>3. v * m[p].x \in Int
    BY <2>2
  <2> QED
    BY <2>2, <2>3 DEF Product
<1> DEFINE f == [p \in DOMAIN m |-> [k |-> m[p].k, val |-> v * m[p].x]]
<1>3. f \in [1 .. Len(m) -> Product]
  BY <1>1, <1>2
<1> HIDE DEF f
<1>4. f \in Seq(Product)
  BY <1>1, <1>3, SeqDef
<1> QED
  BY <1>4 DEF f

\* The product of a row, entry of A by entry, is flattened; one of empty rows
\* is empty.
LEMMA ProductsFlatten ==
  ASSUME a \in AMatrices, b \in BMatrices, NEW r \in DOMAIN a
  PROVE  /\ ProductsOf(a[r]) \in Seq(Product)
         /\ Empty => ProductsOf(a[r]) = <<>>
<1> DEFINE u == a[r]
           n == Len(u)
           f == [e \in 1 .. n |->
                  [p \in DOMAIN b[u[e].j] |-> [k |-> b[u[e].j][p].k, val |-> u[e].v * b[u[e].j][p].x]]]
<1>1. /\ u \in Seq([j : Nat, v : Int]) /\ n \in Nat /\ DOMAIN u = 1 .. n
      /\ \A e \in 1 .. n : u[e] \in [j : Nat, v : Int] /\ b[u[e].j] \in Seq([k : Columns, x : Int])
  <2>1. u \in Seq([j : Nat, v : Int]) /\ \A e \in DOMAIN u : b[u[e].j] \in Seq([k : Columns, x : Int])
    BY RowFacts
  <2> HIDE DEF u
  <2>2. Len(u) \in Nat /\ DOMAIN u = 1 .. Len(u)
    BY <2>1
  <2>3. \A e \in 1 .. Len(u) : u[e] \in [j : Nat, v : Int]
    BY <2>1, ElementOfSeq
  <2> QED
    BY <2>1, <2>2, <2>3
<1>2. ProductsOf(a[r]) = FlattenSeq([e \in 1 .. n |-> f[e]])
  <2>1. [e \in DOMAIN u |->
          [p \in DOMAIN b[u[e].j] |-> [k |-> b[u[e].j][p].k, val |-> u[e].v * b[u[e].j][p].x]]] = f
    BY <1>1
  <2>2. f = [e \in 1 .. n |-> f[e]]
    OBVIOUS
  <2> QED
    BY <2>1, <2>2 DEF ProductsOf
<1>3. ASSUME NEW e \in 1 .. n PROVE f[e] \in Seq(Product)
  <2>1. b[u[e].j] \in Seq([k : Columns, x : Int]) /\ u[e] \in [j : Nat, v : Int]
    BY <1>1
  <2>2. f[e] = [p \in DOMAIN b[u[e].j] |-> [k |-> b[u[e].j][p].k, val |-> u[e].v * b[u[e].j][p].x]]
    OBVIOUS
  <2> HIDE DEF f, u
  <2>3. PICK line \in Seq([k : Columns, x : Int]), v \in Int : line = b[u[e].j] /\ v = u[e].v
    BY <2>1
  <2>4. [p \in DOMAIN line |-> [k |-> line[p].k, val |-> v * line[p].x]] \in Seq(Product)
    BY EntryProducts, Zenon
  <2> QED
    BY <2>2, <2>3, <2>4
<1>4. f \in [1 .. n -> Seq(Product)]
  BY <1>3
<1> DEFINE Prefix(m) == FlattenSeq([e \in 1 .. m |-> f[e]])
<1>5. ASSUME Empty PROVE \A e \in 1 .. n : f[e] = <<>>
  <2> SUFFICES ASSUME NEW e \in 1 .. n PROVE f[e] = <<>>
    OBVIOUS
  <2>1. u # <<>> /\ e \in DOMAIN u
    BY <1>1
  <2>2. \A j \in DOMAIN b : b[j] = <<>>
    BY <1>5, <2>1 DEF Empty
  <2>3. u[e].j \in DOMAIN b
    BY <2>1, ProductAssumption
  <2>4. b[u[e].j] = <<>>
    BY <2>2, <2>3
  <2> QED
    BY <2>4
<1> HIDE DEF f, u
<1>6. /\ Prefix(0) = <<>>
      /\ \A m \in 0 .. n : Prefix(m) \in Seq(Product)
      /\ \A m \in 1 .. n : Prefix(m) = Prefix(m - 1) \o f[m]
  BY <1>1, <1>4, FlattenPrefix, Zenon
<1> HIDE DEF Prefix, n
<1>7. ASSUME Empty PROVE Prefix(n) = <<>>
  <2> DEFINE S == {m \in Nat : m <= n => Prefix(m) = <<>>}
  <2>1. 0 \in S
    BY <1>6
  <2>2. ASSUME NEW m \in Nat, m \in S PROVE m + 1 \in S
    <3> SUFFICES ASSUME m + 1 <= n PROVE Prefix(m + 1) = <<>>
      OBVIOUS
    <3>1. m + 1 \in 1 .. n /\ (m + 1) - 1 = m /\ Prefix(m) = <<>>
      BY <1>1, <2>2
    <3>2. Prefix(m + 1) = Prefix(m) \o f[m + 1]
      BY <1>6, <3>1
    <3> QED
      BY <1>5, <1>7, <3>1, <3>2
  <2> HIDE DEF S
  <2>3. n \in S
    BY <1>1, <2>1, <2>2, Induction
  <2> QED
    BY <1>1, <2>3 DEF S
<1> QED
  BY <1>1, <1>2, <1>6, <1>7 DEF Prefix

\* What a row touches.
LEMMA TouchedFinite ==
  ASSUME a \in AMatrices, b \in BMatrices, NEW r \in DOMAIN a
  PROVE  /\ TouchedBy(a[r]) \subseteq Columns
         /\ IsFiniteSet(TouchedBy(a[r]))
         /\ Cardinality(TouchedBy(a[r])) \in 0 .. NCols
         /\ Empty => TouchedBy(a[r]) = {}
<1>1. ProductsOf(a[r]) \in Seq(Product)
  BY ProductsFlatten
<1>2. \A p \in DOMAIN ProductsOf(a[r]) : ProductsOf(a[r])[p].k \in Columns
  <2>1. \A p \in DOMAIN ProductsOf(a[r]) : ProductsOf(a[r])[p] \in Product
    BY <1>1
  <2> QED
    BY <2>1 DEF Product
<1>3. TouchedBy(a[r]) \subseteq Columns
  BY <1>2 DEF TouchedBy
<1>4. IsFiniteSet(Columns) /\ Cardinality(Columns) = NCols
  <2>1. 0 \in Int /\ NCols - 1 \in Int /\ NCols \in Nat
    BY ProductAssumption
  <2> QED
    BY <2>1, FS_Interval DEF Columns
<1>5. /\ IsFiniteSet(TouchedBy(a[r])) /\ Cardinality(TouchedBy(a[r])) <= NCols
      /\ Cardinality(TouchedBy(a[r])) \in Nat
  BY <1>3, <1>4, FS_Subset, FS_CardinalityType
<1>6. Empty => TouchedBy(a[r]) = {}
  BY ProductsFlatten DEF TouchedBy
<1> QED
  BY <1>3, <1>5, <1>6, ProductAssumption

\* The offsets of the product.
LEMMA TouchedUpToStep ==
  ASSUME a \in AMatrices, b \in BMatrices
  PROVE  /\ Len(a) \in Nat /\ DOMAIN a = 1 .. Len(a)
         /\ TouchedUpTo(0) = 0
         /\ \A r \in 0 .. Len(a) : TouchedUpTo(r) \in Int
         /\ \A r \in 1 .. Len(a) :
              TouchedUpTo(r) = TouchedUpTo(r - 1) + Cardinality(TouchedBy(a[r]))
<1>1. a \in Seq(Seq([j : Nat, v : Int]))
  BY ProductAssumption
<1>2. Len(a) \in Nat /\ DOMAIN a = 1 .. Len(a)
  BY <1>1
<1> DEFINE f == [r \in 1 .. Len(a) |-> Cardinality(TouchedBy(a[r]))]
<1>3. f \in [1 .. Len(a) -> Int]
  <2>1. \A r \in 1 .. Len(a) : Cardinality(TouchedBy(a[r])) \in Int
    BY <1>2, TouchedFinite
  <2> QED
    BY <2>1
<1>4. ASSUME NEW n \in 0 .. Len(a) PROVE TouchedUpTo(n) = Total([r \in 1 .. n |-> f[r]])
  <2>1. [r \in 1 .. n |-> Cardinality(TouchedBy(a[r]))] = [r \in 1 .. n |-> f[r]]
    BY <1>2
  <2> HIDE DEF f
  <2> QED
    BY <2>1 DEF TouchedUpTo
<1>5. \A r \in 1 .. Len(a) : f[r] = Cardinality(TouchedBy(a[r]))
  OBVIOUS
<1> HIDE DEF f
<1> DEFINE T(n) == Total([r \in 1 .. n |-> f[r]])
<1>6. /\ T(0) = 0
      /\ \A n \in 0 .. Len(a) : T(n) \in Int
      /\ \A n \in 1 .. Len(a) : T(n) = T(n - 1) + f[n]
  BY <1>2, <1>3, TotalPrefix
<1>7. \A n \in 0 .. Len(a) : TouchedUpTo(n) = T(n)
  BY <1>4
<1>8. 0 \in 0 .. Len(a) /\ \A n \in 1 .. Len(a) : n \in 0 .. Len(a) /\ n - 1 \in 0 .. Len(a)
  BY <1>2
<1> HIDE DEF T
<1> QED
  BY <1>2, <1>5, <1>6, <1>7, <1>8

-----------------------------------------------------------------------------
(* The row under way *)

LEMMA CallStays ==
  ASSUME UNCHANGED <<a, b>>
  PROVE  /\ \A r : ProductsOf(r)' = ProductsOf(r) /\ TouchedBy(r)' = TouchedBy(r)
         /\ \A r, k : RowTotal(r, k)' = RowTotal(r, k)
         /\ \A r, S : Results(r, S)' = Results(r, S)
         /\ \A n : TouchedUpTo(n)' = TouchedUpTo(n)
         /\ UNCHANGED i => Products' = Products /\ \A n : Seen(n)' = Seen(n)
<1>1. \A r : ProductsOf(r)' = ProductsOf(r)
  BY DEF ProductsOf
<1>2. \A r : TouchedBy(r)' = TouchedBy(r)
  BY <1>1 DEF TouchedBy
<1>3. \A r, k : RowTotal(r, k)' = RowTotal(r, k)
  BY <1>1 DEF RowTotal
<1>4. \A r, S : Results(r, S)' = Results(r, S)
  BY <1>3 DEF Results
<1>5. \A n : TouchedUpTo(n)' = TouchedUpTo(n)
  BY <1>2 DEF TouchedUpTo
<1>6. UNCHANGED i => Products' = Products
  BY <1>1 DEF Products
<1>7. UNCHANGED i => \A n : Seen(n)' = Seen(n)
  BY <1>6 DEF Seen
<1> QED
  BY <1>1, <1>2, <1>3, <1>4, <1>5, <1>6, <1>7

\* What has been seen of row i grows by one column, or by none, per product.
LEMMA SeenStep ==
  ASSUME a \in AMatrices, b \in BMatrices, i \in Nat, i < Len(a)
  PROVE  /\ i + 1 \in DOMAIN a
         /\ Products \in Seq(Product) /\ Len(Products) \in Nat
         /\ Seen(0) = {} /\ Seen(Len(Products)) = TouchedBy(a[i + 1])
         /\ \A n \in 1 .. Len(Products) : /\ Products[n].k \in Columns
                                          /\ Products[n].val \in Int
                                          /\ Seen(n) = Seen(n - 1) \cup {Products[n].k}
         /\ \A n \in 0 .. Len(Products) : Seen(n) \subseteq TouchedBy(a[i + 1])
<1>1. i + 1 \in DOMAIN a
  BY TouchedUpToStep
<1>2. Products \in Seq(Product)
  BY <1>1, ProductsFlatten DEF Products
<1>3. Len(Products) \in Nat /\ DOMAIN Products = 1 .. Len(Products)
  BY <1>2
<1>4. \A n \in 1 .. Len(Products) : Products[n] \in Product
  BY <1>2, ElementOfSeq
<1>5. \A n \in 1 .. Len(Products) : Products[n].k \in Columns /\ Products[n].val \in Int
  BY <1>4 DEF Product
<1>6. Seen(0) = {}
  <2>1. 1 .. 0 = {}
    OBVIOUS
  <2> QED
    BY <2>1 DEF Seen
<1>7. Seen(Len(Products)) = TouchedBy(a[i + 1])
  BY <1>3 DEF Seen, TouchedBy, Products
<1>8. ASSUME NEW n \in 1 .. Len(Products)
      PROVE  Seen(n) = Seen(n - 1) \cup {Products[n].k}
  <2>1. \A p : p \in 1 .. n <=> p \in 1 .. n - 1 \/ p = n
    BY <1>3
  <2> QED
    BY <2>1 DEF Seen
<1>9. ASSUME NEW n \in 0 .. Len(Products) PROVE Seen(n) \subseteq Seen(Len(Products))
  <2>1. \A p \in 1 .. n : p \in 1 .. Len(Products)
    BY <1>3
  <2> QED
    BY <2>1 DEF Seen
<1> QED
  BY <1>1, <1>2, <1>3, <1>5, <1>6, <1>7, <1>8, <1>9

LEMMA SeenFinite ==
  ASSUME a \in AMatrices, b \in BMatrices, i \in Nat, i < Len(a), NEW n \in 0 .. Len(Products)
  PROVE  /\ IsFiniteSet(Seen(n)) /\ Cardinality(Seen(n)) \in 0 .. NCols
         /\ Cardinality(Seen(n)) <= Cardinality(TouchedBy(a[i + 1]))
<1>1. i + 1 \in DOMAIN a /\ Seen(n) \in SUBSET TouchedBy(a[i + 1])
  BY SeenStep
<1>2. IsFiniteSet(TouchedBy(a[i + 1])) /\ Cardinality(TouchedBy(a[i + 1])) \in 0 .. NCols
  BY <1>1, TouchedFinite
<1>3. IsFiniteSet(Seen(n)) /\ Cardinality(Seen(n)) <= Cardinality(TouchedBy(a[i + 1]))
  BY <1>1, <1>2, FS_Subset
<1>4. Cardinality(Seen(n)) \in Nat
  BY <1>3, FS_CardinalityType
<1> QED
  BY <1>2, <1>3, <1>4, ProductAssumption

\* A list without repeats is as long as it has columns.
LEMMA ListedCount ==
  ASSUME NEW t \in Seq(Columns), \A p, q \in DOMAIN t : t[p] = t[q] => p = q
  PROVE  /\ IsFiniteSet(Listed(t)) /\ Cardinality(Listed(t)) = Len(t)
         /\ Len(t) \in 0 .. NCols
<1>1. Len(t) \in Nat /\ DOMAIN t = 1 .. Len(t) /\ t \in [1 .. Len(t) -> Columns]
  BY LenProperties
<1>2. IsFiniteSet(1 .. Len(t)) /\ Cardinality(1 .. Len(t)) = Len(t)
  BY <1>1, FS_Interval
<1>3. t \in Bijection(1 .. Len(t), Listed(t))
  <2>1. t \in [1 .. Len(t) -> Listed(t)]
    BY <1>1 DEF Listed
  <2>2. \A c \in Listed(t) : \E p \in 1 .. Len(t) : t[p] = c
    BY <1>1 DEF Listed
  <2> QED
    BY <1>1, <2>1, <2>2 DEF Bijection, Injection, Surjection, IsInjective
<1>4. IsFiniteSet(Listed(t)) /\ Cardinality(Listed(t)) = Len(t)
  BY <1>2, <1>3, FS_Bijection DEF ExistsBijection
<1>5. Listed(t) \in SUBSET Columns /\ IsFiniteSet(Columns) /\ Cardinality(Columns) = NCols
  <2>1. 0 \in Int /\ NCols - 1 \in Int /\ NCols \in Nat
    BY ProductAssumption
  <2>2. Listed(t) \subseteq Columns
    BY <1>1 DEF Listed
  <2> QED
    BY <2>1, <2>2, FS_Interval DEF Columns
<1>6. Len(t) <= NCols
  BY <1>4, <1>5, FS_Subset
<1> QED
  BY <1>1, <1>4, <1>6, ProductAssumption

\* A row has one entry per column.
LEMMA ResultsCount ==
  ASSUME NEW r, NEW S, IsFiniteSet(S)
  PROVE  Cardinality(Results(r, S)) = Cardinality(S)
<1> DEFINE f == [k \in S |-> [k |-> k, val |-> RowTotal(r, k)]]
<1>1. f \in Bijection(S, Results(r, S))
  <2>1. f \in [S -> Results(r, S)]
    BY DEF Results
  <2>2. \A e \in Results(r, S) : \E k \in S : f[k] = e
    BY DEF Results
  <2>3. \A k, l \in S : f[k] = f[l] => k = l
    <3> SUFFICES ASSUME NEW k \in S, NEW l \in S, f[k] = f[l] PROVE k = l
      OBVIOUS
    <3>1. f[k].k = k /\ f[l].k = l
      OBVIOUS
    <3> QED
      BY <3>1
  <2> HIDE DEF f
  <2> QED
    BY <2>1, <2>2, <2>3 DEF Bijection, Injection, Surjection, IsInjective
<1> HIDE DEF f
<1> QED
  BY <1>1, FS_Bijection DEF ExistsBijection

-----------------------------------------------------------------------------
(* The steps *)

LEMMA EmptyList ==
  /\ <<>> \in Seq(Columns) /\ Listed(<<>>) = {} /\ Len(<<>>) = 0 /\ DOMAIN <<>> = {}
  /\ 1 .. 0 = {} /\ \A n \in Int : Emitted(n, n) = {}
<1>1. \A n \in Int : n + 1 .. n = {}
  OBVIOUS
<1>2. <<>> \in Seq(Columns) /\ Len(<<>>) = 0 /\ DOMAIN <<>> = {} /\ 1 .. 0 = {}
  OBVIOUS
<1> QED
  BY <1>1, <1>2 DEF Listed, Emitted

LEMMA InitInv == Init => PInv
<1> SUFFICES ASSUME Init PROVE PInv
  OBVIOUS
<1>1. 0 \in 0 .. MaxIndex /\ 0 \in 0 .. NCols /\ UNVISITED = -1 /\ HEAD_NIL = -2
  BY ProductAssumption DEF UNVISITED, HEAD_NIL
<1>2. indptr = <<0>> /\ indptr \in Seq(0 .. MaxIndex) /\ Len(indptr) = 1 /\ DOMAIN indptr = {1} /\ indptr[1] = 0
  BY <1>1 DEF Init
<1>3. Len(a) \in Nat /\ TouchedUpTo(0) = 0
  BY TouchedUpToStep DEF Init
<1>4. <<>> \in Seq([k : Columns, val : Int])
  OBVIOUS
<1>5. TypeOK
  BY <1>1, <1>2, <1>3, <1>4 DEF Init, TypeOK
<1>6. Threaded(<<>>)
  BY EmptyList DEF Init, Threaded
<1>7. Position
  BY <1>2, <1>6 DEF Init, Position
<1>8. Counted
  BY <1>2, <1>3 DEF Init, Counted
<1>9. Filled /\ UnderWay
  BY DEF Init, Filled, UnderWay
<1> QED
  BY <1>5, <1>7, <1>8, <1>9 DEF PInv

\* Where an empty product has its offsets.
LEMMA EmptyOffsets ==
  ASSUME a \in AMatrices, b \in BMatrices, Empty
  PROVE  \A r \in 0 .. Len(a) : TouchedUpTo(r) = 0
<1>1. /\ Len(a) \in Nat /\ DOMAIN a = 1 .. Len(a) /\ TouchedUpTo(0) = 0
      /\ \A r \in 1 .. Len(a) : TouchedUpTo(r) = TouchedUpTo(r - 1) + Cardinality(TouchedBy(a[r]))
  BY TouchedUpToStep
<1>2. \A r \in 1 .. Len(a) : Cardinality(TouchedBy(a[r])) = 0
  BY <1>1, TouchedFinite, FS_EmptySet
<1> DEFINE S == {r \in Nat : r <= Len(a) => TouchedUpTo(r) = 0}
<1>3. 0 \in S
  BY <1>1
<1>4. ASSUME NEW r \in Nat, r \in S PROVE r + 1 \in S
  <2> SUFFICES ASSUME r + 1 <= Len(a) PROVE TouchedUpTo(r + 1) = 0
    OBVIOUS
  <2>1. r + 1 \in 1 .. Len(a) /\ (r + 1) - 1 = r /\ TouchedUpTo(r) = 0
    BY <1>1, <1>4
  <2> QED
    BY <1>1, <1>2, <2>1
<1> HIDE DEF S
<1>5. \A r \in Nat : r \in S
  BY <1>3, <1>4, Induction
<1> QED
  BY <1>1, <1>5 DEF S

LEMMA ShortCircuitInv ==
  ASSUME PInv, ShortCircuit
  PROVE  PInv'
<1>1. /\ pc = "start" /\ pc' = "done" /\ Empty
      /\ indptr' = [r \in 1 .. Len(a) + 1 |-> 0]
      /\ UNCHANGED <<a, b, i, at, mask, row_nnz, sums, next, head, length, out>>
  BY DEF ShortCircuit, call, accumulator
<1>2. a \in AMatrices /\ b \in BMatrices /\ out = <<>> /\ Threaded(<<>>)
  BY <1>1 DEF PInv, Position
<1>3. Len(a) \in Nat /\ DOMAIN a = 1 .. Len(a)
  BY <1>2, TouchedUpToStep
<1>4. 0 \in 0 .. MaxIndex
  BY ProductAssumption
<1>5. /\ indptr' \in Seq(0 .. MaxIndex) /\ Len(indptr') = Len(a) + 1
      /\ DOMAIN indptr' = 1 .. Len(a) + 1
      /\ \A r \in 1 .. Len(a) + 1 : indptr'[r] = 0
  <2>1. indptr' \in [1 .. Len(a) + 1 -> 0 .. MaxIndex] /\ Len(a) + 1 \in Nat
    BY <1>1, <1>3, <1>4
  <2>2. indptr' \in Seq(0 .. MaxIndex)
    BY <2>1, SeqDef
  <2> QED
    BY <1>1, <2>1, <2>2
<1>6. Threaded(<<>>)'
  BY <1>1, <1>2 DEF Threaded
<1>7. TypeOK'
  BY <1>1, <1>4, <1>5 DEF PInv, TypeOK
<1>8. Position'
  BY <1>1, <1>2, <1>5, <1>6 DEF Position
<1>9. Counted'
  <2>1. \A r \in 0 .. Len(a) : TouchedUpTo(r)' = 0
    BY <1>1, <1>2, EmptyOffsets, CallStays
  <2>2. \A r \in 0 .. Len(indptr') - 1 : r \in 0 .. Len(a) /\ r + 1 \in 1 .. Len(a) + 1
    BY <1>3, <1>5
  <2> QED
    BY <1>1, <1>5, <2>1, <2>2 DEF Counted
<1>10. Filled'
  <2>1. \A r \in 1 .. Len(a) : Results(a[r], TouchedBy(a[r]))' = {}
    <3>1. \A r \in 1 .. Len(a) : TouchedBy(a[r]) = {}
      BY <1>1, <1>2, <1>3, TouchedFinite
    <3>2. \A r \in 1 .. Len(a) : Results(a[r], TouchedBy(a[r])) = {}
      BY <3>1 DEF Results
    <3> QED
      BY <1>1, <3>2, <3>1, CallStays
  <2>2. Len(out') = 0 /\ 0 + 1 .. 0 = {}
    BY <1>1, <1>2
  <2>3. \A r \in 1 .. Len(a) : r \in 1 .. Len(a) + 1 /\ r + 1 \in 1 .. Len(a) + 1
    BY <1>3
  <2>4. \A r \in 1 .. Len(a) : indptr'[r + 1] = 0 /\ indptr'[r] = 0
    BY <1>5, <2>3
  <2>5. \A r \in 1 .. Len(a) : Emitted(indptr[r], indptr[r + 1])' = {}
    BY <2>2, <2>4 DEF Emitted
  <2>6. \A r \in 1 .. Len(a) : indptr'[r + 1] <= Len(out')
    BY <2>2, <2>4
  <2>7. pc' = "done" /\ a' = a
    BY <1>1
  <2> QED
    BY <2>1, <2>5, <2>6, <2>7 DEF Filled
<1>11. UnderWay'
  BY <1>1, <1>2, <1>3, <1>5, EmptyList DEF UnderWay
<1> QED
  BY <1>7, <1>8, <1>9, <1>10, <1>11 DEF PInv

LEMMA StartInv ==
  ASSUME PInv, Start
  PROVE  PInv'
<1>1. /\ pc = "start" /\ pc' = "size" /\ ~ Empty
      /\ UNCHANGED <<a, b, i, at, mask, row_nnz, indptr, sums, next, head, length, out>>
  BY DEF Start, call, accumulator, size
<1>2. /\ a \in AMatrices /\ b \in BMatrices /\ Threaded(<<>>)
      /\ i = 0 /\ at = 1 /\ row_nnz = 0 /\ \A k \in Columns : mask[k] = UNVISITED
  BY <1>1 DEF PInv, Position
<1>3. Len(a) \in Nat /\ DOMAIN a = 1 .. Len(a) /\ 0 < Len(a)
  <2>1. Len(a) \in Nat /\ DOMAIN a = 1 .. Len(a)
    BY <1>2, TouchedUpToStep
  <2>2. Len(a) # 0
    BY <1>1, <2>1 DEF Empty
  <2> QED
    BY <2>1, <2>2
<1>4. Seen(0) = {} /\ Len(Products) \in Nat
  BY <1>2, <1>3, SeenStep
<1>5. /\ \A n : Seen(n)' = Seen(n)
      /\ \A n : TouchedUpTo(n)' = TouchedUpTo(n)
      /\ Products' = Products
  BY <1>1, CallStays
<1>6. Threaded(<<>>)'
  BY <1>1, <1>2 DEF Threaded
<1>7. TypeOK'
  BY <1>1 DEF PInv, TypeOK
<1>8. Position'
  <2>1. at <= Len(Products) + 1
    BY <1>2, <1>4
  <2> QED
    BY <1>1, <1>2, <1>3, <1>5, <1>6, <2>1 DEF PInv, Position
<1>9. Counted'
  <2>1. row_nnz = Cardinality(Seen(at - 1)) /\ Seen(at - 1) = {}
    BY <1>2, <1>4, FS_EmptySet
  <2>2. \A k \in Columns : mask[k] <= i /\ mask[k] # i
    BY <1>2 DEF UNVISITED
  <2> QED
    BY <1>1, <1>5, <2>1, <2>2 DEF PInv, Counted
<1>10. Filled' /\ UnderWay'
  BY <1>1 DEF Filled, UnderWay
<1> QED
  BY <1>7, <1>8, <1>9, <1>10 DEF PInv

LEMMA SizeProductInv ==
  ASSUME PInv, SizeProduct
  PROVE  PInv'
<1>1. /\ pc = "size" /\ pc' = "size" /\ at <= Len(Products) /\ at' = at + 1
      /\ row_nnz' = IF mask[K] # i THEN row_nnz + 1 ELSE row_nnz
      /\ mask' = [mask EXCEPT ![K] = i]
      /\ UNCHANGED <<a, b, i, indptr, sums, next, head, length, out>>
  BY DEF SizeProduct, call, accumulator
<1>2. /\ a \in AMatrices /\ b \in BMatrices /\ Threaded(<<>>)
      /\ i < Len(a) /\ i \in Nat /\ Len(a) \in Nat
      /\ at \in Nat \ {0} /\ mask \in [Columns -> {UNVISITED} \cup 0 .. Len(a) - 1]
  <2>1. a \in AMatrices /\ b \in BMatrices /\ Threaded(<<>>) /\ i < Len(a)
    BY <1>1 DEF PInv, Position
  <2>2. Len(a) \in Nat
    BY <2>1, TouchedUpToStep
  <2> QED
    BY <2>1, <2>2 DEF PInv, TypeOK
<1>3. /\ Len(Products) \in Nat /\ at \in 1 .. Len(Products) /\ at - 1 \in 0 .. Len(Products)
      /\ K \in Columns /\ Seen(at) = Seen(at - 1) \cup {K}
  <2>1. Len(Products) \in Nat
    BY <1>2, SeenStep
  <2>2. at \in 1 .. Len(Products) /\ at - 1 \in 0 .. Len(Products)
    BY <1>1, <1>2, <2>1
  <2> QED
    BY <1>2, <2>1, <2>2, SeenStep DEF K
<1>4. /\ \A n : Seen(n)' = Seen(n)
      /\ \A n : TouchedUpTo(n)' = TouchedUpTo(n)
      /\ Products' = Products
  BY <1>1, CallStays
<1>5. /\ \A k \in Columns : mask[k] <= i /\ (mask[k] = i <=> k \in Seen(at - 1))
      /\ row_nnz = Cardinality(Seen(at - 1))
  BY <1>1 DEF PInv, Counted
<1>6. row_nnz' = Cardinality(Seen(at)) /\ row_nnz' \in 0 .. NCols
  <2>1. IsFiniteSet(Seen(at - 1))
    BY <1>2, <1>3, SeenFinite
  <2>2. Cardinality(Seen(at)) = IF K \in Seen(at - 1) THEN Cardinality(Seen(at - 1))
                                                       ELSE Cardinality(Seen(at - 1)) + 1
    BY <1>3, <2>1, FS_AddElement
  <2>3. row_nnz' = Cardinality(Seen(at))
    BY <1>1, <1>3, <1>5, <2>2
  <2>4. at \in 0 .. Len(Products)
    BY <1>3
  <2>5. Cardinality(Seen(at)) \in 0 .. NCols
    BY <1>2, <2>4, SeenFinite
  <2> QED
    BY <2>3, <2>5
<1>7. Threaded(<<>>)'
  BY <1>1, <1>2 DEF Threaded
<1>8. TypeOK'
  <2>1. mask' \in [Columns -> {UNVISITED} \cup 0 .. Len(a) - 1]
    <3>1. i \in 0 .. Len(a) - 1
      BY <1>2
    <3> QED
      BY <1>1, <1>2, <3>1
  <2>2. at' \in Nat \ {0}
    BY <1>1, <1>2
  <2> QED
    BY <1>1, <1>6, <2>1, <2>2 DEF PInv, TypeOK
<1>9. Position'
  <2>1. at' <= Len(Products) + 1
    BY <1>1, <1>3
  <2> QED
    BY <1>1, <1>2, <1>4, <1>7, <2>1 DEF PInv, Position
<1>10. Counted'
  <2>1. at' - 1 = at
    BY <1>1, <1>2
  <2>2. \A k \in Columns : mask'[k] <= i /\ (mask'[k] = i <=> k \in Seen(at))
    BY <1>1, <1>2, <1>3, <1>5
  <2> QED
    BY <1>1, <1>4, <1>6, <2>1, <2>2 DEF PInv, Counted
<1>11. Filled' /\ UnderWay'
  BY <1>1 DEF Filled, UnderWay
<1> QED
  BY <1>8, <1>9, <1>10, <1>11 DEF PInv

LEMMA EndSizeRowInv ==
  ASSUME PInv, EndSizeRow
  PROVE  PInv'
<1> DEFINE total == indptr[i + 1] + row_nnz
<1>1. /\ pc = "size" /\ at > Len(Products)
      /\ UNCHANGED <<a, b, mask, sums, next, head, length, out>>
      /\ \/ /\ ~ Fits(total) /\ pc' = "panic" /\ UNCHANGED <<i, at, row_nnz, indptr>>
         \/ /\ Fits(total) /\ indptr' = Append(indptr, total) /\ row_nnz' = 0 /\ at' = 1
            /\ IF i + 1 < Len(a) THEN i' = i + 1 /\ pc' = pc ELSE i' = 0 /\ pc' = "fill"
  BY DEF EndSizeRow, call, accumulator
<1>2. /\ a \in AMatrices /\ b \in BMatrices /\ Threaded(<<>>) /\ out = <<>>
      /\ i < Len(a) /\ i \in Nat /\ Len(a) \in Nat
      /\ at \in Nat \ {0} /\ at <= Len(Products) + 1
      /\ indptr \in Seq(0 .. MaxIndex) /\ Len(indptr) = i + 1
  <2>1. /\ a \in AMatrices /\ b \in BMatrices /\ Threaded(<<>>) /\ i < Len(a) /\ out = <<>>
        /\ at <= Len(Products) + 1
        /\ indptr \in Seq(0 .. MaxIndex) /\ Len(indptr) = i + 1
    BY <1>1 DEF PInv, Position
  <2>2. Len(a) \in Nat
    BY <2>1, TouchedUpToStep
  <2> QED
    BY <2>1, <2>2 DEF PInv, TypeOK
<1>3. /\ at - 1 = Len(Products) /\ i + 1 \in 1 .. Len(a) /\ i + 1 \in DOMAIN a
      /\ Seen(at - 1) = TouchedBy(a[i + 1])
  <2>1. Len(Products) \in Nat /\ Seen(Len(Products)) = TouchedBy(a[i + 1]) /\ i + 1 \in DOMAIN a
    BY <1>2, SeenStep
  <2>2. at - 1 = Len(Products)
    BY <1>1, <1>2, <2>1
  <2> QED
    BY <1>2, <2>1, <2>2
<1>4. indptr[i + 1] = TouchedUpTo(i) /\ indptr[i + 1] \in 0 .. MaxIndex
  <2>1. i \in 0 .. Len(indptr) - 1 /\ i + 1 \in 1 .. Len(indptr)
    BY <1>2
  <2> QED
    BY <1>2, <2>1, ElementOfSeq DEF PInv, Counted
<1>5. total = TouchedUpTo(i + 1) /\ total \in Nat
  <2>1. row_nnz = Cardinality(TouchedBy(a[i + 1])) /\ row_nnz \in 0 .. NCols
    BY <1>1, <1>3 DEF PInv, Counted, TypeOK
  <2>2. TouchedUpTo(i + 1) = TouchedUpTo((i + 1) - 1) + Cardinality(TouchedBy(a[i + 1]))
    BY <1>2, <1>3, TouchedUpToStep
  <2>3. (i + 1) - 1 = i
    BY <1>2
  <2> QED
    BY <1>4, <2>1, <2>2, <2>3, ProductAssumption
<1>6. \A n : TouchedUpTo(n)' = TouchedUpTo(n)
  BY <1>1, CallStays
<1>7. Threaded(<<>>)'
  BY <1>1, <1>2 DEF Threaded
<1> HIDE DEF total
<1>8. CASE ~ Fits(total)
  <2>1. pc' = "panic" /\ UNCHANGED <<i, at, row_nnz, indptr>>
    BY <1>1, <1>8
  <2>2. TouchedUpTo(i + 1) > MaxIndex
    BY <1>5, <1>8, ProductAssumption DEF Fits
  <2>3. TypeOK'
    BY <1>1, <2>1 DEF PInv, TypeOK
  <2>4. Position'
    BY <1>1, <1>2, <1>7, <2>1 DEF Position
  <2>5. Counted'
    BY <1>1, <1>6, <2>1, <2>2 DEF PInv, Counted
  <2>6. Filled' /\ UnderWay'
    BY <2>1 DEF Filled, UnderWay
  <2> QED
    BY <2>3, <2>4, <2>5, <2>6 DEF PInv
<1>9. CASE Fits(total)
  <2>1. /\ indptr' = Append(indptr, total) /\ row_nnz' = 0 /\ at' = 1
        /\ IF i + 1 < Len(a) THEN i' = i + 1 /\ pc' = "size" ELSE i' = 0 /\ pc' = "fill"
    BY <1>1, <1>9
  <2>2. total \in 0 .. MaxIndex
    BY <1>5, <1>9, ProductAssumption DEF Fits
  <2>3. /\ indptr' \in Seq(0 .. MaxIndex) /\ Len(indptr') = i + 2
        /\ \A p \in 1 .. i + 1 : indptr'[p] = indptr[p]
        /\ indptr'[i + 2] = total
        /\ \A p \in DOMAIN indptr' : indptr'[p] \in 0 .. MaxIndex
    <3>1. /\ indptr' \in Seq(0 .. MaxIndex) /\ Len(indptr') = Len(indptr) + 1
          /\ \A p \in 1 .. Len(indptr) : indptr'[p] = indptr[p]
          /\ indptr'[Len(indptr) + 1] = total
      BY <1>2, <2>1, <2>2, AppendProperties
    <3>2. Len(indptr) + 1 = i + 2
      BY <1>2
    <3>3. \A p \in DOMAIN indptr' : indptr'[p] \in 0 .. MaxIndex
      BY <3>1, LenProperties
    <3> QED
      BY <1>2, <3>1, <3>2, <3>3
  <2>4. i' \in Nat /\ i' < Len(a) /\ i' \in 0 .. Len(a)
    BY <1>2, <2>1
  <2>5. TypeOK'
    <3>1. 0 \in 0 .. NCols /\ at' \in Nat \ {0}
      BY <2>1, ProductAssumption
    <3>2. pc' \in {"size", "fill"}
      BY <2>1
    <3> QED
      BY <1>1, <2>1, <2>3, <2>4, <3>1, <3>2 DEF PInv, TypeOK
  <2>6. /\ Products' \in Seq(Product) /\ Len(Products') \in Nat /\ Seen(0)' = {}
    <3>1. (a \in AMatrices /\ b \in BMatrices /\ i \in Nat /\ i < Len(a) =>
             Products \in Seq(Product) /\ Len(Products) \in Nat /\ Seen(0) = {})'
      BY SeenStep, PTL
    <3> QED
      BY <1>1, <1>2, <2>4, <3>1
  <2>7. Position'
    <3>1. Len(indptr') = IF pc' = "size" THEN i' + 1 ELSE Len(a) + 1
      BY <1>2, <2>1, <2>3
    <3>2. at' <= Len(Products') + 1
      BY <2>1, <2>6
    <3>3. pc' \in {"size", "fill"} /\ a' = a /\ b' = b /\ out' = out
      BY <1>1, <2>1
    <3> QED
      BY <1>2, <1>7, <2>3, <2>4, <3>1, <3>2, <3>3 DEF Position
  <2>8. Counted'
    <3>1. \A r \in 0 .. Len(indptr') - 1 : indptr'[r + 1] = TouchedUpTo(r)
      <4> SUFFICES ASSUME NEW r \in 0 .. Len(indptr') - 1
                   PROVE  indptr'[r + 1] = TouchedUpTo(r)
        OBVIOUS
      <4>1. CASE r = i + 1
        <5>1. r + 1 = i + 2
          BY <1>2, <4>1
        <5> QED
          BY <1>5, <2>3, <4>1, <5>1
      <4>2. CASE r # i + 1
        <5>1. r + 1 \in 1 .. i + 1 /\ r \in 0 .. Len(indptr) - 1
          BY <1>2, <2>3, <4>2
        <5>2. indptr'[r + 1] = indptr[r + 1]
          BY <2>3, <5>1
        <5> QED
          BY <5>1, <5>2 DEF PInv, Counted
      <4> QED
        BY <4>1, <4>2
    <3>2. ASSUME pc' = "size"
          PROVE  /\ \A k \in Columns : mask'[k] <= i' /\ (mask'[k] = i' <=> k \in Seen(at - 1)')
                 /\ row_nnz' = Cardinality(Seen(at - 1)')
      <4>1. i' = i + 1 /\ at' - 1 = 0
        BY <2>1, <3>2
      <4>2. Seen(at - 1)' = {}
        BY <2>6, <4>1 DEF Seen
      <4>3. \A k \in Columns : mask'[k] <= i' /\ mask'[k] # i'
        <5> SUFFICES ASSUME NEW k \in Columns PROVE mask'[k] <= i' /\ mask'[k] # i'
          OBVIOUS
        <5>1. mask[k] <= i
          BY <1>1 DEF PInv, Counted
        <5>2. mask[k] \in Int
          BY DEF PInv, TypeOK, UNVISITED
        <5> QED
          BY <1>1, <1>2, <4>1, <5>1, <5>2
      <4> QED
        BY <2>1, <4>2, <4>3, FS_EmptySet
    <3>3. pc' # "panic"
      BY <2>1
    <3> QED
      BY <1>6, <3>1, <3>2, <3>3 DEF Counted
  <2>9. Filled'
    <3>1. pc' = "fill" => i' = 0
      BY <2>1
    <3>2. pc' \in {"size", "fill"}
      BY <2>1
    <3> QED
      BY <3>1, <3>2, EmptyList DEF Filled
  <2>10. UnderWay'
    <3>1. CASE pc' = "size"
      BY <3>1 DEF UnderWay
    <3>2. CASE pc' = "fill"
      <4>1. i' = 0 /\ at' - 1 = 0
        BY <2>1, <3>2
      <4>2. Listed(<<>>)' = Seen(at - 1)'
        BY <2>6, <4>1, EmptyList DEF Seen, Listed
      <4>3. \A k \in Columns : sums'[k] = Contribution(Products', at' - 1, k)
        <5>1. \A k \in Columns : Contribution(Products', 0, k) = 0
          BY <2>6, ContributionStep
        <5>2. \A k \in Columns : sums'[k] = 0
          BY <1>7, EmptyList DEF Threaded
        <5> QED
          BY <4>1, <5>1, <5>2
      <4>4. Len(out') = indptr'[i' + 1]
        <5>1. indptr'[1] = indptr[1] /\ indptr[1] = TouchedUpTo(0)
          <6>1. 1 \in 1 .. i + 1 /\ 0 \in 0 .. Len(indptr) - 1 /\ 0 + 1 = 1
            BY <1>2
          <6> QED
            BY <2>3, <6>1 DEF PInv, Counted
        <5>2. TouchedUpTo(0) = 0
          BY <1>2, TouchedUpToStep
        <5> QED
          BY <1>1, <1>2, <4>1, <5>1, <5>2, EmptyList
      <4> QED
        BY <1>7, <3>2, <4>2, <4>3, <4>4, EmptyList DEF UnderWay
    <3> QED
      BY <2>1, <3>1, <3>2
  <2> QED
    BY <2>5, <2>7, <2>8, <2>9, <2>10 DEF PInv
<1> QED
  BY <1>8, <1>9

\* In the fill pass the call and the offsets stay, and what is out remains.
LEMMA FillFacts ==
  ASSUME PInv, pc \in {"fill", "pop"}
  PROVE  /\ a \in AMatrices /\ b \in BMatrices /\ i \in Nat /\ i < Len(a) /\ Len(a) \in Nat
         /\ i + 1 \in DOMAIN a
         /\ indptr \in Seq(0 .. MaxIndex) /\ Len(indptr) = Len(a) + 1
         /\ indptr[i + 1] \in Nat /\ indptr[i + 2] \in Nat
         /\ indptr[i + 2] = indptr[i + 1] + Cardinality(TouchedBy(a[i + 1]))
         /\ out \in Seq(Product) /\ Len(out) \in Nat
         /\ sums \in [Columns -> Int]
         /\ next \in [Columns -> Columns \cup {UNVISITED, HEAD_NIL}]
<1>1. /\ a \in AMatrices /\ b \in BMatrices /\ i < Len(a)
      /\ indptr \in Seq(0 .. MaxIndex) /\ Len(indptr) = Len(a) + 1
  BY DEF PInv, Position
<1>2. Len(a) \in Nat /\ i \in Nat /\ DOMAIN a = 1 .. Len(a)
  <2>1. Len(a) \in Nat /\ DOMAIN a = 1 .. Len(a)
    BY <1>1, TouchedUpToStep
  <2> QED
    BY <2>1 DEF PInv, TypeOK
<1>3. /\ i + 1 \in DOMAIN a /\ i + 1 \in 1 .. Len(a) /\ i \in 0 .. Len(indptr) - 1
      /\ i + 1 \in 0 .. Len(indptr) - 1 /\ (i + 1) + 1 = i + 2 /\ (i + 1) - 1 = i
      /\ i + 1 \in 1 .. Len(indptr) /\ i + 2 \in 1 .. Len(indptr)
  BY <1>1, <1>2
<1>4. indptr[i + 1] = TouchedUpTo(i) /\ indptr[i + 2] = TouchedUpTo(i + 1)
  BY <1>3 DEF PInv, Counted
<1>5. TouchedUpTo(i + 1) = TouchedUpTo(i) + Cardinality(TouchedBy(a[i + 1]))
  BY <1>1, <1>3, TouchedUpToStep
<1>6. indptr[i + 1] \in 0 .. MaxIndex /\ indptr[i + 2] \in 0 .. MaxIndex
  BY <1>1, <1>3, ElementOfSeq
<1>7. out \in Seq(Product) /\ Len(out) \in Nat
  BY DEF PInv, TypeOK, Product
<1>8. /\ sums \in [Columns -> Int]
      /\ next \in [Columns -> Columns \cup {UNVISITED, HEAD_NIL}]
  BY DEF PInv, TypeOK
<1>9. indptr[i + 1] \in Nat /\ indptr[i + 2] \in Nat
  BY <1>6, ProductAssumption
<1> QED
  BY <1>1, <1>2, <1>3, <1>4, <1>5, <1>7, <1>8, <1>9

LEMMA FillStays ==
  ASSUME PInv, pc \in {"fill", "pop"}, pc' \in {"fill", "pop"},
         UNCHANGED <<a, b, i, indptr>>,
         out' = out \/ \E x \in Product : out' = Append(out, x)
  PROVE  Filled' /\ Counted'
<1>1. /\ \A r : TouchedBy(r)' = TouchedBy(r)
      /\ \A r, S : Results(r, S)' = Results(r, S)
      /\ \A n : TouchedUpTo(n)' = TouchedUpTo(n)
  BY CallStays
<1>2. Counted'
  BY <1>1 DEF PInv, Counted
<1>3. Len(out) <= Len(out') /\ \A p \in 1 .. Len(out) : out'[p] = out[p]
  <2>1. out \in Seq(Product) /\ Len(out) \in Nat
    BY FillFacts
  <2> QED
    BY <2>1, AppendProperties
<1>4. ASSUME NEW r \in 1 .. i
      PROVE  /\ indptr'[r + 1] <= Len(out')
             /\ Emitted(indptr[r], indptr[r + 1])' = Results(a[r], TouchedBy(a[r]))'
  <2>1. /\ indptr[r + 1] <= Len(out)
        /\ Emitted(indptr[r], indptr[r + 1]) = Results(a[r], TouchedBy(a[r]))
    BY DEF PInv, Filled
  <2>2. indptr[r] \in Nat /\ indptr[r + 1] \in Nat /\ Len(out) \in Nat /\ Len(out') \in Nat
    <3>1. indptr \in Seq(0 .. MaxIndex) /\ Len(indptr) = Len(a) + 1 /\ i < Len(a) /\ i \in Nat
          /\ Len(a) \in Nat
      BY FillFacts
    <3>4. r \in 1 .. Len(indptr) /\ r + 1 \in 1 .. Len(indptr)
      BY <3>1
    <3>2. indptr[r] \in 0 .. MaxIndex /\ indptr[r + 1] \in 0 .. MaxIndex
      BY <3>1, <3>4, ElementOfSeq
    <3>3. Len(out) \in Nat /\ Len(out') \in Nat
      BY FillFacts, AppendProperties
    <3> QED
      BY <3>2, <3>3, ProductAssumption
  <2>3. \A p \in indptr[r] + 1 .. indptr[r + 1] : p \in 1 .. Len(out)
    BY <2>1, <2>2
  <2>4. Emitted(indptr[r], indptr[r + 1])' = Emitted(indptr[r], indptr[r + 1])
    BY <1>3, <2>3 DEF Emitted
  <2>5. indptr'[r + 1] <= Len(out')
    BY <1>3, <2>1, <2>2
  <2> QED
    BY <1>1, <2>1, <2>4, <2>5
<1>5. Filled'
  BY <1>4 DEF Filled
<1> QED
  BY <1>2, <1>5

LEMMA FillProductInv ==
  ASSUME PInv, FillProduct
  PROVE  PInv'
<1>1. /\ pc = "fill" /\ pc' = "fill" /\ at <= Len(Products) /\ at' = at + 1
      /\ sums' = [sums EXCEPT ![K] = @ + Products[at].val]
      /\ IF next[K] = UNVISITED
         THEN next' = [next EXCEPT ![K] = head] /\ head' = K /\ length' = length + 1
         ELSE UNCHANGED <<next, head, length>>
      /\ UNCHANGED <<a, b, i, mask, row_nnz, indptr, out>>
  BY DEF FillProduct, call, size
<1>2. /\ a \in AMatrices /\ b \in BMatrices /\ i \in Nat /\ i < Len(a) /\ at \in Nat \ {0}
      /\ sums \in [Columns -> Int]
      /\ next \in [Columns -> Columns \cup {UNVISITED, HEAD_NIL}]
      /\ head \in Columns \cup {HEAD_NIL}
  BY <1>1, FillFacts DEF PInv, TypeOK
<1>3. /\ Products \in Seq(Product) /\ Len(Products) \in Nat /\ at \in 1 .. Len(Products)
      /\ K \in Columns /\ Products[at].val \in Int /\ Seen(at) = Seen(at - 1) \cup {K}
  <2>1. Products \in Seq(Product) /\ Len(Products) \in Nat
    BY <1>2, SeenStep
  <2>2. at \in 1 .. Len(Products)
    BY <1>1, <1>2, <2>1
  <2> QED
    BY <1>2, <2>1, <2>2, SeenStep DEF K
<1>4. PICK t \in Seq(Columns) :
        /\ Threaded(t) /\ Listed(t) = Seen(at - 1)
        /\ \A k \in Columns : sums[k] = Contribution(Products, at - 1, k)
        /\ Len(out) = indptr[i + 1]
  BY <1>1 DEF PInv, UnderWay
<1>5. Len(t) \in Nat /\ DOMAIN t = 1 .. Len(t) /\ \A p \in DOMAIN t : t[p] \in Columns
  BY LenProperties
<1>6. UNVISITED \notin Columns /\ HEAD_NIL \notin Columns /\ UNVISITED # HEAD_NIL
  BY ProductAssumption DEF UNVISITED, HEAD_NIL, Columns
<1>7. next[K] = UNVISITED <=> K \notin Listed(t)
  <2>1. ASSUME NEW p \in DOMAIN t PROVE next[t[p]] # UNVISITED
    <3>1. p = 1 \/ p - 1 \in DOMAIN t
      BY <1>5
    <3> QED
      BY <1>4, <1>5, <1>6, <3>1 DEF Threaded
  <2> QED
    BY <1>3, <1>4, <2>1 DEF Threaded, Listed
<1>8. \E u \in Seq(Columns) : Threaded(u)' /\ Listed(u) = Seen(at)
  <2>1. CASE next[K] = UNVISITED
    <3>0. PICK u : u = Append(t, K)
      OBVIOUS
    <3>1. next' = [next EXCEPT ![K] = head] /\ head' = K /\ length' = length + 1
      BY <1>1, <2>1
    <3>2. /\ u \in Seq(Columns) /\ u # <<>> /\ Len(u) = Len(t) + 1
          /\ \A p \in DOMAIN t : u[p] = t[p]
          /\ u[Len(u)] = K /\ DOMAIN u = 1 .. Len(t) + 1
      BY <1>3, <1>5, <3>0, AppendProperties
    <3>3. \A p \in DOMAIN u : p \in DOMAIN t \/ p = Len(u)
      BY <1>5, <3>2
    <3>4. \A p \in DOMAIN t : t[p] # K
      BY <1>7, <2>1 DEF Listed
    <3>5. Listed(u) = Seen(at)
      <4>1. Listed(u) = Listed(t) \cup {K}
        <5>1. \A p \in DOMAIN t : p \in DOMAIN u
          BY <1>5, <3>2
        <5>2. Len(u) \in DOMAIN u
          BY <1>5, <3>2
        <5> QED
          BY <3>2, <3>3, <5>1, <5>2 DEF Listed
      <4> QED
        BY <1>3, <1>4, <4>1
    <3>6. length' = Len(u)
      BY <1>4, <3>1, <3>2 DEF Threaded
    <3>7. \A p, q \in DOMAIN u : u[p] = u[q] => p = q
      BY <1>4, <3>2, <3>3, <3>4 DEF Threaded
    <3>8. ASSUME NEW p \in DOMAIN u
          PROVE  next'[u[p]] = IF p = 1 THEN HEAD_NIL ELSE u[p - 1]
      <4>1. CASE p \in DOMAIN t
        <5>1. next'[u[p]] = next[t[p]]
          BY <1>2, <1>5, <3>1, <3>2, <3>4, <4>1
        <5>2. p # 1 => p - 1 \in DOMAIN t
          BY <1>5, <4>1
        <5> QED
          BY <1>4, <3>2, <4>1, <5>1, <5>2 DEF Threaded
      <4>2. CASE p = Len(u)
        <5>1. next'[u[p]] = head
          BY <1>2, <1>3, <3>1, <3>2, <4>2
        <5>2. CASE t = <<>>
          <6>1. p = 1
            BY <3>2, <4>2, <5>2
          <6> QED
            BY <1>4, <5>1, <5>2, <6>1 DEF Threaded
        <5>3. CASE t # <<>>
          <6>1. Len(t) # 0
            BY <5>3, EmptySeq
          <6>2. p # 1 /\ p - 1 = Len(t) /\ Len(t) \in DOMAIN t
            BY <1>5, <3>2, <4>2, <6>1
          <6> QED
            BY <1>4, <3>2, <5>1, <5>3, <6>2 DEF Threaded
        <5> QED
          BY <5>2, <5>3
      <4> QED
        BY <3>3, <4>1, <4>2
    <3>9. ASSUME NEW k \in Columns, \A p \in DOMAIN u : u[p] # k
          PROVE  next'[k] = UNVISITED /\ sums'[k] = 0
      <4>1. k # K /\ \A p \in DOMAIN t : t[p] # k
        <5>1. Len(u) \in DOMAIN u /\ \A p \in DOMAIN t : p \in DOMAIN u
          BY <1>5, <3>2
        <5> QED
          BY <3>2, <3>9, <5>1
      <4> QED
        BY <1>1, <1>2, <1>4, <3>1, <4>1 DEF Threaded
    <3>10. head' = IF u = <<>> THEN HEAD_NIL ELSE u[Len(u)]
      BY <3>1, <3>2
    <3>11. Threaded(u)'
      BY <3>6, <3>7, <3>8, <3>9, <3>10 DEF Threaded
    <3> QED
      BY <3>2, <3>5, <3>11
  <2>2. CASE next[K] # UNVISITED
    <3>1. UNCHANGED <<next, head, length>> /\ K \in Listed(t)
      BY <1>1, <1>7, <2>2
    <3>2. \A k \in Columns : (\A p \in DOMAIN t : t[p] # k) => sums'[k] = sums[k]
      BY <1>1, <1>2, <3>1 DEF Listed
    <3>3. Threaded(t)'
      BY <1>4, <3>1, <3>2 DEF Threaded
    <3>4. Listed(t) = Seen(at)
      BY <1>3, <1>4, <3>1
    <3> QED
      BY <3>3, <3>4
  <2> QED
    BY <2>1, <2>2
<1>9. \A k \in Columns : sums'[k] = Contribution(Products, at, k)
  <2> SUFFICES ASSUME NEW k \in Columns PROVE sums'[k] = Contribution(Products, at, k)
    OBVIOUS
  <2>1. Contribution(Products, at, k) = Contribution(Products, at - 1, k)
          + IF Products[at].k = k THEN Products[at].val ELSE 0
    BY <1>3, ContributionStep
  <2>2. sums[k] = Contribution(Products, at - 1, k) /\ sums[k] \in Int
    BY <1>2, <1>4
  <2>3. sums'[k] = IF k = K THEN sums[k] + Products[at].val ELSE sums[k]
    BY <1>1, <1>2, <1>3
  <2> QED
    BY <1>3, <2>1, <2>2, <2>3 DEF K
<1>10. at' - 1 = at /\ at' \in Nat \ {0} /\ at' <= Len(Products) + 1
  BY <1>1, <1>2, <1>3
<1>11. Products' = Products /\ \A n : Seen(n)' = Seen(n)
  BY <1>1, CallStays
<1>12. UnderWay'
  <2>1. Seen(at - 1)' = Seen(at)
    <3>1. Seen(at - 1)' = {Products'[p].k : p \in 1 .. at' - 1}
      BY DEF Seen
    <3> QED
      BY <1>10, <1>11, <3>1 DEF Seen
  <2>2. PICK u \in Seq(Columns) : Threaded(u)' /\ Listed(u) = Seen(at)
    BY <1>8
  <2>3. Threaded(u)' /\ Listed(u) = Seen(at - 1)'
    BY <2>1, <2>2
  <2>4. Len(out') = indptr'[i' + 1]
    BY <1>1, <1>4
  <2>5. \A k \in Columns : sums'[k] = Contribution(Products', at' - 1, k)
    BY <1>9, <1>10, <1>11
  <2> QED
    BY <1>1, <2>3, <2>4, <2>5 DEF UnderWay, Listed
<1>13. TypeOK'
  <2>1. sums' \in [Columns -> Int]
    <3>1. sums[K] + Products[at].val \in Int
      BY <1>2, <1>3
    <3> QED
      BY <1>1, <1>2, <3>1
  <2>2. /\ next' \in [Columns -> Columns \cup {UNVISITED, HEAD_NIL}]
        /\ head' \in Columns \cup {HEAD_NIL}
    BY <1>1, <1>2, <1>3
  <2>3. length' \in 0 .. NCols
    <3>1. PICK u \in Seq(Columns) : Threaded(u)'
      BY <1>8
    <3>2. length' = Len(u) /\ \A p, q \in DOMAIN u : u[p] = u[q] => p = q
      BY <3>1 DEF Threaded
    <3> QED
      BY <3>2, ListedCount
  <2> QED
    BY <1>1, <1>10, <2>1, <2>2, <2>3 DEF PInv, TypeOK
<1>14. Position'
  BY <1>1, <1>10, <1>11 DEF PInv, Position
<1>15. Filled' /\ Counted'
  BY <1>1, FillStays
<1> QED
  BY <1>12, <1>13, <1>14, <1>15 DEF PInv

LEMMA StartPopInv ==
  ASSUME PInv, StartPop
  PROVE  PInv'
<1>1. /\ pc = "fill" /\ pc' = "pop" /\ at > Len(Products)
      /\ UNCHANGED <<a, b, i, at, mask, row_nnz, indptr, sums, next, head, length, out>>
  BY DEF StartPop, call, size, accumulator
<1>2. /\ a \in AMatrices /\ b \in BMatrices /\ i \in Nat /\ i < Len(a) /\ i + 1 \in DOMAIN a
      /\ indptr[i + 2] = indptr[i + 1] + Cardinality(TouchedBy(a[i + 1]))
      /\ indptr[i + 1] \in Nat
      /\ at \in Nat \ {0} /\ at <= Len(Products) + 1
  BY <1>1, FillFacts DEF PInv, TypeOK, Position
<1>3. at - 1 = Len(Products) /\ Seen(at - 1) = TouchedBy(a[i + 1])
  <2>1. Len(Products) \in Nat /\ Seen(Len(Products)) = TouchedBy(a[i + 1])
    BY <1>2, SeenStep
  <2>2. at - 1 = Len(Products)
    BY <1>1, <1>2, <2>1
  <2> QED
    BY <2>1, <2>2
<1>4. PICK t \in Seq(Columns) :
        /\ Threaded(t) /\ Listed(t) = Seen(at - 1)
        /\ \A k \in Columns : sums[k] = Contribution(Products, at - 1, k)
        /\ Len(out) = indptr[i + 1]
  BY <1>1 DEF PInv, UnderWay
<1>5. Listed(t) = TouchedBy(a[i + 1]) /\ Listed(t) \subseteq Columns
  BY <1>2, <1>3, <1>4, TouchedFinite
<1>6. \A k \in Listed(t) : sums[k] = RowTotal(a[i + 1], k)
  BY <1>3, <1>4, <1>5 DEF RowTotal, Products
<1>7. Len(out) + Len(t) = indptr[i + 2]
  BY <1>2, <1>4, <1>5, ListedCount DEF Threaded
<1>8. /\ Emitted(indptr[i + 1], Len(out)) = {}
      /\ Results(a[i + 1], TouchedBy(a[i + 1]) \ Listed(t)) = {}
  BY <1>2, <1>4, <1>5, EmptyList DEF Results
<1>9. /\ \A r : TouchedBy(r)' = TouchedBy(r)
      /\ \A r, k : RowTotal(r, k)' = RowTotal(r, k)
      /\ \A r, S : Results(r, S)' = Results(r, S)
  BY <1>1, CallStays
<1>10. UnderWay'
  <2>1. Threaded(t)' /\ Listed(t)' = Listed(t)
    BY <1>1, <1>4 DEF Threaded, Listed
  <2>2. Emitted(indptr[i + 1], Len(out))' = {}
    BY <1>1, <1>8 DEF Emitted
  <2>3. Results(a[i + 1], TouchedBy(a[i + 1]) \ Listed(t))' = {}
    BY <1>1, <1>8, <1>9 DEF Results
  <2>4. Listed(t)' \subseteq TouchedBy(a[i + 1])'
    BY <1>1, <1>5, <1>9, <2>1
  <2>5. \A k \in Listed(t)' : sums'[k] = RowTotal(a[i + 1], k)'
    BY <1>1, <1>6, <1>9, <2>1
  <2>6. Len(out') + Len(t) = indptr'[i' + 2] /\ indptr'[i' + 1] <= Len(out')
    BY <1>1, <1>2, <1>4, <1>7
  <2> QED
    BY <1>1, <2>1, <2>2, <2>3, <2>4, <2>5, <2>6 DEF UnderWay, Listed
<1>11. TypeOK'
  BY <1>1 DEF PInv, TypeOK
<1>12. Position'
  BY <1>1 DEF PInv, Position
<1>13. Filled' /\ Counted'
  BY <1>1, FillStays
<1> QED
  BY <1>10, <1>11, <1>12, <1>13 DEF PInv

LEMMA PopInv ==
  ASSUME PInv, Pop
  PROVE  PInv'
<1>1. /\ pc = "pop" /\ pc' = "pop" /\ length > 0
      /\ out' = out \o <<[k |-> head, val |-> sums[head]]>>
      /\ head' = next[head]
      /\ next' = [next EXCEPT ![head] = UNVISITED]
      /\ sums' = [sums EXCEPT ![head] = 0]
      /\ length' = length - 1
      /\ UNCHANGED <<a, b, i, at, mask, row_nnz, indptr>>
  BY DEF Pop, Popped, SumsCleared, call, size
<1>2. /\ a \in AMatrices /\ b \in BMatrices /\ i + 1 \in DOMAIN a
      /\ indptr[i + 1] \in Nat /\ out \in Seq(Product) /\ Len(out) \in Nat
      /\ sums \in [Columns -> Int]
      /\ next \in [Columns -> Columns \cup {UNVISITED, HEAD_NIL}]
  BY <1>1, FillFacts
<1>3. PICK t \in Seq(Columns) :
       /\ Threaded(t) /\ Listed(t) \subseteq TouchedBy(a[i + 1])
       /\ \A k \in Listed(t) : sums[k] = RowTotal(a[i + 1], k)
       /\ Len(out) + Len(t) = indptr[i + 2] /\ indptr[i + 1] <= Len(out)
       /\ Emitted(indptr[i + 1], Len(out)) = Results(a[i + 1], TouchedBy(a[i + 1]) \ Listed(t))
  BY <1>1 DEF PInv, UnderWay
<1>4. PICK n : n = Len(t)
  OBVIOUS
<1>5. /\ n \in Nat \ {0} /\ DOMAIN t = 1 .. n /\ n \in DOMAIN t
      /\ head = t[n] /\ \A p \in DOMAIN t : t[p] \in Columns
  <2>1. n \in Nat /\ DOMAIN t = 1 .. n /\ \A p \in DOMAIN t : t[p] \in Columns
    BY <1>4, LenProperties
  <2>2. length = n
    BY <1>3, <1>4 DEF Threaded
  <2>3. n \in Nat \ {0} /\ n \in DOMAIN t /\ t # <<>>
    BY <1>1, <2>1, <2>2
  <2> QED
    BY <1>3, <1>4, <2>1, <2>3 DEF Threaded
<1>6. PICK u : u = [p \in 1 .. n - 1 |-> t[p]]
  OBVIOUS
<1>7. /\ u \in Seq(Columns) /\ Len(u) = n - 1 /\ DOMAIN u = 1 .. n - 1
      /\ \A p \in DOMAIN u : u[p] = t[p] /\ p \in DOMAIN t /\ p # n
      /\ \A p \in DOMAIN t : p \in DOMAIN u \/ p = n
  <2>1. n - 1 \in Nat /\ u \in [1 .. n - 1 -> Columns]
    BY <1>5, <1>6
  <2>2. u \in Seq(Columns)
    BY <2>1, SeqDef
  <2> QED
    BY <1>5, <1>6, <2>1, <2>2
<1>8. head \in Columns /\ head \in Listed(t) /\ \A p \in DOMAIN u : u[p] # head
  <2>1. \A p, q \in DOMAIN t : t[p] = t[q] => p = q
    BY <1>3 DEF Threaded
  <2> QED
    BY <1>5, <1>7, <2>1 DEF Listed
<1>9. Listed(t) = Listed(u) \cup {head}
  BY <1>5, <1>7 DEF Listed
<1>10. head \notin Listed(u)
  BY <1>8 DEF Listed
<1>11. Threaded(u)'
  <2>1. length' = Len(u)
    BY <1>1, <1>3, <1>4, <1>7 DEF Threaded
  <2>2. \A p, q \in DOMAIN u : u[p] = u[q] => p = q
    BY <1>3, <1>7 DEF Threaded
  <2>3. head' = IF u = <<>> THEN HEAD_NIL ELSE u[Len(u)]
    <3>1. head' = IF n = 1 THEN HEAD_NIL ELSE t[n - 1]
      BY <1>1, <1>3, <1>5 DEF Threaded
    <3>2. u = <<>> <=> n = 1
      BY <1>5, <1>7, EmptySeq
    <3>3. n # 1 => u[Len(u)] = t[n - 1]
      BY <1>5, <1>7
    <3> QED
      BY <3>1, <3>2, <3>3
  <2>4. ASSUME NEW p \in DOMAIN u
        PROVE  next'[u[p]] = IF p = 1 THEN HEAD_NIL ELSE u[p - 1]
    <3>1. next'[u[p]] = next[t[p]]
      BY <1>1, <1>2, <1>5, <1>7, <1>8
    <3>2. p # 1 => p - 1 \in DOMAIN u
      BY <1>5, <1>7
    <3> QED
      BY <1>3, <1>7, <3>1, <3>2 DEF Threaded
  <2>5. ASSUME NEW k \in Columns, \A p \in DOMAIN u : u[p] # k
        PROVE  next'[k] = UNVISITED /\ sums'[k] = 0
    <3>1. CASE k = head
      BY <1>1, <1>2, <1>8, <3>1
    <3>2. CASE k # head
      <4>1. \A p \in DOMAIN t : t[p] # k
        BY <1>5, <1>7, <2>5, <3>2
      <4> QED
        BY <1>1, <1>2, <1>3, <3>2, <4>1 DEF Threaded
    <3> QED
      BY <3>1, <3>2
  <2> QED
    BY <2>1, <2>2, <2>3, <2>4, <2>5 DEF Threaded
<1>12. PICK x \in Product : x = [k |-> head, val |-> sums[head]]
  BY <1>2, <1>8 DEF Product
<1>13. /\ out' = Append(out, x) /\ out' \in Seq(Product) /\ Len(out') = Len(out) + 1
       /\ \A p \in 1 .. Len(out) : out'[p] = out[p]
       /\ out'[Len(out) + 1] = x
  <2>1. out' = Append(out, x)
    BY <1>1, <1>2, <1>12, AppendIsConcat
  <2> QED
    BY <1>2, <2>1, AppendProperties
<1>14. /\ \A r : TouchedBy(r)' = TouchedBy(r)
       /\ \A r, k : RowTotal(r, k)' = RowTotal(r, k)
       /\ \A r, S : Results(r, S)' = Results(r, S)
       /\ Products' = Products
  BY <1>1, CallStays
<1>15. Emitted(indptr[i + 1], Len(out))' = Emitted(indptr[i + 1], Len(out)) \cup {x}
  <2>1. /\ \A p \in indptr[i + 1] + 1 .. Len(out) : p \in 1 .. Len(out)
        /\ indptr[i + 1] + 1 .. Len(out) + 1
             = (indptr[i + 1] + 1 .. Len(out)) \cup {Len(out) + 1}
    BY <1>2, <1>3
  <2>2. Emitted(indptr[i + 1], Len(out))' = {out'[p] : p \in indptr[i + 1] + 1 .. Len(out) + 1}
    BY <1>1, <1>13 DEF Emitted
  <2>3. \A p \in indptr[i + 1] + 1 .. Len(out) : out'[p] = out[p]
    BY <1>13, <2>1
  <2>4. PICK D : D = indptr[i + 1] + 1 .. Len(out)
    OBVIOUS
  <2>5. PICK q : q = Len(out) + 1
    OBVIOUS
  <2>6. {out'[p] : p \in D \cup {q}} = {out[p] : p \in D} \cup {out'[q]}
    <3>1. \A p \in D : out'[p] = out[p]
      BY <2>3, <2>4
    <3> QED
      BY <3>1
  <2> QED
    BY <1>13, <2>1, <2>2, <2>4, <2>5, <2>6 DEF Emitted
<1>16. Results(a[i + 1], TouchedBy(a[i + 1]) \ Listed(u))
         = Results(a[i + 1], TouchedBy(a[i + 1]) \ Listed(t)) \cup {x}
  <2>1. x = [k |-> head, val |-> RowTotal(a[i + 1], head)]
    BY <1>3, <1>8, <1>12
  <2>2. TouchedBy(a[i + 1]) \ Listed(u) = (TouchedBy(a[i + 1]) \ Listed(t)) \cup {head}
    BY <1>3, <1>8, <1>9, <1>10
  <2> QED
    BY <2>1, <2>2 DEF Results
<1>17. UnderWay'
  <2>1. /\ Listed(u) \subseteq TouchedBy(a[i + 1])
        /\ \A k \in Listed(u) : sums'[k] = RowTotal(a[i + 1], k)
    <3>1. ASSUME NEW k \in Listed(u) PROVE k \in Listed(t) /\ k # head /\ k \in Columns
      BY <1>5, <1>7, <1>8, <3>1 DEF Listed
    <3> QED
      BY <1>1, <1>2, <1>3, <3>1
  <2>2. Len(out') + Len(u) = indptr'[i' + 2] /\ indptr'[i' + 1] <= Len(out')
    BY <1>1, <1>2, <1>3, <1>4, <1>5, <1>7, <1>13
  <2>3. Emitted(indptr[i + 1], Len(out))' = Results(a[i + 1], TouchedBy(a[i + 1]) \ Listed(u))
    BY <1>3, <1>15, <1>16
  <2>4. \A S : Results(a[i + 1], S)' = Results(a[i + 1], S)
    BY <1>1, <1>14
  <2>5. /\ TouchedBy(a[i + 1])' = TouchedBy(a[i + 1])
        /\ \A k : RowTotal(a[i + 1], k)' = RowTotal(a[i + 1], k)
    BY <1>1, <1>14
  <2>6. Results(a[i + 1], TouchedBy(a[i + 1]) \ Listed(u))'
          = Results(a[i + 1], TouchedBy(a[i + 1]) \ Listed(u))
    BY <2>4, <2>5 DEF Results, Listed
  <2>7. Listed(u)' = Listed(u)
    BY DEF Listed
  <2> QED
    BY <1>1, <1>7, <1>11, <2>1, <2>2, <2>3, <2>5, <2>6, <2>7 DEF UnderWay
<1>18. TypeOK'
  <2>1. sums' \in [Columns -> Int]
    <3>1. 0 \in Int
      OBVIOUS
    <3> QED
      BY <1>1, <1>2, <1>8, <3>1
  <2>2. next' \in [Columns -> Columns \cup {UNVISITED, HEAD_NIL}]
    BY <1>1, <1>2
  <2>3. length' \in 0 .. NCols
    BY <1>7, <1>11, ListedCount DEF Threaded
  <2>4. head' \in Columns \cup {HEAD_NIL}
    <3>1. n \in DOMAIN t /\ n # 1 => n - 1 \in DOMAIN t
      BY <1>5
    <3> QED
      BY <1>1, <1>3, <1>5, <3>1 DEF Threaded
  <2> QED
    BY <1>1, <1>13, <2>1, <2>2, <2>3, <2>4 DEF PInv, TypeOK, Product
<1>19. Position'
  BY <1>1, <1>14 DEF PInv, Position
<1>20. Filled' /\ Counted'
  BY <1>1, <1>13, FillStays
<1> QED
  BY <1>17, <1>18, <1>19, <1>20 DEF PInv

LEMMA EndRowInv ==
  ASSUME PInv, EndRow
  PROVE  PInv'
<1>1. /\ pc = "pop" /\ length = 0 /\ head' = HEAD_NIL
      /\ IF i + 1 < Len(a) THEN i' = i + 1 /\ pc' = "fill" /\ at' = 1
                           ELSE pc' = "done" /\ UNCHANGED <<i, at>>
      /\ UNCHANGED <<a, b, mask, row_nnz, indptr, sums, next, length, out>>
  BY DEF EndRow, call, size
<1>2. /\ a \in AMatrices /\ b \in BMatrices /\ i \in Nat /\ i < Len(a) /\ Len(a) \in Nat
      /\ indptr \in Seq(0 .. MaxIndex) /\ Len(indptr) = Len(a) + 1
      /\ Len(out) \in Nat
  BY <1>1, FillFacts
<1>3. PICK t \in Seq(Columns) :
       /\ Threaded(t) /\ Len(out) + Len(t) = indptr[i + 2]
       /\ Emitted(indptr[i + 1], Len(out)) = Results(a[i + 1], TouchedBy(a[i + 1]) \ Listed(t))
  BY <1>1 DEF PInv, UnderWay
<1>4. t = <<>>
  BY <1>1, <1>3, EmptySeq DEF Threaded
<1>5. /\ Threaded(<<>>) /\ Len(out) = indptr[i + 2]
      /\ Emitted(indptr[i + 1], indptr[i + 2]) = Results(a[i + 1], TouchedBy(a[i + 1]))
  <2>1. TouchedBy(a[i + 1]) \ Listed(t) = TouchedBy(a[i + 1])
    BY <1>4, EmptyList
  <2>2. Len(out) = indptr[i + 2]
    <3>1. Len(out) + 0 = indptr[i + 2]
      BY <1>3, <1>4, EmptyList
    <3> QED
      BY <1>2, <3>1
  <2> QED
    BY <1>3, <1>4, <2>1, <2>2
<1>6. Threaded(<<>>)'
  BY <1>1, <1>5 DEF Threaded
<1>7. i' \in Nat /\ i' < Len(a) /\ i' \in 0 .. Len(a)
  BY <1>1, <1>2
<1>8. pc' \in {"fill", "done"} /\ (pc' = "fill" => at' = 1 /\ i' = i + 1) /\ (pc' = "done" => Len(a) = i + 1)
  BY <1>1, <1>2
<1>9. Products' \in Seq(Product) /\ Len(Products') \in Nat /\ Seen(0)' = {}
  <2>1. (a \in AMatrices /\ b \in BMatrices /\ i \in Nat /\ i < Len(a) =>
           Products \in Seq(Product) /\ Len(Products) \in Nat /\ Seen(0) = {})'
    BY SeenStep, PTL
  <2> QED
    BY <1>1, <1>2, <1>7, <2>1
<1>10. TypeOK'
  <2>1. at' \in Nat \ {0}
    BY <1>1 DEF PInv, TypeOK
  <2> QED
    BY <1>1, <1>7, <1>8, <2>1 DEF PInv, TypeOK
<1>11. Position'
  <2>1. pc' = "fill" => at' <= Len(Products') + 1
    BY <1>8, <1>9
  <2> QED
    BY <1>1, <1>2, <1>6, <1>7, <1>8, <2>1 DEF Position
<1>12. /\ \A r : TouchedBy(r)' = TouchedBy(r)
       /\ \A r, S : Results(r, S)' = Results(r, S)
       /\ \A n : TouchedUpTo(n)' = TouchedUpTo(n)
  BY <1>1, CallStays
<1>13. Counted'
  BY <1>1, <1>8, <1>12 DEF PInv, Counted
<1>14. Filled'
  <2>1. \A r \in 1 .. i + 1 : /\ indptr[r + 1] <= Len(out)
                              /\ Emitted(indptr[r], indptr[r + 1]) = Results(a[r], TouchedBy(a[r]))
    <3> SUFFICES ASSUME NEW r \in 1 .. i + 1
                 PROVE  /\ indptr[r + 1] <= Len(out)
                        /\ Emitted(indptr[r], indptr[r + 1]) = Results(a[r], TouchedBy(a[r]))
      OBVIOUS
    <3>1. CASE r \in 1 .. i
      BY <1>1, <3>1 DEF PInv, Filled
    <3>2. CASE r = i + 1
      <4>1. r + 1 = i + 2
        BY <1>2, <3>2
      <4> QED
        BY <1>2, <1>5, <3>2, <4>1
    <3> QED
      BY <1>2, <3>1, <3>2
  <2>2. (1 .. IF pc' = "done" THEN Len(a) ELSE i') = 1 .. i + 1
    BY <1>8
  <2>3. \A r : Emitted(indptr[r], indptr[r + 1])' = Emitted(indptr[r], indptr[r + 1])
    BY <1>1 DEF Emitted
  <2> QED
    BY <1>1, <1>12, <2>1, <2>2, <2>3 DEF Filled
<1>15. UnderWay'
  <2>1. CASE pc' = "fill"
    <3>1. at' - 1 = 0 /\ i' = i + 1
      BY <1>8, <2>1
    <3>2. Listed(<<>>)' = Seen(at - 1)'
      BY <1>9, <3>1, EmptyList DEF Seen, Listed
    <3>3. \A k \in Columns : sums'[k] = Contribution(Products', at' - 1, k)
      <4>1. \A k \in Columns : Contribution(Products', 0, k) = 0
        BY <1>9, ContributionStep
      <4>2. \A k \in Columns : sums'[k] = 0
        BY <1>6, EmptyList DEF Threaded
      <4> QED
        BY <3>1, <4>1, <4>2
    <3>4. Len(out') = indptr'[i' + 1]
      <4>1. i' + 1 = i + 2
        BY <1>2, <3>1
      <4> QED
        BY <1>1, <1>5, <4>1
    <3> QED
      BY <1>6, <2>1, <3>2, <3>3, <3>4, EmptyList DEF UnderWay
  <2>2. CASE pc' = "done"
    <3>1. Len(a) + 1 = i + 2
      BY <1>2, <1>8, <2>2
    <3> QED
      BY <1>1, <1>5, <2>2, <3>1 DEF UnderWay
  <2> QED
    BY <1>8, <2>1, <2>2
<1> QED
  BY <1>10, <1>11, <1>13, <1>14, <1>15 DEF PInv

LEMMA StepInv == PInv /\ [Next]_vars => PInv'
<1> SUFFICES ASSUME PInv, [Next]_vars PROVE PInv'
  OBVIOUS
<1>1. CASE UNCHANGED vars
  <2>1. UNCHANGED <<a, b, pc, i, at, mask, row_nnz, indptr, sums, next, head, length, out>>
    BY <1>1 DEF vars, call, size, accumulator
  <2>2. /\ \A n : TouchedUpTo(n)' = TouchedUpTo(n)
        /\ \A r : TouchedBy(r)' = TouchedBy(r)
        /\ \A r, k : RowTotal(r, k)' = RowTotal(r, k)
        /\ \A r, S : Results(r, S)' = Results(r, S)
        /\ Products' = Products /\ \A n : Seen(n)' = Seen(n)
    BY <2>1, CallStays
  <2>3. \A t : (Threaded(t)' <=> Threaded(t)) /\ Listed(t)' = Listed(t)
    BY <2>1 DEF Threaded, Listed
  <2>4. \A m, n : Emitted(m, n)' = Emitted(m, n)
    BY <2>1 DEF Emitted
  <2>5. TypeOK'
    BY <2>1 DEF PInv, TypeOK
  <2>6. Position'
    BY <2>1, <2>2, <2>3 DEF PInv, Position
  <2>7. Counted'
    BY <2>1, <2>2 DEF PInv, Counted
  <2>8. Filled'
    BY <2>1, <2>2, <2>4 DEF PInv, Filled
  <2>9. UnderWay'
    BY <2>1, <2>2, <2>3, <2>4 DEF PInv, UnderWay
  <2> QED
    BY <2>5, <2>6, <2>7, <2>8, <2>9 DEF PInv
<1> QED
  BY <1>1, ShortCircuitInv, StartInv, SizeProductInv, EndSizeRowInv,
     FillProductInv, StartPopInv, PopInv, EndRowInv DEF Next

-----------------------------------------------------------------------------
(* The theorems *)

\* What the two passes of sp_matmul keep of a product while it is under way.
THEOREM ProductInvariant == Spec => []PInv
BY InitInv, StepInv, PTL DEF Spec

\* The state of sp_matmul has its types; in particular no offset past the
\* index type is stored, for every index type.
THEOREM TypeCorrect == Spec => []TypeOK
<1>1. PInv => TypeOK
  BY DEF PInv
<1> QED
  BY <1>1, ProductInvariant, PTL

\* The size pass and the fill pass agree on every row boundary, whatever the
\* rows touch and cancel.
THEOREM BothPassesAgree == Spec => []PassesAgree
<1>1. PInv => PassesAgree
  <2> SUFFICES ASSUME PInv PROVE PassesAgree
    OBVIOUS
  <2>1. ASSUME pc = "fill"
        PROVE  Len(out) = indptr[i + 1] /\ Len(out) + length <= indptr[i + 2]
    <3>1. PICK t \in Seq(Columns) :
            Threaded(t) /\ Listed(t) = Seen(at - 1) /\ Len(out) = indptr[i + 1]
      BY <2>1 DEF PInv, UnderWay
    <3>2. length = Cardinality(Seen(at - 1))
      BY <3>1, ListedCount DEF Threaded
    <3>3. /\ a \in AMatrices /\ b \in BMatrices /\ i \in Nat /\ i < Len(a) /\ i + 1 \in DOMAIN a
          /\ indptr[i + 2] = indptr[i + 1] + Cardinality(TouchedBy(a[i + 1]))
          /\ indptr[i + 1] \in Nat
      BY <2>1, FillFacts
    <3>4. at - 1 \in 0 .. Len(Products)
      <4>1. at \in Nat \ {0} /\ at <= Len(Products) + 1
        BY <2>1 DEF PInv, TypeOK, Position
      <4>2. Len(Products) \in Nat
        BY <3>3, SeenStep
      <4> QED
        BY <4>1, <4>2
    <3>5. Cardinality(Seen(at - 1)) <= Cardinality(TouchedBy(a[i + 1]))
      BY <3>3, <3>4, SeenFinite
    <3>6. Cardinality(Seen(at - 1)) \in Int /\ Cardinality(TouchedBy(a[i + 1])) \in Int
      BY <3>3, <3>4, SeenFinite, TouchedFinite
    <3> QED
      BY <3>1, <3>2, <3>3, <3>5, <3>6
  <2>2. ASSUME pc = "pop" PROVE Len(out) + length = indptr[i + 2]
    BY <2>2 DEF PInv, UnderWay, Threaded
  <2>3. ASSUME pc = "done" PROVE Len(out) = indptr[Len(indptr)] /\ Len(indptr) = Len(a) + 1
    BY <2>3 DEF PInv, UnderWay, Position
  <2> QED
    BY <2>1, <2>2, <2>3 DEF PassesAgree
<1> QED
  BY <1>1, ProductInvariant, PTL

\* Every row of the result is the row of the product, each column once with its
\* full sum, for any matrices, with B's rows in any order and with repeats.
THEOREM ProductsAreExact == Spec => []ProductIsExact
<1>1. PInv => ProductIsExact
  <2> SUFFICES ASSUME PInv, pc = "done", NEW r \in DOMAIN a
               PROVE  LET row == {out[p] : p \in indptr[r] + 1 .. indptr[r + 1]}
                      IN  /\ row = {[k |-> k, val |-> RowTotal(a[r], k)] : k \in TouchedBy(a[r])}
                          /\ Cardinality(row) = indptr[r + 1] - indptr[r]
    BY DEF ProductIsExact
  <2>1. a \in AMatrices /\ b \in BMatrices /\ Len(indptr) = Len(a) + 1
    BY DEF PInv, Position
  <2>2. Len(a) \in Nat /\ r \in 1 .. Len(a)
    BY <2>1, TouchedUpToStep
  <2>3. Emitted(indptr[r], indptr[r + 1]) = Results(a[r], TouchedBy(a[r]))
    BY <2>2 DEF PInv, Filled
  <2>4. Cardinality(Results(a[r], TouchedBy(a[r]))) = Cardinality(TouchedBy(a[r]))
    BY <2>1, TouchedFinite, ResultsCount
  <2>5. Cardinality(TouchedBy(a[r])) = indptr[r + 1] - indptr[r]
    <3>1. r - 1 \in 0 .. Len(indptr) - 1 /\ r \in 0 .. Len(indptr) - 1 /\ (r - 1) + 1 = r
      BY <2>1, <2>2
    <3>2. indptr[r] = TouchedUpTo(r - 1) /\ indptr[r + 1] = TouchedUpTo(r)
      BY <3>1 DEF PInv, Counted
    <3>3. TouchedUpTo(r) = TouchedUpTo(r - 1) + Cardinality(TouchedBy(a[r]))
      BY <2>1, <2>2, TouchedUpToStep
    <3>4. TouchedUpTo(r - 1) \in Int /\ Cardinality(TouchedBy(a[r])) \in Int
      <4>1. r - 1 \in 0 .. Len(a)
        BY <2>2
      <4> QED
        BY <2>1, <4>1, TouchedUpToStep, TouchedFinite
    <3> QED
      BY <3>2, <3>3, <3>4
  <2> QED
    BY <2>3, <2>4, <2>5 DEF Emitted, Results
<1> QED
  BY <1>1, ProductInvariant, PTL

\* A result past the index type is refused in the size pass, at the first row
\* whose total does not fit, with nothing filled; any other is not.
THEOREM OverflowIsRefused == Spec => []OverflowAborts
<1>1. PInv => OverflowAborts
  <2> SUFFICES ASSUME PInv PROVE OverflowAborts
    OBVIOUS
  <2>1. \A r \in 0 .. Len(indptr) - 1 : TouchedUpTo(r) <= MaxIndex
    <3> SUFFICES ASSUME NEW r \in 0 .. Len(indptr) - 1 PROVE TouchedUpTo(r) <= MaxIndex
      OBVIOUS
    <3>1. indptr \in Seq(0 .. MaxIndex) /\ Len(indptr) \in Nat
      BY LenProperties DEF PInv, Position
    <3>2. r + 1 \in 1 .. Len(indptr)
      BY <3>1
    <3>3. indptr[r + 1] \in 0 .. MaxIndex
      BY <3>1, <3>2, ElementOfSeq
    <3> QED
      BY <3>3 DEF PInv, Counted
  <2>2. /\ a \in AMatrices /\ b \in BMatrices
        /\ Len(indptr) = IF pc \in {"start", "size", "panic"} THEN i + 1 ELSE Len(a) + 1
    BY DEF PInv, Position
  <2>3. Len(a) \in Nat /\ i \in Nat
    <3>1. Len(a) \in Nat
      BY <2>2, TouchedUpToStep
    <3> QED
      BY <3>1 DEF PInv, TypeOK
  <2>4. ASSUME pc = "panic"
        PROVE  /\ out = <<>> /\ \A k \in Columns : sums[k] = 0
               /\ TouchedUpTo(i) <= MaxIndex /\ TouchedUpTo(i + 1) > MaxIndex
    <3>1. i \in 0 .. Len(indptr) - 1
      BY <2>2, <2>3, <2>4
    <3>2. Threaded(<<>>) /\ out = <<>>
      BY <2>4 DEF PInv, Position
    <3>3. \A k \in Columns : sums[k] = 0
      BY <3>2, EmptyList DEF Threaded
    <3> QED
      BY <2>1, <2>4, <3>1, <3>2, <3>3 DEF PInv, Counted
  <2>5. ASSUME pc \in {"fill", "pop", "done"} PROVE TouchedUpTo(Len(a)) <= MaxIndex
    <3>1. Len(a) \in 0 .. Len(indptr) - 1
      BY <2>2, <2>3, <2>5
    <3> QED
      BY <2>1, <3>1
  <2> QED
    BY <2>4, <2>5 DEF OverflowAborts
<1> QED
  BY <1>1, ProductInvariant, PTL

-----------------------------------------------------------------------------
(* PyApi, in the rest of the module: its matrices *)

Element == [k : Nat, x : Int]

\* n lines of entries in columns below w, none of them twice.
AreLines(l, n, w) ==
  /\ l \in Seq(Seq(Element)) /\ Len(l) = n
  /\ \A r \in 1 .. n :
       /\ \A p \in 1 .. Len(l[r]) : l[r][p].k < w
       /\ \A p, q \in 1 .. Len(l[r]) : l[r][p].k = l[r][q].k => p = q

AnyFormat == Formats \cup OtherFormats

LEMMA MatrixFacts ==
  ASSUME NEW m \in Matrices
  PROVE  /\ m.nrows \in Nat /\ m.ncols \in Nat /\ m.fmt \in AnyFormat /\ m.dtype \in STRING
         /\ m.fmt # "csc" => AreLines(m.lines, m.nrows, m.ncols)
         /\ m.fmt = "csc" => AreLines(m.lines, m.ncols, m.nrows)
         /\ m = [fmt |-> m.fmt, nrows |-> m.nrows, ncols |-> m.ncols, dtype |-> m.dtype,
                 lines |-> m.lines]
<1>1. /\ m \in [fmt : AnyFormat, nrows : Nat, ncols : Nat, dtype : STRING,
                lines : Seq(Seq([k : Nat, x : Int]))]
      /\ IsStored(m)
  BY DEF Matrices, AnyFormat
<1>2. m.lines \in Seq(Seq(Element)) /\ Len(m.lines) \in Nat /\ DOMAIN m.lines = 1 .. Len(m.lines)
  BY <1>1, LenProperties DEF Element
<1>3. \A n \in 1 .. Len(m.lines) : m.lines[n] \in Seq(Element)
  BY <1>2, ElementOfSeq
<1>4. \A n \in 1 .. Len(m.lines) : DOMAIN m.lines[n] = 1 .. Len(m.lines[n])
  BY <1>3, LenProperties
<1>5. ASSUME m.fmt # "csc" PROVE AreLines(m.lines, m.nrows, m.ncols)
  <2>1. /\ Len(m.lines) = m.nrows
        /\ \A n \in DOMAIN m.lines : \A p, q \in DOMAIN m.lines[n] :
             m.lines[n][p].k < m.ncols /\ (m.lines[n][p].k = m.lines[n][q].k => p = q)
    BY <1>1, <1>5 DEF IsStored
  <2> QED
    BY <1>2, <1>4, <2>1 DEF AreLines
<1>6. ASSUME m.fmt = "csc" PROVE AreLines(m.lines, m.ncols, m.nrows)
  <2>1. /\ Len(m.lines) = m.ncols
        /\ \A n \in DOMAIN m.lines : \A p, q \in DOMAIN m.lines[n] :
             m.lines[n][p].k < m.nrows /\ (m.lines[n][p].k = m.lines[n][q].k => p = q)
    BY <1>1, <1>6 DEF IsStored
  <2> QED
    BY <1>2, <1>4, <2>1, Zenon DEF AreLines
<1> QED
  BY <1>1, <1>5, <1>6

\* A line, and an entry of one.
LEMMA LineFacts ==
  ASSUME NEW l, NEW n \in Nat, NEW w \in Nat, AreLines(l, n, w)
  PROVE  /\ DOMAIN l = 1 .. n
         /\ \A r \in 1 .. n :
              /\ l[r] \in Seq(Element) /\ Len(l[r]) \in Nat /\ DOMAIN l[r] = 1 .. Len(l[r])
              /\ \A p \in 1 .. Len(l[r]) :
                   /\ l[r][p] \in Element /\ l[r][p].k \in 0 .. w - 1 /\ l[r][p].x \in Int
<1>1. DOMAIN l = 1 .. n /\ \A r \in 1 .. n : l[r] \in Seq(Element)
  BY LenProperties, ElementOfSeq DEF AreLines
<1>2. \A r \in 1 .. n : /\ Len(l[r]) \in Nat /\ DOMAIN l[r] = 1 .. Len(l[r])
                        /\ \A p \in 1 .. Len(l[r]) : l[r][p] \in Element
  BY <1>1, LenProperties, ElementOfSeq
<1> QED
  BY <1>1, <1>2 DEF AreLines, Element

LEMMA MakeMatrix ==
  ASSUME NEW f \in AnyFormat, NEW d \in STRING, NEW n \in Nat, NEW c \in Nat, NEW l,
         f # "csc" => AreLines(l, n, c), f = "csc" => AreLines(l, c, n),
         NEW m, m = [fmt |-> f, nrows |-> n, ncols |-> c, dtype |-> d, lines |-> l]
  PROVE  m \in Matrices
<1>1. m.fmt = f /\ m.nrows = n /\ m.ncols = c /\ m.dtype = d /\ m.lines = l
  OBVIOUS
<1>2. l \in Seq(Seq(Element))
  BY DEF AreLines
<1>3. m \in [fmt : AnyFormat, nrows : Nat, ncols : Nat, dtype : STRING,
             lines : Seq(Seq([k : Nat, x : Int]))]
  BY <1>2 DEF Element
<1>4. ASSUME NEW h \in Nat, NEW w \in Nat, AreLines(l, h, w)
      PROVE  /\ Len(l) = h
             /\ \A r \in DOMAIN l : \A p, q \in DOMAIN l[r] :
                  l[r][p].k < w /\ (l[r][p].k = l[r][q].k => p = q)
  <2>1. /\ DOMAIN l = 1 .. h
        /\ \A r \in 1 .. h : DOMAIN l[r] = 1 .. Len(l[r])
    BY <1>4, LineFacts
  <2>2. Len(l) = h
    BY <1>4 DEF AreLines
  <2>3. ASSUME NEW r \in 1 .. h
        PROVE  \A p, q \in DOMAIN l[r] : l[r][p].k < w /\ (l[r][p].k = l[r][q].k => p = q)
    <3>1. DOMAIN l[r] = 1 .. Len(l[r])
      BY <2>1
    <3>2. /\ \A p \in 1 .. Len(l[r]) : l[r][p].k < w
          /\ \A p, q \in 1 .. Len(l[r]) : l[r][p].k = l[r][q].k => p = q
      BY <1>4 DEF AreLines
    <3> QED
      BY <3>1, <3>2
  <2> QED
    BY <2>1, <2>2, <2>3
<1>5. IsStored(m)
  <2>1. CASE f = "csc"
    BY <1>1, <1>4, <2>1 DEF IsStored
  <2>2. CASE f # "csc"
    BY <1>1, <1>4, <2>2 DEF IsStored
  <2> QED
    BY <2>1, <2>2
<1> QED
  BY <1>3, <1>5 DEF Matrices, AnyFormat

\* The cell that entry p of line r stores.
CellOf(m, r, p) ==
  IF m.fmt = "csc" THEN [i |-> m.lines[r][p].k, j |-> r - 1, x |-> m.lines[r][p].x]
  ELSE [i |-> r - 1, j |-> m.lines[r][p].k, x |-> m.lines[r][p].x]

LEMMA CellsAre ==
  ASSUME NEW m, NEW c
  PROVE  c \in Cells(m) <=>
           \E r \in DOMAIN m.lines : \E p \in DOMAIN m.lines[r] : c = CellOf(m, r, p)
<1>1. \A d : d \in LineCells(m) <=>
        \E r \in DOMAIN m.lines : \E p \in DOMAIN m.lines[r] :
          d = [n |-> r - 1, e |-> m.lines[r][p]]
  BY DEF LineCells
<1>2. CASE m.fmt = "csc"
  <2>1. Cells(m) = {[i |-> d.e.k, j |-> d.n, x |-> d.e.x] : d \in LineCells(m)}
    BY <1>2 DEF Cells
  <2>2. ASSUME c \in Cells(m)
        PROVE  \E r \in DOMAIN m.lines : \E p \in DOMAIN m.lines[r] : c = CellOf(m, r, p)
    <3>1. PICK d \in LineCells(m) : c = [i |-> d.e.k, j |-> d.n, x |-> d.e.x]
      BY <2>1, <2>2
    <3>2. PICK r \in DOMAIN m.lines :
            \E p \in DOMAIN m.lines[r] : d = [n |-> r - 1, e |-> m.lines[r][p]]
      BY <1>1, <3>1
    <3>3. PICK p \in DOMAIN m.lines[r] : d = [n |-> r - 1, e |-> m.lines[r][p]]
      BY <3>2
    <3>4. c = CellOf(m, r, p)
      BY <1>2, <3>1, <3>3 DEF CellOf
    <3> QED
      BY <3>4
  <2>3. ASSUME NEW r \in DOMAIN m.lines, NEW p \in DOMAIN m.lines[r], c = CellOf(m, r, p)
        PROVE  c \in Cells(m)
    <3>1. PICK d : d = [n |-> r - 1, e |-> m.lines[r][p]]
      OBVIOUS
    <3>2. d \in LineCells(m)
      BY <1>1, <3>1
    <3>3. c = [i |-> d.e.k, j |-> d.n, x |-> d.e.x]
      BY <1>2, <2>3, <3>1 DEF CellOf
    <3> QED
      BY <2>1, <3>2, <3>3
  <2> QED
    BY <2>2, <2>3
<1>3. CASE m.fmt # "csc"
  <2>1. Cells(m) = {[i |-> d.n, j |-> d.e.k, x |-> d.e.x] : d \in LineCells(m)}
    BY <1>3 DEF Cells
  <2>2. ASSUME c \in Cells(m)
        PROVE  \E r \in DOMAIN m.lines : \E p \in DOMAIN m.lines[r] : c = CellOf(m, r, p)
    <3>1. PICK d \in LineCells(m) : c = [i |-> d.n, j |-> d.e.k, x |-> d.e.x]
      BY <2>1, <2>2
    <3>2. PICK r \in DOMAIN m.lines :
            \E p \in DOMAIN m.lines[r] : d = [n |-> r - 1, e |-> m.lines[r][p]]
      BY <1>1, <3>1
    <3>3. PICK p \in DOMAIN m.lines[r] : d = [n |-> r - 1, e |-> m.lines[r][p]]
      BY <3>2
    <3>4. c = CellOf(m, r, p)
      BY <1>3, <3>1, <3>3 DEF CellOf
    <3> QED
      BY <3>4
  <2>3. ASSUME NEW r \in DOMAIN m.lines, NEW p \in DOMAIN m.lines[r], c = CellOf(m, r, p)
        PROVE  c \in Cells(m)
    <3>1. PICK d : d = [n |-> r - 1, e |-> m.lines[r][p]]
      OBVIOUS
    <3>2. d \in LineCells(m)
      BY <1>1, <3>1
    <3>3. c = [i |-> d.n, j |-> d.e.k, x |-> d.e.x]
      BY <1>3, <2>3, <3>1 DEF CellOf
    <3> QED
      BY <2>1, <3>2, <3>3
  <2> QED
    BY <2>2, <2>3
<1> QED
  BY <1>2, <1>3

\* The cells of a matrix: within its shape, and one at a place.
LEMMA CellsFacts ==
  ASSUME NEW m \in Matrices
  PROVE  /\ \A c \in Cells(m) : /\ c.i \in 0 .. m.nrows - 1 /\ c.j \in 0 .. m.ncols - 1
                                /\ c.x \in Int /\ c = [i |-> c.i, j |-> c.j, x |-> c.x]
         /\ \A c, d \in Cells(m) : c.i = d.i /\ c.j = d.j => c = d
<1>1. PICK h, w : /\ h \in Nat /\ w \in Nat /\ AreLines(m.lines, h, w)
                  /\ m.fmt = "csc" => h = m.ncols /\ w = m.nrows
                  /\ m.fmt # "csc" => h = m.nrows /\ w = m.ncols
  BY MatrixFacts
<1>2. /\ DOMAIN m.lines = 1 .. h
      /\ \A r \in 1 .. h :
           /\ DOMAIN m.lines[r] = 1 .. Len(m.lines[r])
           /\ \A p \in 1 .. Len(m.lines[r]) :
                m.lines[r][p].k \in 0 .. w - 1 /\ m.lines[r][p].x \in Int
  BY <1>1, LineFacts
<1>3. \A r \in 1 .. h : \A p, q \in 1 .. Len(m.lines[r]) :
        m.lines[r][p].k = m.lines[r][q].k => p = q
  BY <1>1 DEF AreLines
<1>4. ASSUME NEW c \in Cells(m)
      PROVE  \E r \in 1 .. h : \E p \in 1 .. Len(m.lines[r]) : c = CellOf(m, r, p)
  <2>1. PICK r \in DOMAIN m.lines : \E p \in DOMAIN m.lines[r] : c = CellOf(m, r, p)
    BY CellsAre
  <2>2. r \in 1 .. h /\ DOMAIN m.lines[r] = 1 .. Len(m.lines[r])
    BY <1>2
  <2> QED
    BY <2>1, <2>2
<1>5. ASSUME NEW c \in Cells(m)
      PROVE  /\ c.i \in 0 .. m.nrows - 1 /\ c.j \in 0 .. m.ncols - 1
             /\ c.x \in Int /\ c = [i |-> c.i, j |-> c.j, x |-> c.x]
  <2>1. PICK r \in 1 .. h : \E p \in 1 .. Len(m.lines[r]) : c = CellOf(m, r, p)
    BY <1>4
  <2>2. PICK p \in 1 .. Len(m.lines[r]) : c = CellOf(m, r, p)
    BY <2>1
  <2>3. PICK k, x : k = m.lines[r][p].k /\ x = m.lines[r][p].x /\ k \in 0 .. w - 1 /\ x \in Int
    BY <1>2
  <2> PICK z : z = r - 1 /\ z \in 0 .. h - 1
    BY <1>1
  <2>4. CASE m.fmt = "csc"
    <3>1. c = [i |-> k, j |-> z, x |-> x]
      BY <2>2, <2>3, <2>4 DEF CellOf
    <3> QED
      BY <1>1, <2>3, <2>4, <3>1
  <2>5. CASE m.fmt # "csc"
    <3>1. c = [i |-> z, j |-> k, x |-> x]
      BY <2>2, <2>3, <2>5 DEF CellOf
    <3> QED
      BY <1>1, <2>3, <2>5, <3>1
  <2> QED
    BY <2>4, <2>5
<1>6. ASSUME NEW c \in Cells(m), NEW d \in Cells(m), c.i = d.i, c.j = d.j
      PROVE  c = d
  <2>1. PICK r \in 1 .. h : \E p \in 1 .. Len(m.lines[r]) : c = CellOf(m, r, p)
    BY <1>4
  <2>2. PICK p \in 1 .. Len(m.lines[r]) : c = CellOf(m, r, p)
    BY <2>1
  <2>3. PICK s \in 1 .. h : \E q \in 1 .. Len(m.lines[s]) : d = CellOf(m, s, q)
    BY <1>4
  <2>4. PICK q \in 1 .. Len(m.lines[s]) : d = CellOf(m, s, q)
    BY <2>3
  <2>5. r = s /\ m.lines[r][p].k = m.lines[s][q].k
    <3>1. CASE m.fmt = "csc"
      BY <1>6, <2>2, <2>4, <3>1 DEF CellOf
    <3>2. CASE m.fmt # "csc"
      BY <1>6, <2>2, <2>4, <3>2 DEF CellOf
    <3> QED
      BY <3>1, <3>2
  <2>6. p = q
    BY <1>3, <2>5
  <2> QED
    BY <2>2, <2>4, <2>5, <2>6
<1> QED
  BY <1>5, <1>6

\* What the call computes with: the entries, the shape and the type.
Same(m, o) ==
  /\ Cells(m) = Cells(o)
  /\ m.nrows = o.nrows /\ m.ncols = o.ncols /\ m.dtype = o.dtype

LEMMA TransposeFacts ==
  ASSUME NEW m \in Matrices
  PROVE  /\ Transpose(m) \in Matrices
         /\ m.fmt = "csc" => Transpose(m).fmt = "csr"
         /\ m.fmt # "csc" => Transpose(m).fmt = "csc"
         /\ Transpose(m).nrows = m.ncols /\ Transpose(m).ncols = m.nrows
<1>1. PICK g \in {"csr", "csc"} : g = IF m.fmt = "csc" THEN "csr" ELSE "csc"
  OBVIOUS
<1>2. /\ m.nrows \in Nat /\ m.ncols \in Nat /\ m.dtype \in STRING
      /\ m = [fmt |-> m.fmt, nrows |-> m.nrows, ncols |-> m.ncols, dtype |-> m.dtype,
              lines |-> m.lines]
  BY MatrixFacts
<1>3. PICK n, c, d, l, f :
        /\ n \in Nat /\ c \in Nat /\ d \in STRING
        /\ n = m.nrows /\ c = m.ncols /\ d = m.dtype /\ l = m.lines /\ f = m.fmt
  BY <1>2
<1>4. Transpose(m) = [fmt |-> g, nrows |-> c, ncols |-> n, dtype |-> d, lines |-> l]
  <2>1. Transpose(m) = [m EXCEPT !.fmt = g, !.nrows = c, !.ncols = n]
    BY <1>1, <1>3 DEF Transpose
  <2>2. m = [fmt |-> f, nrows |-> n, ncols |-> c, dtype |-> d, lines |-> l]
    BY <1>2, <1>3
  <2> QED
    BY <2>1, <2>2
<1>5. /\ g # "csc" => AreLines(l, c, n)
      /\ g = "csc" => AreLines(l, n, c)
  BY <1>1, <1>3, MatrixFacts
<1>6. Transpose(m) \in Matrices
  <2>1. g \in AnyFormat
    BY DEF AnyFormat, Formats
  <2>2. PICK t : /\ t = Transpose(m)
                 /\ t = [fmt |-> g, nrows |-> c, ncols |-> n, dtype |-> d, lines |-> l]
    BY <1>4
  <2>3. t \in Matrices
    BY <1>3, <1>5, <2>1, <2>2, MakeMatrix
  <2> QED
    BY <2>2, <2>3
<1> QED
  BY <1>1, <1>3, <1>4, <1>6

\* Entries of one line, in columns below w, none of them twice.
IsLine(S, w) ==
  /\ S \subseteq Element /\ \A e \in S : e.k < w
  /\ \A e, f \in S : e.k = f.k => e = f

LEMMA LineIsFinite ==
  ASSUME NEW S, NEW w \in Nat, IsLine(S, w)
  PROVE  IsFiniteSet(S) /\ Cardinality(S) \in Nat /\ Cardinality(S) <= w
<1>1. [e \in S |-> e.k] \in [S -> 0 .. w - 1]
  BY DEF IsLine, Element
<1>2. \A e, f \in S : [g \in S |-> g.k][e] = [g \in S |-> g.k][f] => e = f
  BY DEF IsLine
<1> QED
  BY <1>1, <1>2, KeyedFinite

Csr(n, w, d, l) == [fmt |-> "csr", nrows |-> n, ncols |-> w, dtype |-> d, lines |-> l]

\* l lists n sets of entries.
ListsRows(l, S, n, w) ==
  /\ DOMAIN l = 1 .. n /\ l = [r \in 1 .. n |-> l[r]]
  /\ \A r \in 1 .. n : IsLine(S[r], w) /\ l[r] \in SetToSeqs(S[r])

\* A csr matrix whose lines list sets of entries has just those.
LEMMA ListedMatrix ==
  ASSUME NEW n \in Nat, NEW w \in Nat, NEW d \in STRING, NEW l, NEW S, ListsRows(l, S, n, w),
         NEW m, m = Csr(n, w, d, l)
  PROVE  /\ m \in Matrices
         /\ \A c : c \in Cells(m) <=>
              \E r \in 1 .. n : \E e \in S[r] : c = [i |-> r - 1, j |-> e.k, x |-> e.x]
<1>1. ASSUME NEW r \in 1 .. n
      PROVE  /\ l[r] \in Seq(Element) /\ DOMAIN l[r] = 1 .. Len(l[r])
             /\ {l[r][p] : p \in DOMAIN l[r]} = S[r]
             /\ \A p \in 1 .. Len(l[r]) : l[r][p].k < w
             /\ \A p, q \in 1 .. Len(l[r]) : l[r][p].k = l[r][q].k => p = q
  <2>1. PICK T, t : T = S[r] /\ t = l[r] /\ IsLine(T, w) /\ t \in SetToSeqs(T)
    BY DEF ListsRows
  <2>2. /\ t \in Seq(T) /\ Len(t) = Cardinality(T) /\ DOMAIN t = 1 .. Cardinality(T)
        /\ {t[p] : p \in DOMAIN t} = T
        /\ \A p, q \in DOMAIN t : t[p] = t[q] => p = q
    BY <2>1, LineIsFinite, ListingFacts
  <2>3. \A p \in DOMAIN t : t[p] \in T
    BY <2>2
  <2>4. /\ \A p \in DOMAIN t : t[p] \in Element /\ t[p].k < w
        /\ \A p, q \in DOMAIN t : t[p].k = t[q].k => p = q
    <3>1. T \subseteq Element /\ \A e \in T : e.k < w
      BY <2>1 DEF IsLine
    <3>2. \A e, f \in T : e.k = f.k => e = f
      BY <2>1 DEF IsLine
    <3>3. ASSUME NEW p \in DOMAIN t, NEW q \in DOMAIN t, t[p].k = t[q].k PROVE p = q
      BY <2>2, <2>3, <3>2, <3>3
    <3> QED
      BY <2>3, <3>1, <3>3
  <2>5. DOMAIN t = 1 .. Len(t) /\ t \in Seq(Element)
    BY <2>2, <2>4
  <2>6. /\ \A p \in 1 .. Len(t) : t[p].k < w
        /\ \A p, q \in 1 .. Len(t) : t[p].k = t[q].k => p = q
    BY <2>4, <2>5
  <2> QED
    BY <2>1, <2>2, <2>5, <2>6
<1>2. AreLines(l, n, w)
  <2>1. l \in Seq(Seq(Element)) /\ Len(l) = n
    <3>1. l \in [1 .. n -> Seq(Element)]
      BY <1>1 DEF ListsRows
    <3> QED
      BY <3>1
  <2> QED
    BY <1>1, <2>1 DEF AreLines
<1>3. m \in Matrices
  <2>1. "csr" \in AnyFormat
    BY DEF AnyFormat, Formats
  <2> QED
    BY <1>2, <2>1, MakeMatrix DEF Csr
<1>4. /\ m.lines = l /\ m.fmt # "csc"
      /\ \A r \in 1 .. n : \A p : CellOf(m, r, p) = [i |-> r - 1, j |-> l[r][p].k, x |-> l[r][p].x]
  BY DEF CellOf, Csr
<1>5. ASSUME NEW c, c \in Cells(m)
      PROVE  \E r \in 1 .. n : \E e \in S[r] : c = [i |-> r - 1, j |-> e.k, x |-> e.x]
  <2>1. PICK r \in DOMAIN l : \E p \in DOMAIN l[r] : c = CellOf(m, r, p)
    <3>1. \E r \in DOMAIN m.lines : \E p \in DOMAIN m.lines[r] : c = CellOf(m, r, p)
      BY <1>5, CellsAre
    <3> QED
      BY <1>4, <3>1
  <2>2. PICK p \in DOMAIN l[r] : c = CellOf(m, r, p)
    BY <2>1
  <2>3. l[r][p] \in S[r] /\ r \in 1 .. n
    BY <1>1 DEF ListsRows
  <2> QED
    BY <1>4, <2>2, <2>3
<1>6. ASSUME NEW r \in 1 .. n, NEW e \in S[r], NEW c, c = [i |-> r - 1, j |-> e.k, x |-> e.x]
      PROVE  c \in Cells(m)
  <2>1. PICK p \in DOMAIN l[r] : e = l[r][p]
    BY <1>1
  <2>2. c = CellOf(m, r, p)
    BY <1>4, <1>6, <2>1
  <2> QED
    <3>1. \E u \in DOMAIN m.lines : \E q \in DOMAIN m.lines[u] : c = CellOf(m, u, q)
      BY <1>4, <2>2 DEF ListsRows
    <3> QED
      BY <3>1, CellsAre
<1> QED
  BY <1>3, <1>5, <1>6

LEMMA ByColumnFacts ==
  ASSUME NEW S, NEW w \in Nat, IsLine(S, w)
  PROVE  ByColumn(S) \in SetToSeqs(S) /\ InOrder(ByColumn(S))
<1>1. PICK key : key = [e \in S |-> e.k] /\ key \in [S -> Int]
  <2>1. [e \in S |-> e.k] \in [S -> Int]
    BY DEF IsLine, Element
  <2> QED
    BY <2>1
<1>2. \A e, f \in S : key[e] = key[f] => e = f
  BY <1>1 DEF IsLine
<1>3. PICK t \in SetToSeqs(S) : \A p, q \in DOMAIN t : p < q => key[t[p]] < key[t[q]]
  BY <1>1, <1>2, LineIsFinite, SortedExists
<1>4. \A p \in DOMAIN t : t[p] \in S
  BY <1>3, LineIsFinite, ListingFacts
<1>5. InOrder(t)
  BY <1>1, <1>3, <1>4 DEF InOrder
<1> QED
  BY <1>3, <1>5 DEF ByColumn

\* tocsr keeps the entries, and puts every row in order.
LEMMA ToCsrFacts ==
  ASSUME NEW m \in Matrices
  PROVE  /\ ToCsr(m) \in Matrices /\ ToCsr(m).fmt = "csr" /\ Same(ToCsr(m), m)
         /\ \A r \in DOMAIN ToCsr(m).lines : InOrder(ToCsr(m).lines[r])
<1>1. PICK n \in Nat, w \in Nat, d \in STRING : n = m.nrows /\ w = m.ncols /\ d = m.dtype
  BY MatrixFacts
<1> DEFINE S == [r \in 1 .. n |-> {[k |-> c.j, x |-> c.x] : c \in {u \in Cells(m) : u.i = r - 1}}]
           l == [r \in 1 .. m.nrows |->
                   ByColumn({[k |-> c.j, x |-> c.x] : c \in {u \in Cells(m) : u.i = r - 1}})]
<1>2. ASSUME NEW r \in 1 .. n, NEW e
      PROVE  e \in S[r] <=> \E c \in Cells(m) : c.i = r - 1 /\ e = [k |-> c.j, x |-> c.x]
  OBVIOUS
<1>3. ASSUME NEW r \in 1 .. n PROVE l[r] = ByColumn(S[r])
  <2>1. S[r] = {[k |-> c.j, x |-> c.x] : c \in {u \in Cells(m) : u.i = r - 1}}
    OBVIOUS
  <2>2. l[r] = ByColumn({[k |-> c.j, x |-> c.x] : c \in {u \in Cells(m) : u.i = r - 1}})
    BY <1>1
  <2> QED
    BY <2>1, <2>2
<1>4. DOMAIN l = 1 .. n /\ l = [r \in 1 .. n |-> l[r]]
  BY <1>1
<1>5. PICK t : /\ t = ToCsr(m)
               /\ t = [fmt |-> "csr", nrows |-> n, ncols |-> w, dtype |-> d, lines |-> l]
  <2>1. PICK f, k : m = [fmt |-> f, nrows |-> n, ncols |-> w, dtype |-> d, lines |-> k]
    BY <1>1, MatrixFacts
  <2>2. PICK t : t = ToCsr(m) /\ t = [m EXCEPT !.fmt = "csr", !.lines = l]
    BY Zenon DEF ToCsr
  <2> HIDE DEF l
  <2>3. t = [fmt |-> "csr", nrows |-> n, ncols |-> w, dtype |-> d, lines |-> l]
    BY <2>1, <2>2
  <2> QED
    BY <2>2, <2>3
<1> HIDE DEF S, l
<1>6. ASSUME NEW r \in 1 .. n
      PROVE  IsLine(S[r], w)
  <2>1. ASSUME NEW e \in S[r]
        PROVE  \E c \in Cells(m) : /\ c.i = r - 1 /\ c.j = e.k /\ c.x = e.x
                                  /\ e = [k |-> e.k, x |-> e.x]
    <3>1. PICK c \in Cells(m) : c.i = r - 1 /\ e = [k |-> c.j, x |-> c.x]
      BY <1>2
    <3> QED
      BY <3>1
  <2>2. ASSUME NEW e \in S[r]
        PROVE  e \in Element /\ e.k < w
    <3>1. PICK c \in Cells(m) : c.j = e.k /\ c.x = e.x /\ e = [k |-> e.k, x |-> e.x]
      BY <2>1
    <3>2. e.k \in 0 .. w - 1 /\ e.x \in Int
      BY <1>1, <3>1, CellsFacts
    <3> QED
      BY <3>1, <3>2 DEF Element
  <2>3. ASSUME NEW e \in S[r], NEW f \in S[r], e.k = f.k
        PROVE  e = f
    <3>1. PICK c \in Cells(m) : c.i = r - 1 /\ c.j = e.k /\ c.x = e.x /\ e = [k |-> e.k, x |-> e.x]
      BY <2>1
    <3>2. PICK u \in Cells(m) : u.i = r - 1 /\ u.j = f.k /\ u.x = f.x /\ f = [k |-> f.k, x |-> f.x]
      BY <2>1
    <3>3. c = u
      BY <2>3, <3>1, <3>2, CellsFacts
    <3> QED
      BY <3>1, <3>2, <3>3
  <2> QED
    BY <2>2, <2>3 DEF IsLine
<1>7. \A r \in 1 .. n : l[r] \in SetToSeqs(S[r]) /\ InOrder(l[r])
  BY <1>3, <1>6, ByColumnFacts
<1>8. /\ t \in Matrices
      /\ \A c : c \in Cells(t) <=>
           \E r \in 1 .. n : \E e \in S[r] : c = [i |-> r - 1, j |-> e.k, x |-> e.x]
  <2>1. ListsRows(l, S, n, w)
    BY <1>4, <1>6, <1>7 DEF ListsRows
  <2> QED
    BY <1>5, <2>1, ListedMatrix DEF Csr
<1>9. ASSUME NEW c, c \in Cells(t) PROVE c \in Cells(m)
  <2>1. PICK r \in 1 .. n : \E e \in S[r] : c = [i |-> r - 1, j |-> e.k, x |-> e.x]
    BY <1>8, <1>9
  <2>2. PICK e \in S[r] : c = [i |-> r - 1, j |-> e.k, x |-> e.x]
    BY <2>1
  <2>3. PICK u \in Cells(m) : u.i = r - 1 /\ e = [k |-> u.j, x |-> u.x]
    BY <1>2
  <2>4. u = [i |-> u.i, j |-> u.j, x |-> u.x]
    BY CellsFacts
  <2>5. c = u
    BY <2>2, <2>3, <2>4
  <2> QED
    BY <2>5
<1>10. ASSUME NEW c \in Cells(m) PROVE c \in Cells(t)
  <2>1. c.i \in 0 .. n - 1 /\ c = [i |-> c.i, j |-> c.j, x |-> c.x]
    BY <1>1, CellsFacts
  <2>2. PICK r \in 1 .. n : c.i = r - 1
    <3>1. c.i + 1 \in 1 .. n /\ c.i = (c.i + 1) - 1
      BY <2>1
    <3> QED
      BY <3>1
  <2>3. PICK e : e = [k |-> c.j, x |-> c.x]
    OBVIOUS
  <2>4. e \in S[r]
    BY <1>2, <2>2, <2>3
  <2>5. c = [i |-> r - 1, j |-> e.k, x |-> e.x]
    BY <2>1, <2>2, <2>3
  <2> QED
    BY <1>8, <2>4, <2>5
<1>11. Cells(t) = Cells(m)
  BY <1>9, <1>10
<1>12. /\ t.fmt = "csr" /\ t.nrows = n /\ t.ncols = w /\ t.dtype = d /\ t.lines = l
  BY <1>5
<1> QED
  BY <1>1, <1>4, <1>5, <1>7, <1>8, <1>11, <1>12 DEF Same

-----------------------------------------------------------------------------
(* The product *)

\* The terms of one cell are finitely many, and so their sum is an integer.
LEMMA SumIsInt ==
  ASSUME NEW left \in Matrices, NEW right \in Matrices, NEW rw, NEW k
  PROVE  SumOfTerms(Terms(Cells(left), Cells(right), rw, k)) \in Int
<1>1. PICK w \in Nat : w = left.ncols
  BY MatrixFacts
<1> PICK x, y : x = Cells(left) /\ y = Cells(right)
  OBVIOUS
<1>2. /\ \A c \in x : c.j \in 0 .. w - 1 /\ c.x \in Int
      /\ \A c, d \in x : c.i = d.i /\ c.j = d.j => c = d
      /\ \A c \in y : c.x \in Int
      /\ \A c, d \in y : c.i = d.i /\ c.j = d.j => c = d
  BY <1>1, CellsFacts
<1>3. PICK S : S = Terms(x, y, rw, k)
  OBVIOUS
<1>4. ASSUME NEW t \in S
      PROVE  /\ t[1] \in x /\ t[2] \in y /\ t = <<t[1], t[2]>>
             /\ t[1].i = rw /\ t[1].j = t[2].i /\ t[2].j = k
  BY <1>3 DEF Terms
<1>5. IsFiniteSet(S)
  <2>1. PICK key : key = [t \in S |-> t[1].j] /\ key \in [S -> 0 .. w - 1]
    <3>1. [t \in S |-> t[1].j] \in [S -> 0 .. w - 1]
      BY <1>2, <1>4
    <3> QED
      BY <3>1
  <2>2. ASSUME NEW t \in S, NEW u \in S, key[t] = key[u]
        PROVE  t = u
    <3>1. t[1].j = u[1].j
      BY <2>1, <2>2
    <3>2. t[1] = u[1]
      BY <1>2, <1>4, <3>1
    <3>3. t[2] = u[2]
      BY <1>2, <1>4, <3>1
    <3> QED
      BY <1>4, <3>2, <3>3
  <2> QED
    <3>1. \A t, u \in S : key[t] = key[u] => t = u
      BY <2>2
    <3> QED
      BY <2>1, <3>1, KeyedFinite
<1>6. PICK weight : weight = [t \in S |-> t[1].x * t[2].x] /\ weight \in [S -> Int]
  <2>1. ASSUME NEW t \in S PROVE t[1].x * t[2].x \in Int
    <3>1. t[1].x \in Int /\ t[2].x \in Int
      BY <1>2, <1>4
    <3> QED
      BY <3>1
  <2>2. [t \in S |-> t[1].x * t[2].x] \in [S -> Int]
    BY <2>1
  <2> QED
    BY <2>2
<1>7. PICK pick : pick = [s \in SUBSET S |-> CHOOSE t \in s : TRUE]
  OBVIOUS
<1>8. \A s \in SUBSET S : s # {} => pick[s] \in s
  BY <1>7
<1> DEFINE Folds(g) ==
             g = [s \in SUBSET S |->
                    IF s = {} THEN 0
                    ELSE LET t == CHOOSE t \in s : TRUE IN t[1].x * t[2].x + g[s \ {t}]]
<1>9. SumOfTerms(S) = (CHOOSE g : Folds(g))[S]
  BY DEF SumOfTerms, MapThenSumSet, MapThenFoldSet
<1>10. \A g : IsSetTotal(g, S, pick, weight) <=> Folds(g)
  <2> SUFFICES ASSUME NEW g PROVE IsSetTotal(g, S, pick, weight) <=> Folds(g)
    OBVIOUS
  <2>1. ASSUME NEW s \in SUBSET S
        PROVE  (IF s = {} THEN 0 ELSE weight[pick[s]] + g[s \ {pick[s]}])
               = IF s = {} THEN 0
                 ELSE LET t == CHOOSE t \in s : TRUE IN t[1].x * t[2].x + g[s \ {t}]
    BY <1>6, <1>7, <1>8
  <2> QED
    BY <2>1 DEF IsSetTotal
<1> HIDE DEF Folds
<1>11. /\ \E g : IsSetTotal(g, S, pick, weight)
       /\ \A g : IsSetTotal(g, S, pick, weight) => g[S] \in Int
  BY <1>5, <1>6, <1>8, SetTotal
<1>12. (CHOOSE g : Folds(g))[S] \in Int
  BY <1>10, <1>11
<1> QED
  BY <1>1, <1>3, <1>9, <1>12

\* A row of the product: an even value at each column that a term reaches.
LEMMA ProductRowFacts ==
  ASSUME NEW left \in Matrices, NEW right \in Matrices, NEW rw,
         NEW R, R = Row(Cells(left), Cells(right), rw)
  PROVE  /\ \A c \in R : /\ c.idx \in 0 .. right.ncols - 1
                         /\ \E s \in Int : c = [idx |-> c.idx, val |-> 2 * s]
         /\ \A c, d \in R : c.idx = d.idx => c = d
         /\ \A k : (\E c \in R : c.idx = k) <=>
              \E t \in Cells(left), d \in Cells(right) : t.i = rw /\ t.j = d.i /\ d.j = k
<1> PICK x, y : x = Cells(left) /\ y = Cells(right)
  OBVIOUS
<1> DEFINE S(k) == SumOfTerms(Terms(x, y, rw, k))
           Touched == {c.j : c \in {d \in y : \E t \in x : t.i = rw /\ t.j = d.i}}
<1>1. R = {[idx |-> k, val |-> 2 * S(k)] : k \in Touched}
  BY DEF Row
<1>2. \A k : k \in Touched <=> \E t \in x, d \in y : t.i = rw /\ t.j = d.i /\ d.j = k
  OBVIOUS
<1>3. \A k \in Touched : k \in 0 .. right.ncols - 1
  BY <1>2, CellsFacts
<1>4. \A k : S(k) \in Int
  BY SumIsInt
<1> HIDE DEF S, Touched
<1>5. ASSUME NEW c \in R
      PROVE  \E k \in Touched : c.idx = k /\ c = [idx |-> k, val |-> 2 * S(k)]
  <2>1. PICK k \in Touched : c = [idx |-> k, val |-> 2 * S(k)]
    BY <1>1
  <2> QED
    BY <2>1
<1>6. ASSUME NEW c \in R
      PROVE  /\ c.idx \in 0 .. right.ncols - 1
             /\ \E s \in Int : c = [idx |-> c.idx, val |-> 2 * s]
  <2>1. PICK k \in Touched : c.idx = k /\ c = [idx |-> k, val |-> 2 * S(k)]
    BY <1>5
  <2> QED
    BY <1>3, <1>4, <2>1
<1>7. ASSUME NEW c \in R, NEW d \in R, c.idx = d.idx
      PROVE  c = d
  BY <1>5, <1>7
<1>8. ASSUME NEW k
      PROVE  (\E c \in R : c.idx = k) <=> k \in Touched
  <2>1. ASSUME k \in Touched PROVE \E c \in R : c.idx = k
    <3>1. PICK c : c = [idx |-> k, val |-> 2 * S(k)]
      OBVIOUS
    <3>2. c \in R /\ c.idx = k
      BY <1>1, <2>1, <3>1
    <3> QED
      BY <3>2
  <2> QED
    BY <1>5, <2>1
<1> QED
  BY <1>2, <1>6, <1>7, <1>8

LEMMA ProductRowIsFinite ==
  ASSUME NEW left \in Matrices, NEW right \in Matrices, NEW rw, NEW n \in Nat, n = right.ncols,
         NEW part \in SUBSET Row(Cells(left), Cells(right), rw)
  PROVE  IsFiniteSet(part) /\ Cardinality(part) \in Nat /\ Cardinality(part) <= n
<1>1. PICK R : R = Row(Cells(left), Cells(right), rw)
  OBVIOUS
<1>2. /\ \A c \in R : c.idx \in 0 .. n - 1
      /\ \A c, d \in R : c.idx = d.idx => c = d
  BY <1>1, ProductRowFacts
<1>3. PICK key : key = [c \in part |-> c.idx] /\ key \in [part -> 0 .. n - 1]
  <2>1. [c \in part |-> c.idx] \in [part -> 0 .. n - 1]
    BY <1>1, <1>2
  <2> QED
    BY <2>1
<1>4. \A c, d \in part : key[c] = key[d] => c = d
  BY <1>1, <1>2, <1>3
<1> QED
  BY <1>3, <1>4, KeyedFinite

Entries(part) == {Entry(c) : c \in part}
EntrySeq(t) == [p \in DOMAIN t |-> Entry(t[p])]

\* The line that lists a part of a row of the product.
LEMMA EntryLine ==
  ASSUME NEW left \in Matrices, NEW right \in Matrices, NEW rw, NEW n \in Nat, n = right.ncols,
         NEW part \in SUBSET Row(Cells(left), Cells(right), rw), NEW t \in SetToSeqs(part),
         NEW S, S = Entries(part), NEW l, l = EntrySeq(t)
  PROVE  /\ IsLine(S, n) /\ l \in SetToSeqs(S)
         /\ {[idx |-> e.k, val |-> 2 * e.x] : e \in S} = part
<1>1. PICK R : R = Row(Cells(left), Cells(right), rw)
  OBVIOUS
<1>2. /\ \A c \in R : /\ c.idx \in 0 .. n - 1
                      /\ \E s \in Int : c = [idx |-> c.idx, val |-> 2 * s]
      /\ \A c, d \in R : c.idx = d.idx => c = d
  BY <1>1, ProductRowFacts
<1>3. ASSUME NEW c \in part
      PROVE  /\ Entry(c).k = c.idx /\ Entry(c) \in Element /\ Entry(c).k < n
             /\ c = [idx |-> Entry(c).k, val |-> 2 * Entry(c).x]
  <2>1. PICK s \in Int, k \in 0 .. n - 1 : c.idx = k /\ c = [idx |-> k, val |-> 2 * s]
    BY <1>1, <1>2
  <2>2. c.val = 2 * s /\ (2 * s) \div 2 = s
    BY <2>1
  <2>3. Entry(c) = [k |-> k, x |-> s]
    BY <2>1, <2>2 DEF Entry
  <2> QED
    BY <2>1, <2>3 DEF Element
<1>4. \A c, d \in part : Entry(c).k = Entry(d).k => c = d
  BY <1>1, <1>2, <1>3
<1>5. \A e : e \in S <=> \E c \in part : e = Entry(c)
  BY DEF Entries
<1>6. IsLine(S, n)
  BY <1>3, <1>4, <1>5 DEF IsLine
<1>7. {[idx |-> e.k, val |-> 2 * e.x] : e \in S} = part
  BY <1>3, <1>5
<1>8. IsFiniteSet(part)
  BY ProductRowIsFinite
<1>9. /\ DOMAIN t = 1 .. Cardinality(part) /\ Cardinality(part) \in Nat
      /\ {t[p] : p \in DOMAIN t} = part
      /\ \A p, q \in DOMAIN t : t[p] = t[q] => p = q
  BY <1>8, ListingFacts
<1>10. \A p \in DOMAIN t : t[p] \in part
  BY <1>9
<1>11. Cardinality(S) = Cardinality(part)
  <2>1. PICK f : f = [c \in part |-> Entry(c)]
    OBVIOUS
  <2>2. f \in Bijection(part, S)
    BY <1>4, <1>5, <2>1 DEF Bijection, Injection, Surjection, IsInjective
  <2> QED
    BY <1>8, <2>2, FS_Bijection DEF ExistsBijection
<1>12. /\ l \in [1 .. Cardinality(S) -> S]
       /\ \A p, q \in 1 .. Cardinality(S) : p # q => l[p] # l[q]
  <2>1. DOMAIN l = 1 .. Cardinality(S) /\ \A p \in DOMAIN t : l[p] = Entry(t[p])
    BY <1>9, <1>11 DEF EntrySeq
  <2>2. \A p \in 1 .. Cardinality(S) : l[p] \in S
    BY <1>5, <1>9, <1>10, <1>11, <2>1
  <2>3. ASSUME NEW p \in 1 .. Cardinality(S), NEW q \in 1 .. Cardinality(S), l[p] = l[q]
        PROVE  p = q
    <3>1. t[p] = t[q]
      BY <1>4, <1>9, <1>10, <1>11, <2>1, <2>3
    <3> QED
      BY <1>9, <1>11, <3>1
  <2>4. l \in [1 .. Cardinality(S) -> S]
    BY <2>1, <2>2 DEF EntrySeq
  <2> QED
    BY <2>3, <2>4
<1> QED
  BY <1>6, <1>7, <1>12 DEF SetToSeqs

EntryLines(t, n) == [r \in 1 .. n |-> EntrySeq(t[r])]

\* t lists a part of each of n rows of the product.
ListsParts(t, part, left, right, n) ==
  \A r \in 1 .. n :
    part[r] \in SUBSET Row(Cells(left), Cells(right), r - 1) /\ t[r] \in SetToSeqs(part[r])

\* A matrix returned with a part of every row of the product.
LEMMA ResultFacts ==
  ASSUME NEW left \in Matrices, NEW right \in Matrices,
         NEW n \in Nat, n = left.nrows, NEW w \in Nat, w = right.ncols, NEW d \in STRING,
         NEW part, NEW t, ListsParts(t, part, left, right, n), NEW l, l = EntryLines(t, n),
         NEW m, m = Csr(n, w, d, l)
  PROVE  m \in Matrices /\ \A r \in 1 .. n : RowOf(m, r - 1) = part[r]
<1>1. PICK S : S = [r \in 1 .. n |-> Entries(part[r])]
  OBVIOUS
<1>2. ASSUME NEW r \in 1 .. n
      PROVE  /\ IsLine(S[r], w) /\ l[r] \in SetToSeqs(S[r])
             /\ {[idx |-> e.k, val |-> 2 * e.x] : e \in S[r]} = part[r]
  <2>1. PICK rw : rw = r - 1
    OBVIOUS
  <2>2. PICK k, s : /\ k = part[r] /\ s = t[r]
                    /\ k \in SUBSET Row(Cells(left), Cells(right), rw) /\ s \in SetToSeqs(k)
    BY <2>1 DEF ListsParts
  <2>3. PICK T : T = Entries(k)
    OBVIOUS
  <2>4. PICK h : h = EntrySeq(s)
    OBVIOUS
  <2>5. IsLine(T, w) /\ h \in SetToSeqs(T) /\ {[idx |-> e.k, val |-> 2 * e.x] : e \in T} = k
    BY <2>2, <2>3, <2>4, EntryLine
  <2>6. S[r] = T /\ l[r] = h
    BY <1>1, <2>2, <2>3, <2>4 DEF EntryLines
  <2> QED
    BY <2>2, <2>5, <2>6
<1>3. ListsRows(l, S, n, w)
  BY <1>2 DEF ListsRows, EntryLines
<1>4. /\ m \in Matrices
      /\ \A c : c \in Cells(m) <=>
           \E r \in 1 .. n : \E e \in S[r] : c = [i |-> r - 1, j |-> e.k, x |-> e.x]
  <2>1. PICK h, o : h = l /\ o = m /\ o = Csr(n, w, d, h) /\ ListsRows(h, S, n, w)
    BY <1>3
  <2>2. /\ o \in Matrices
        /\ \A c : c \in Cells(o) <=>
             \E r \in 1 .. n : \E e \in S[r] : c = [i |-> r - 1, j |-> e.k, x |-> e.x]
    BY <2>1, ListedMatrix
  <2> QED
    BY <2>1, <2>2
<1>5. ASSUME NEW r \in 1 .. n
      PROVE  RowOf(m, r - 1) = {[idx |-> e.k, val |-> 2 * e.x] : e \in S[r]}
  <2>1. ASSUME NEW c \in Cells(m), c.i = r - 1
        PROVE  \E e \in S[r] : c.j = e.k /\ c.x = e.x
    <3>1. PICK u \in 1 .. n : \E e \in S[u] : c = [i |-> u - 1, j |-> e.k, x |-> e.x]
      BY <1>4
    <3>2. PICK e \in S[u] : c = [i |-> u - 1, j |-> e.k, x |-> e.x]
      BY <3>1
    <3>3. u = r
      BY <2>1, <3>2
    <3> QED
      BY <3>2, <3>3
  <2>2. ASSUME NEW e \in S[r]
        PROVE  \E c \in Cells(m) : c.i = r - 1 /\ c.j = e.k /\ c.x = e.x
    <3>1. PICK c : c = [i |-> r - 1, j |-> e.k, x |-> e.x]
      OBVIOUS
    <3>2. c \in Cells(m)
      BY <1>4, <3>1
    <3> QED
      BY <3>1, <3>2
  <2>3. \A z : z \in RowOf(m, r - 1) <=>
          \E c \in Cells(m) : c.i = r - 1 /\ z = [idx |-> c.j, val |-> 2 * c.x]
    BY DEF RowOf
  <2>4. ASSUME NEW z
        PROVE  z \in RowOf(m, r - 1) <=> \E e \in S[r] : z = [idx |-> e.k, val |-> 2 * e.x]
    <3>1. ASSUME z \in RowOf(m, r - 1) PROVE \E e \in S[r] : z = [idx |-> e.k, val |-> 2 * e.x]
      <4>1. PICK c \in Cells(m) : c.i = r - 1 /\ z = [idx |-> c.j, val |-> 2 * c.x]
        BY <2>3, <3>1
      <4>2. PICK e \in S[r] : c.j = e.k /\ c.x = e.x
        BY <2>1, <4>1
      <4> QED
        BY <4>1, <4>2
    <3>2. ASSUME NEW e \in S[r], z = [idx |-> e.k, val |-> 2 * e.x] PROVE z \in RowOf(m, r - 1)
      <4>1. PICK c \in Cells(m) : c.i = r - 1 /\ c.j = e.k /\ c.x = e.x
        BY <2>2
      <4> QED
        BY <2>3, <3>2, <4>1
    <3> QED
      BY <3>1, <3>2
  <2> QED
    BY <2>4
<1> QED
  BY <1>2, <1>4, <1>5

\* A sequence read backwards, each value where it occurs first.
LEMMA NewestFirstFacts ==
  ASSUME NEW s, NEW n \in Nat, s \in [1 .. n -> Nat], NEW T,
         \A x : x \in T <=> \E p \in 1 .. n : s[p] = x
  PROVE  IsFiniteSet(T) /\ NewestFirst(s) \in SetToSeqs(T)
<1>1. IsFiniteSet(T)
  <2>1. s \in Surjection(1 .. n, T)
    BY DEF Surjection
  <2> QED
    BY <2>1, FS_Interval, FS_Surjection
<1>2. ASSUME NEW x \in T
      PROVE  First(s, x) \in 1 .. n /\ s[First(s, x)] = x
  <2>1. PICK P : P = {n + 1 - p : p \in {q \in 1 .. n : s[q] = x}}
    OBVIOUS
  <2>2. P \in SUBSET (1 .. n) /\ P # {}
    BY <2>1
  <2>3. PICK y \in P : \A z \in P : y >= z
    BY <2>2, MaxExists
  <2>4. PICK p \in 1 .. n : s[p] = x /\ y = n + 1 - p
    BY <2>1
  <2>5. ASSUME NEW q \in 1 .. p - 1 PROVE s[q] # x
    <3>1. q \in 1 .. n
      OBVIOUS
    <3>2. s[q] = x => n + 1 - q \in P
      BY <2>1, <3>1
    <3> QED
      BY <2>3, <2>4, <3>1, <3>2
  <2>6. p \in DOMAIN s /\ DOMAIN s = 1 .. n
    OBVIOUS
  <2>7. \E u \in DOMAIN s : s[u] = x /\ \A q \in 1 .. u - 1 : s[q] # x
    BY <2>4, <2>5, <2>6
  <2> QED
    BY <2>6, <2>7 DEF First
<1>3. PICK key \in [T -> Int] : key = [x \in T |-> - First(s, x)]
  <2>1. [x \in T |-> - First(s, x)] \in [T -> Int]
    BY <1>2
  <2> QED
    BY <2>1
<1>4. \A x, y \in T : key[x] = key[y] => x = y
  <2> SUFFICES ASSUME NEW x \in T, NEW y \in T, key[x] = key[y] PROVE x = y
    OBVIOUS
  <2>1. First(s, x) = First(s, y)
    BY <1>2, <1>3
  <2> QED
    BY <1>2, <2>1
<1>5. PICK t \in SetToSeqs(T) : \A p, q \in DOMAIN t : p < q => key[t[p]] < key[t[q]]
  BY <1>1, <1>4, SortedExists, Zenon
<1>6. \A p \in DOMAIN t : t[p] \in T
  BY <1>1, <1>5, ListingFacts
<1>7. \A p, q \in DOMAIN t : p < q => First(s, t[p]) > First(s, t[q])
  <2> SUFFICES ASSUME NEW p \in DOMAIN t, NEW q \in DOMAIN t, p < q
               PROVE  First(s, t[p]) > First(s, t[q])
    OBVIOUS
  <2>1. key[t[p]] < key[t[q]] /\ t[p] \in T /\ t[q] \in T
    BY <1>5, <1>6
  <2>2. PICK x \in T, y \in T : x = t[p] /\ y = t[q] /\ - First(s, x) < - First(s, y)
    BY <1>3, <2>1
  <2>3. First(s, x) \in Int /\ First(s, y) \in Int
    BY <1>2
  <2> QED
    BY <2>2, <2>3
<1>8. T = {s[p] : p \in DOMAIN s}
  OBVIOUS
<1> QED
  BY <1>1, <1>5, <1>7, <1>8 DEF NewestFirst

-----------------------------------------------------------------------------
(* The walk over B *)

LEMMA CursorFacts ==
  ASSUME NEW n \in Nat, NEW line \in Seq(Element), Len(line) = n,
         NEW c \in Nat, ChunkWidth \in Nat,
         NEW to, to = c * ChunkWidth, NEW cur, cur = Cursor(line, c)
  PROVE  /\ to \in Nat /\ cur \in 1 .. n + 1 /\ (cur <= n => line[cur].k >= to)
         /\ \A q \in 1 .. cur - 1 : line[q].k < to
<1>1. to \in Nat
  OBVIOUS
<1>2. \A p \in 1 .. n : line[p].k \in Nat
  <2>1. DOMAIN line = 1 .. n /\ \A p \in 1 .. n : line[p] \in Element
    BY LenProperties, ElementOfSeq
  <2> QED
    BY <2>1 DEF Element
<1>3. PICK S : S = {p \in 1 .. n + 1 : p <= n => line[p].k >= to}
  OBVIOUS
<1>4. n + 1 \in S /\ S \in SUBSET (0 .. n + 1)
  BY <1>3
<1>5. PICK p \in S : \A q \in S : p <= q
  <2>1. n + 1 \in Nat /\ S # {}
    BY <1>4
  <2> QED
    BY <1>4, <2>1, LeastExists
<1>6. /\ p \in 1 .. n + 1 /\ (p <= n => line[p].k >= to)
      /\ \A q \in 1 .. p - 1 : line[q].k < to
  <2>1. p \in 1 .. n + 1 /\ (p <= n => line[p].k >= to)
    BY <1>3
  <2>2. ASSUME NEW q \in 1 .. p - 1 PROVE line[q].k < to
    <3>1. q \in 1 .. n /\ ~ (p <= q)
      BY <2>1
    <3>2. ~ (line[q].k >= to)
      BY <1>3, <1>5, <3>1
    <3> QED
      BY <1>1, <1>2, <3>1, <3>2
  <2> QED
    BY <2>1, <2>2
<1>7. cur = CHOOSE u \in 1 .. n + 1 :
              (u <= n => line[u].k >= to) /\ \A q \in 1 .. u - 1 : line[q].k < to
  BY DEF Cursor
<1> QED
  BY <1>1, <1>6, <1>7

\* What the chunks of a walk come to.
LEMMA WalkFacts ==
  ASSUME B \in Matrices, ChunkWidth \in Nat \ {0}
  PROVE  /\ NChunks \in Nat /\ NChunks * ChunkWidth >= B.ncols
<1>1. PICK w \in Nat \ {0} : w = ChunkWidth
  OBVIOUS
<1>2. PICK n \in Nat : n = B.ncols
  BY MatrixFacts
<1>3. PICK x : x = n + w - 1 /\ x \in Nat
  BY <1>1, <1>2
<1>4. x \div w \in Nat /\ x < (x \div w + 1) * w
  BY <1>1, <1>3
<1>5. PICK q \in Nat : q = x \div w
  BY <1>4
<1>6. (q + 1) * w = q * w + w /\ q * w \in Int
  BY <1>1, <1>5
<1>7. q * w >= n
  BY <1>1, <1>3, <1>4, <1>5, <1>6
<1>8. NChunks = q
  BY <1>1, <1>2, <1>3, <1>5 DEF NChunks
<1> QED
  BY <1>1, <1>2, <1>5, <1>7, <1>8

\* Where the chunks begin and end in a row of B, whatever the row's order.
LEMMA SegmentsCover ==
  ASSUME B \in Matrices, ChunkWidth \in Nat \ {0},
         NEW line \in Seq(Element), NEW n \in Nat, Len(line) = n,
         \A p \in 1 .. n : line[p].k < B.ncols, NEW p
  PROVE  p \in 1 .. n <=> \E c \in 1 .. NChunks : p \in Segment(line, c)
<1>1. PICK w \in Nat \ {0}, m \in Nat, z \in Nat : w = ChunkWidth /\ m = NChunks /\ z = B.ncols
  BY WalkFacts, MatrixFacts
<1>2. \A u \in 1 .. n : line[u].k \in Nat /\ line[u].k < z
  <2>1. DOMAIN line = 1 .. n /\ \A u \in 1 .. n : line[u] \in Element
    BY LenProperties, ElementOfSeq
  <2> QED
    BY <1>1, <2>1 DEF Element
<1> DEFINE begins(c) == Cursor(line, c)
<1>3. ASSUME NEW c \in Nat
      PROVE  /\ c * w \in Nat /\ begins(c) \in 1 .. n + 1
             /\ begins(c) <= n => line[begins(c)].k >= c * w
             /\ \A q \in 1 .. begins(c) - 1 : line[q].k < c * w
  BY <1>1, CursorFacts
<1>4. begins(0) = 1
  <2>1. /\ begins(0) \in 1 .. n + 1
        /\ \A q \in 1 .. begins(0) - 1 : line[q].k < 0
    <3>1. 0 * w = 0
      OBVIOUS
    <3> QED
      BY <1>3, <3>1
  <2>2. begins(0) # 1 => 1 \in 1 .. begins(0) - 1 /\ 1 \in 1 .. n
    BY <2>1
  <2> QED
    BY <1>2, <2>1, <2>2
<1>5. begins(m) = n + 1
  <2>1. m * w >= z
    BY <1>1, WalkFacts
  <2>2. PICK u, t : u = begins(m) /\ t = m * w
    OBVIOUS
  <2>3. t \in Nat /\ t >= z /\ u \in 1 .. n + 1 /\ (u <= n => line[u].k >= t)
    BY <1>3, <2>1, <2>2
  <2>4. ASSUME u <= n PROVE FALSE
    <3>1. u \in 1 .. n /\ line[u].k >= t
      BY <2>3, <2>4
    <3>2. line[u].k \in Nat /\ line[u].k < z
      BY <1>2, <3>1
    <3> QED
      BY <2>3, <3>1, <3>2
  <2> QED
    BY <2>2, <2>3, <2>4
<1>6. \A c \in 1 .. m : Segment(line, c) = begins(c - 1) .. begins(c) - 1
  BY DEF Segment
<1> HIDE DEF begins
<1>7. ASSUME p \in 1 .. n PROVE \E c \in 1 .. m : p \in Segment(line, c)
  <2>1. PICK S : S = {c \in 1 .. m : begins(c) > p}
    OBVIOUS
  <2>2. m \in S
    <3>1. m # 0
      BY <1>4, <1>5, <1>7
    <3> QED
      BY <1>5, <1>7, <2>1, <3>1
  <2>3. PICK c \in S : \A d \in S : c <= d
    <3>1. S \in SUBSET (0 .. m) /\ S # {}
      BY <2>1, <2>2
    <3> QED
      BY <3>1, LeastExists
  <2>4. c \in 1 .. m /\ begins(c) > p /\ c - 1 \in Nat
    BY <2>1
  <2>5. begins(c - 1) <= p
    <3>1. CASE c = 1
      BY <1>4, <1>7, <3>1
    <3>2. CASE c # 1
      <4>1. c - 1 \in 1 .. m /\ c - 1 \notin S
        BY <2>3, <2>4, <3>2
      <4>2. begins(c - 1) \in Int
        BY <1>3, <2>4
      <4> QED
        BY <1>7, <2>1, <4>1, <4>2
    <3> QED
      BY <3>1, <3>2
  <2>6. begins(c) \in Int /\ begins(c - 1) \in Int
    BY <1>3, <2>4
  <2>7. p \in Segment(line, c)
    BY <1>6, <1>7, <2>4, <2>5, <2>6
  <2> QED
    BY <2>4, <2>7
<1>8. ASSUME NEW c \in 1 .. m, p \in Segment(line, c) PROVE p \in 1 .. n
  <2>1. c \in Nat /\ c - 1 \in Nat
    OBVIOUS
  <2>2. begins(c) \in 1 .. n + 1 /\ begins(c - 1) \in 1 .. n + 1
    BY <1>3, <2>1
  <2> QED
    BY <1>6, <1>8, <2>2
<1> QED
  BY <1>1, <1>7, <1>8

\* A chunk that meets a column before it follows, in the row, one at or past it.
LEMMA UnderflowFacts ==
  ASSUME B \in Matrices, ChunkWidth \in Nat \ {0},
         NEW line \in Seq(Element), NEW n \in Nat, Len(line) = n,
         \A p \in 1 .. n : line[p].k < B.ncols, Underflows(line)
  PROVE  ~ OneChunk /\ ~ InOrder(line)
<1>1. PICK w \in Nat \ {0}, m \in Nat, z \in Nat : w = ChunkWidth /\ m = NChunks /\ z = B.ncols
  BY WalkFacts, MatrixFacts
<1>2. DOMAIN line = 1 .. n /\ \A u \in 1 .. n : line[u].k \in Nat /\ line[u].k < z
  <2>1. DOMAIN line = 1 .. n /\ \A u \in 1 .. n : line[u] \in Element
    BY LenProperties, ElementOfSeq
  <2> QED
    BY <1>1, <2>1 DEF Element
<1>3. PICK c \in 1 .. m : \E p \in Segment(line, c) : line[p].k < (c - 1) * w
  BY <1>1 DEF Underflows
<1>4. PICK p \in Segment(line, c) : line[p].k < (c - 1) * w
  BY <1>3
<1>5. PICK d \in Nat, to \in Nat : d = c - 1 /\ to = d * w
  <2>1. c - 1 \in Nat /\ (c - 1) * w \in Nat
    OBVIOUS
  <2> QED
    BY <2>1
<1>6. PICK q : q = Cursor(line, d)
  OBVIOUS
<1>7. q \in 1 .. n + 1 /\ (q <= n => line[q].k >= to)
  BY <1>1, <1>5, <1>6, CursorFacts
<1>8. Cursor(line, c) \in 1 .. n + 1
  <2>1. c \in Nat
    OBVIOUS
  <2> QED
    BY <1>1, <2>1, CursorFacts
<1>9. p \in 1 .. n /\ q <= p
  BY <1>4, <1>5, <1>6, <1>7, <1>8 DEF Segment
<1>10. line[q].k >= to /\ q \in 1 .. n /\ line[p].k < to
  BY <1>4, <1>5, <1>7, <1>9
<1>11. q < p
  BY <1>2, <1>9, <1>10
<1>12. ~ InOrder(line)
  <2>1. PICK v, u : v = line[q].k /\ u = line[p].k
    OBVIOUS
  <2>2. v \in Nat /\ u \in Nat /\ v >= to /\ u < to
    BY <1>2, <1>9, <1>10, <2>1
  <2>3. ~ (line[q].k < line[p].k)
    BY <2>1, <2>2
  <2>4. q \in DOMAIN line /\ p \in DOMAIN line
    BY <1>2, <1>9, <1>10
  <2> QED
    BY <1>11, <2>3, <2>4 DEF InOrder
<1>13. ~ OneChunk
  <2>1. to > 0
    BY <1>2, <1>9, <1>10
  <2>2. d >= 1
    BY <1>5, <2>1
  <2>3. d * w >= w
    <3>1. PICK e \in Nat : d = e + 1
      <4>1. d - 1 \in Nat /\ d = (d - 1) + 1
        BY <2>2
      <4> QED
        BY <4>1
    <3>2. (e + 1) * w = e * w + w /\ e * w \in Nat
      OBVIOUS
    <3> QED
      BY <3>1, <3>2
  <2>4. PICK v : v = line[q].k
    OBVIOUS
  <2>5. v < z /\ v \in Nat /\ v >= to
    BY <1>2, <1>10, <2>4
  <2>6. ~ (w >= z)
    BY <1>5, <2>3, <2>5
  <2> QED
    BY <1>1, <2>6 DEF OneChunk
<1> QED
  BY <1>12, <1>13

\* The walk reads every entry of B, whatever the order of its rows.
LEMMA WalkReadsAll ==
  ASSUME B \in Matrices, B.fmt = "csr", ChunkWidth \in Nat \ {0}
  PROVE  ReadCells = Cells(B)
<1>1. PICK l, n, w : /\ l = B.lines /\ n = B.nrows /\ w = B.ncols /\ n \in Nat /\ w \in Nat
                     /\ AreLines(l, n, w)
  BY MatrixFacts
<1>2. DOMAIN l = 1 .. n
  BY <1>1, LineFacts
<1>3. ASSUME NEW r \in 1 .. n, NEW p
      PROVE  p \in DOMAIN l[r] <=> \E c \in 1 .. NChunks : p \in Segment(l[r], c)
  <2>1. PICK line, m : line = l[r] /\ m = Len(line)
    OBVIOUS
  <2>2. /\ line \in Seq(Element) /\ m \in Nat /\ DOMAIN line = 1 .. m
        /\ \A q \in 1 .. m : line[q].k < B.ncols
    BY <1>1, <2>1, LineFacts DEF AreLines
  <2>3. p \in 1 .. m <=> \E c \in 1 .. NChunks : p \in Segment(line, c)
    BY <2>1, <2>2, SegmentsCover
  <2> QED
    BY <2>1, <2>2, <2>3
<1>4. \A r, p : CellOf(B, r, p) = [i |-> r - 1, j |-> B.lines[r][p].k, x |-> B.lines[r][p].x]
  BY DEF CellOf
<1>5. ASSUME NEW c
      PROVE  c \in ReadCells <=>
               \E r \in 1 .. n : \E p \in UNION {Segment(l[r], d) : d \in 1 .. NChunks} :
                 c = [i |-> r - 1, j |-> B.lines[r][p].k, x |-> B.lines[r][p].x]
  BY <1>1, <1>2 DEF ReadCells
<1>6. ASSUME NEW c
      PROVE  c \in Cells(B) <=> \E r \in 1 .. n : \E p \in DOMAIN l[r] : c = CellOf(B, r, p)
  BY <1>1, <1>2, CellsAre
<1>7. ASSUME NEW r \in 1 .. n
      PROVE  UNION {Segment(l[r], d) : d \in 1 .. NChunks} = DOMAIN l[r]
  BY <1>3
<1>8. ASSUME NEW c
      PROVE  c \in ReadCells <=> c \in Cells(B)
  <2>1. c \in ReadCells <=>
          \E r \in 1 .. n : \E p \in DOMAIN l[r] :
            c = [i |-> r - 1, j |-> B.lines[r][p].k, x |-> B.lines[r][p].x]
    BY <1>5, <1>7
  <2> QED
    BY <1>4, <1>6, <2>1
<1> QED
  BY <1>8

\* A panic needs a row out of order, cut into chunks.
LEMMA PanicFacts ==
  ASSUME A \in Matrices, B \in Matrices, B.fmt = "csr", A.ncols = B.nrows,
         ChunkWidth \in Nat \ {0}, Panics
  PROVE  ~ OneChunk /\ \E n \in DOMAIN B.lines : ~ InOrder(B.lines[n])
<1>1. PICK l, n, w : /\ l = B.lines /\ n = B.nrows /\ w = B.ncols /\ n \in Nat /\ w \in Nat
                     /\ AreLines(l, n, w)
  BY MatrixFacts
<1>2. PICK c \in Cells(A) : Underflows(l[c.j + 1])
  BY <1>1 DEF Panics
<1>3. c.j \in 0 .. n - 1
  BY <1>1, CellsFacts
<1>4. PICK r \in 1 .. n : r = c.j + 1
  <2>1. PICK j \in 0 .. n - 1 : j = c.j
    BY <1>3
  <2>2. j + 1 \in 1 .. n
    BY <1>1
  <2> QED
    BY <2>1, <2>2
<1>5. PICK line, m : line = l[r] /\ m = Len(line)
  OBVIOUS
<1>6. /\ line \in Seq(Element) /\ m \in Nat /\ r \in DOMAIN l
      /\ \A q \in 1 .. m : line[q].k < B.ncols
  BY <1>1, <1>5, LineFacts DEF AreLines
<1>7. ~ OneChunk /\ ~ InOrder(line)
  BY <1>2, <1>4, <1>5, <1>6, UnderflowFacts
<1> QED
  BY <1>1, <1>5, <1>6, <1>7

-----------------------------------------------------------------------------
(* Selections *)

Above(S, h) == {c \in S : c.val > h}
Best(part, S, n, h) ==
  /\ part \subseteq Above(S, h)
  /\ part = Above(S, h) \/ Cardinality(part) = n
  /\ Cardinality(part) <= n
  /\ \A k \in part, s \in Above(S, h) \ part : k.val >= s.val

\* The threshold of the kernels.
Bound(h) == IF h = None THEN MinValue ELSE h

\* The thresholds a result may have been selected with.
Thresholds(given, m) ==
  IF given = None THEN {MinValue}
  ELSE IF IsInt(m) THEN {given, given + 1} ELSE {given}

\* What a selection of a row is.
LEMMA SelectedFacts ==
  ASSUME NEW part, NEW R, NEW n, NEW h, NEW m
  PROVE  Selected(part, R, n, h, m) <=>
           \E zeros \in SUBSET ZerosOf(R, m) : Best(part, R \ zeros, n, h)
<1>1. ASSUME NEW top, NEW t, NEW S
      PROVE  Selection(top, t)!IsTopN(part, S) <=> Best(part, S, top, t)
  <2>1. Selection(top, t)!Cardinality(part) = Cardinality(part)
    BY DEF Selection!Cardinality, Cardinality
  <2> QED
    BY <2>1 DEF Selection!IsTopN, Selection!Eligible, Best, Above
<1> QED
  BY <1>1 DEF Selected

\* The caller's number of columns and threshold select what the core's do.
LEMMA OptionsSelect ==
  ASSUME NEW left \in Matrices, NEW right \in Matrices, NEW rw, NEW w \in Nat, w = right.ncols,
         NEW R, R = Row(Cells(left), Cells(right), rw),
         NEW n \in Nat, NEW given \in Int \cup {None},
         NEW top, top = Least(n, w), NEW h, h = Threshold(left, given),
         NEW part, Selected(part, R, top, Bound(h), left)
  PROVE  \E t \in Thresholds(given, left) : Selected(part, R, n, t, left)
<1>1. PICK zeros \in SUBSET ZerosOf(R, left) :
        Best(part, R \ zeros, top, IF h = None THEN MinValue ELSE h)
  BY SelectedFacts DEF Bound
<1>2. PICK S : S = R \ zeros
  OBVIOUS
<1>3. /\ S \in SUBSET R /\ IsFiniteSet(S) /\ Cardinality(S) \in Nat /\ Cardinality(S) <= w
      /\ \A c \in S : \E s \in Int : c.val = 2 * s
  <2>1. S \in SUBSET R
    BY <1>2
  <2>2. \A c \in S : \E s \in Int : c = [idx |-> c.idx, val |-> 2 * s]
    BY <2>1, ProductRowFacts
  <2> QED
    BY <2>1, <2>2, ProductRowIsFinite
<1>4. ASSUME NEW t, Best(part, S, top, t)
      PROVE  Best(part, S, n, t)
  <2>1. part \subseteq Above(S, t) /\ Above(S, t) \subseteq S
    BY <1>4 DEF Best, Above
  <2>2. CASE n <= w
    BY <1>4, <2>2 DEF Least, Best
  <2>3. CASE n > w
    <3>1. top = w
      BY <2>3 DEF Least
    <3>2. IsFiniteSet(part) /\ Cardinality(part) \in Nat /\ Cardinality(part) <= Cardinality(S)
      BY <1>3, <2>1, FS_Subset, FS_CardinalityType
    <3>3. Cardinality(part) = w => part = S
      BY <1>3, <2>1, <3>2, FS_Subset
    <3>4. part = Above(S, t)
      BY <1>4, <2>1, <3>1, <3>3 DEF Best
    <3> QED
      BY <1>3, <1>4, <2>3, <3>2, <3>4 DEF Best
  <2> QED
    BY <2>2, <2>3
<1>5. ASSUME NEW t, Best(part, S, top, t)
      PROVE  Selected(part, R, n, t, left)
  <2>1. Best(part, S, n, t)
    BY <1>4, <1>5
  <2> QED
    BY <1>2, <2>1, SelectedFacts
<1>6. CASE given = None \/ ~ IsInt(left)
  <2>1. h = given
    BY <1>6 DEF Threshold
  <2> QED
    BY <1>1, <1>2, <1>5, <1>6, <2>1 DEF Thresholds
<1>7. CASE given # None /\ IsInt(left)
  <2>1. PICK g \in Int : g = given
    BY <1>7
  <2>2. h = Rint(g) /\ h \in Int /\ h # None
    <3>1. Rint(g) \in Int
      BY DEF Rint
    <3> QED
      BY <1>7, <2>1, <3>1, ApiAssumption DEF Threshold
  <2>3. Best(part, S, top, h)
    BY <1>1, <1>2, <2>2
  <2>4. h \in {g, g + 1} \/ (h = g - 1 /\ g % 2 # 0)
    BY <2>2 DEF Rint
  <2>5. CASE h \in {g, g + 1}
    BY <1>5, <1>7, <2>1, <2>3, <2>5 DEF Thresholds
  <2>6. CASE h = g - 1 /\ g % 2 # 0
    <3>1. \A c \in S : c.val > g - 1 <=> c.val > g
      <4> TAKE c \in S
      <4>1. PICK s \in Int : c.val = 2 * s
        BY <1>3
      <4>2. 2 * s # g
        BY <2>6
      <4> QED
        BY <4>1, <4>2
    <3>2. Above(S, h) = Above(S, g)
      BY <2>6, <3>1 DEF Above
    <3>3. Best(part, S, top, g)
      BY <2>3, <3>2 DEF Best
    <3> QED
      BY <1>5, <1>7, <2>1, <3>3 DEF Thresholds
  <2> QED
    BY <2>4, <2>5, <2>6
<1> QED
  BY <1>6, <1>7

\* A row whose sums are all above the least value, all kept.
LEMMA AllSelected ==
  ASSUME NEW left \in Matrices, NEW right \in Matrices, NEW rw, NEW w \in Nat, w = right.ncols,
         NEW R, R = Row(Cells(left), Cells(right), rw), NEW n \in Nat, w <= n,
         \A c \in R : c.val > MinValue
  PROVE  Selected(R, R, n, MinValue, left)
<1>1. R \ {} = R /\ Above(R, MinValue) = R /\ {} \in SUBSET ZerosOf(R, left)
  BY DEF Above
<1>2. Cardinality(R) \in Nat /\ Cardinality(R) <= w
  BY ProductRowIsFinite
<1>3. Best(R, R \ {}, n, MinValue)
  BY <1>1, <1>2 DEF Best
<1> QED
  BY <1>1, <1>3, SelectedFacts

-----------------------------------------------------------------------------
(* sp_matmul *)

\* The touched columns of a row are those of the row of the product.
LEMMA TouchesFacts ==
  ASSUME A \in Matrices, B \in Matrices, A.fmt = "csr", B.fmt = "csr", A.ncols = B.nrows,
         NEW r \in 1 .. A.nrows, NEW R, R = Row(Cells(A), Cells(B), r - 1)
  PROVE  /\ Touches(r) \in Seq(Nat)
         /\ \A x : Occurs(Touches(r), x) <=> \E c \in R : c.idx = x
<1>1. PICK l, n, m, w : /\ l = B.lines /\ n = B.nrows /\ m = A.nrows /\ w = B.ncols
                        /\ n \in Nat /\ m \in Nat /\ w \in Nat
                        /\ AreLines(l, n, w) /\ AreLines(A.lines, m, n)
  BY MatrixFacts
<1>2. DOMAIN l = 1 .. n /\ DOMAIN A.lines = 1 .. m
  BY <1>1, LineFacts
<1>3. PICK row, z : row = A.lines[r] /\ z = Len(row)
  OBVIOUS
<1>4. z \in Nat /\ DOMAIN row = 1 .. z /\ \A p \in 1 .. z : row[p].k \in 0 .. n - 1
  BY <1>1, <1>3, LineFacts, Zenon
<1>5. ASSUME NEW p \in 1 .. z
      PROVE  row[p].k + 1 \in 1 .. n /\ row[p].k \in Int
  <2>1. PICK k \in 0 .. n - 1 : k = row[p].k
    BY <1>4
  <2>2. k + 1 \in 1 .. n
    BY <1>1
  <2> QED
    BY <2>1, <2>2
<1>6. PICK f : f = [p \in 1 .. z |-> [q \in DOMAIN l[row[p].k + 1] |-> l[row[p].k + 1][q].k]]
  OBVIOUS
<1>7. Touches(r) = FlattenSeq(f)
  BY <1>1, <1>3, <1>4, <1>6 DEF Touches
<1>8. ASSUME NEW s \in 1 .. n
      PROVE  /\ DOMAIN l[s] = 1 .. Len(l[s]) /\ Len(l[s]) \in Nat
             /\ \A q \in 1 .. Len(l[s]) : l[s][q].k \in Nat
  <2>1. /\ DOMAIN l[s] = 1 .. Len(l[s]) /\ Len(l[s]) \in Nat
        /\ \A q \in 1 .. Len(l[s]) : l[s][q] \in Element
    BY <1>1, LineFacts, Zenon
  <2> QED
    BY <2>1 DEF Element
<1>9. ASSUME NEW p \in 1 .. z
      PROVE  /\ f[p] \in Seq(Nat) /\ DOMAIN f[p] = DOMAIN l[row[p].k + 1]
             /\ 1 .. Len(f[p]) = DOMAIN f[p]
             /\ \A q \in DOMAIN f[p] : f[p][q] = l[row[p].k + 1][q].k
  <2>1. PICK s \in 1 .. n : s = row[p].k + 1
    BY <1>5
  <2>2. PICK h \in Nat : h = Len(l[s])
    BY <1>8
  <2>3. f[p] = [q \in 1 .. h |-> l[s][q].k] /\ DOMAIN l[s] = 1 .. h
    BY <1>6, <1>8, <2>1, <2>2
  <2>4. f[p] \in [1 .. h -> Nat]
    BY <1>8, <2>2, <2>3
  <2>5. f[p] \in Seq(Nat) /\ Len(f[p]) = h
    BY <2>4, LenProperties
  <2> QED
    BY <2>1, <2>3, <2>4, <2>5
<1>10. f \in [1 .. z -> Seq(Nat)]
  BY <1>6, <1>9
<1>11. /\ FlattenSeq(f) \in Seq(Nat)
       /\ \A x : Occurs(FlattenSeq(f), x) <=> \E p \in 1 .. z : Occurs(f[p], x)
  BY <1>4, <1>10, FlattenRange
<1>12. \A x : (\E c \in R : c.idx = x) <=>
         \E t \in Cells(A), d \in Cells(B) : t.i = r - 1 /\ t.j = d.i /\ d.j = x
  BY ProductRowFacts
<1>13. ASSUME NEW c
       PROVE  c \in Cells(A) <=>
                \E u \in 1 .. m : \E p \in DOMAIN A.lines[u] : c = CellOf(A, u, p)
  <2>1. c \in Cells(A) <=>
          \E u \in DOMAIN A.lines : \E p \in DOMAIN A.lines[u] : c = CellOf(A, u, p)
    BY Zenon, CellsAre
  <2> QED
    BY <1>2, <2>1
<1>14. ASSUME NEW c
       PROVE  c \in Cells(B) <=> \E u \in 1 .. n : \E p \in DOMAIN l[u] : c = CellOf(B, u, p)
  BY <1>1, <1>2, CellsAre
<1>15. ASSUME NEW p \in 1 .. z, NEW q \in 1 .. Len(f[p])
       PROVE  \E t \in Cells(A), d \in Cells(B) : t.i = r - 1 /\ t.j = d.i /\ d.j = f[p][q]
  <2>1. PICK s \in 1 .. n : s = row[p].k + 1
    BY <1>5
  <2>2. PICK t, d : t = CellOf(A, r, p) /\ d = CellOf(B, s, q)
    OBVIOUS
  <2>3. q \in DOMAIN l[s] /\ f[p][q] = l[s][q].k
    BY <1>9, <2>1
  <2>4. t \in Cells(A) /\ d \in Cells(B)
    BY <1>1, <1>3, <1>4, <1>13, <1>14, <2>2, <2>3
  <2>5. s - 1 = row[p].k
    BY <1>5, <2>1
  <2>6. t.i = r - 1 /\ t.j = row[p].k /\ d.i = s - 1 /\ d.j = l[s][q].k
    BY <1>1, <1>3, <2>2 DEF CellOf
  <2> QED
    BY <2>3, <2>4, <2>5, <2>6
<1>16. ASSUME NEW t \in Cells(A), NEW d \in Cells(B), t.i = r - 1, t.j = d.i
       PROVE  \E p \in 1 .. z : \E q \in 1 .. Len(f[p]) : f[p][q] = d.j
  <2>1. PICK u \in 1 .. m : \E p \in DOMAIN A.lines[u] : t = CellOf(A, u, p)
    BY <1>13
  <2>2. PICK p \in DOMAIN A.lines[u] : t = CellOf(A, u, p)
    BY <2>1
  <2>3. PICK s \in 1 .. n : \E q \in DOMAIN l[s] : d = CellOf(B, s, q)
    BY <1>14
  <2>4. PICK q \in DOMAIN l[s] : d = CellOf(B, s, q)
    BY <2>3
  <2>5. t.i = u - 1 /\ t.j = A.lines[u][p].k /\ d.i = s - 1 /\ d.j = l[s][q].k
    BY <1>1, <2>2, <2>4 DEF CellOf
  <2>6. u = r
    <3>1. u - 1 = r - 1
      BY <1>16, <2>5
    <3> QED
      BY <1>1, <3>1
  <2>7. p \in 1 .. z /\ row[p].k = s - 1
    BY <1>3, <1>4, <1>16, <2>2, <2>5, <2>6
  <2>8. row[p].k + 1 = s
    <3>1. PICK k \in Int : k = row[p].k /\ k = s - 1
      BY <2>7
    <3> QED
      BY <3>1
  <2>9. q \in DOMAIN f[p] /\ f[p][q] = d.j
    BY <1>9, <2>4, <2>5, <2>7, <2>8
  <2> QED
    BY <1>9, <2>7, <2>9
<1>17. ASSUME NEW x
       PROVE  (\E c \in R : c.idx = x) <=> \E p \in 1 .. z : Occurs(f[p], x)
  <2>1. ASSUME \E c \in R : c.idx = x PROVE \E p \in 1 .. z : Occurs(f[p], x)
    <3>1. PICK t \in Cells(A), d \in Cells(B) : t.i = r - 1 /\ t.j = d.i /\ d.j = x
      BY <1>12, <2>1
    <3> QED
      BY <1>16, <3>1 DEF Occurs
  <2>2. ASSUME NEW p \in 1 .. z, NEW q \in 1 .. Len(f[p]), f[p][q] = x PROVE \E c \in R : c.idx = x
    <3>1. \E t \in Cells(A), d \in Cells(B) : t.i = r - 1 /\ t.j = d.i /\ d.j = x
      BY <1>15, <2>2
    <3> QED
      BY <1>12, <3>1
  <2> QED
    BY <2>1, <2>2 DEF Occurs
<1> QED
  BY <1>7, <1>11, <1>17

\* Any order of the columns of a finite set of sums orders the sums.
LEMMA OrderedSums ==
  ASSUME NEW R, IsFiniteSet(R), \A c, d \in R : c.idx = d.idx => c = d,
         NEW T, \A x : x \in T <=> \E c \in R : c.idx = x,
         NEW order \in SetToSeqs(T),
         NEW s, s = [p \in DOMAIN order |-> CHOOSE c \in R : c.idx = order[p]]
  PROVE  s \in SetToSeqs(R)
<1>1. PICK f : f = [c \in R |-> c.idx]
  OBVIOUS
<1>2. f \in Bijection(R, T)
  BY <1>1 DEF Bijection, Injection, Surjection, IsInjective
<1>3. IsFiniteSet(T) /\ Cardinality(T) = Cardinality(R)
  BY <1>2, FS_Bijection, FS_Surjection DEF ExistsBijection, Bijection
<1>4. /\ DOMAIN order = 1 .. Cardinality(T) /\ Cardinality(T) \in Nat
      /\ {order[p] : p \in DOMAIN order} = T
      /\ \A p, q \in DOMAIN order : order[p] = order[q] => p = q
  BY <1>3, ListingFacts
<1>5. ASSUME NEW p \in DOMAIN order
      PROVE  s[p] \in R /\ s[p].idx = order[p]
  <2>1. order[p] \in T
    BY <1>4
  <2>2. \E c \in R : c.idx = order[p]
    BY <2>1
  <2>3. s[p] = CHOOSE c \in R : c.idx = order[p]
    OBVIOUS
  <2> QED
    BY <2>2, <2>3
<1>6. s \in [1 .. Cardinality(R) -> R]
  BY <1>3, <1>4, <1>5
<1>7. \A p, q \in 1 .. Cardinality(R) : p # q => s[p] # s[q]
  BY <1>3, <1>4, <1>5
<1> QED
  BY <1>6, <1>7 DEF SetToSeqs

\* The csr factors the core is called with.
CoreFactors ==
  A \in Matrices /\ B \in Matrices /\ A.fmt = "csr" /\ B.fmt = "csr" /\ A.ncols = B.nrows

\* sp_matmul returns all of the product.
LEMMA MatmulReturns ==
  ASSUME CoreFactors, CoreMatmul
  PROVE  /\ stage' = "returned" /\ UNCHANGED <<asked, fn, A, B, opts, error>>
         /\ result' \in Matrices /\ result'.nrows = A.nrows /\ result'.ncols = B.ncols
         /\ \A r \in 1 .. A.nrows : RowOf(result', r - 1) = Row(Cells(A), Cells(B), r - 1)
<1>1. PICK n, w, d : /\ n = A.nrows /\ w = B.ncols /\ d = A.dtype
                     /\ n \in Nat /\ w \in Nat /\ d \in STRING
  BY MatrixFacts DEF CoreFactors
<1>2. PICK part : part = [r \in 1 .. n |-> Row(Cells(A), Cells(B), r - 1)]
  OBVIOUS
<1>3. PICK t : t = [r \in 1 .. n |-> [p \in DOMAIN NewestFirst(Touches(r)) |->
                      CHOOSE c \in part[r] : c.idx = NewestFirst(Touches(r))[p]]]
  OBVIOUS
<1>4. PICK l : l = EntryLines(t, n)
  OBVIOUS
<1>5. /\ result' = Csr(n, w, d, l)
      /\ stage' = "returned" /\ UNCHANGED <<asked, fn, A, B, opts, error>>
  <2>1. \A r \in 1 .. n : EntrySeq(t[r]) =
          LET order == NewestFirst(Touches(r))
              totals == Row(Cells(A), Cells(B), r - 1)
          IN  [p \in DOMAIN order |-> Entry(CHOOSE c \in totals : c.idx = order[p])]
    BY <1>2, <1>3 DEF EntrySeq
  <2>2. l = [r \in 1 .. A.nrows |->
               LET order == NewestFirst(Touches(r))
                   totals == Row(Cells(A), Cells(B), r - 1)
               IN  [p \in DOMAIN order |-> Entry(CHOOSE c \in totals : c.idx = order[p])]]
    BY <1>1, <1>4, <2>1 DEF EntryLines
  <2>3. Return(l)
    BY <2>2 DEF CoreMatmul
  <2> QED
    BY <1>1, <2>3 DEF Return, Csr, frame
<1>6. ASSUME NEW r \in 1 .. n
      PROVE  part[r] \in SUBSET Row(Cells(A), Cells(B), r - 1) /\ t[r] \in SetToSeqs(part[r])
  <2>1. PICK R : R = Row(Cells(A), Cells(B), r - 1) /\ R = part[r]
    BY <1>2
  <2>2. PICK s : s = Touches(r)
    OBVIOUS
  <2>3. s \in Seq(Nat) /\ \A x : Occurs(s, x) <=> \E c \in R : c.idx = x
    BY <1>1, <2>1, <2>2, TouchesFacts DEF CoreFactors
  <2>4. PICK m \in Nat : m = Len(s) /\ s \in [1 .. m -> Nat]
    BY <2>3, LenProperties
  <2>5. PICK T : T = {c.idx : c \in R}
    OBVIOUS
  <2>6. \A x : x \in T <=> \E c \in R : c.idx = x
    BY <2>5
  <2>7. \A x : x \in T <=> \E p \in 1 .. m : s[p] = x
    BY <2>3, <2>4, <2>6 DEF Occurs
  <2>8. NewestFirst(s) \in SetToSeqs(T)
    BY <2>4, <2>7, NewestFirstFacts
  <2>9. IsFiniteSet(R) /\ \A c, e \in R : c.idx = e.idx => c = e
    BY <1>1, <2>1, ProductRowIsFinite, ProductRowFacts DEF CoreFactors
  <2>10. PICK u : u = [p \in DOMAIN NewestFirst(s) |-> CHOOSE c \in R : c.idx = NewestFirst(s)[p]]
    OBVIOUS
  <2>11. u \in SetToSeqs(R)
    BY <2>6, <2>8, <2>9, <2>10, OrderedSums
  <2> QED
    BY <1>3, <2>1, <2>2, <2>10, <2>11
<1>7. PICK o : o = result'
  OBVIOUS
<1>8. o = Csr(n, w, d, l)
  BY <1>5, <1>7
<1>9. o \in Matrices /\ \A r \in 1 .. n : RowOf(o, r - 1) = part[r]
  <2>1. ListsParts(t, part, A, B, n)
    BY <1>6 DEF ListsParts
  <2> QED
    BY <1>1, <1>4, <1>8, <2>1, ResultFacts DEF CoreFactors
<1>10. o.nrows = n /\ o.ncols = w
  BY <1>8 DEF Csr
<1> QED
  BY <1>1, <1>2, <1>5, <1>7, <1>9, <1>10

\* sp_matmul_topn returns a selection of every row of the product.
LEMMA TopNReturns ==
  ASSUME CoreFactors, ChunkWidth \in Nat \ {0}, CoreTopN, ~ Panics
  PROVE  /\ stage' = "returned" /\ UNCHANGED <<asked, fn, A, B, opts, error>>
         /\ result' \in Matrices /\ result'.nrows = A.nrows /\ result'.ncols = B.ncols
         /\ \A r \in 1 .. A.nrows :
              Selected(RowOf(result', r - 1), Row(Cells(A), Cells(B), r - 1), opts.top_n,
                       IF opts.threshold = None THEN MinValue ELSE opts.threshold, A)
<1>1. PICK n, w, d : /\ n = A.nrows /\ w = B.ncols /\ d = A.dtype
                     /\ n \in Nat /\ w \in Nat /\ d \in STRING
  BY MatrixFacts DEF CoreFactors
<1>2. PICK rows \in [1 .. n -> UNION {KernelRows(r) : r \in 1 .. n}] :
        /\ \A r \in 1 .. n : rows[r] \in KernelRows(r)
        /\ Return([r \in 1 .. n |-> [p \in DOMAIN rows[r] |-> Entry(rows[r][p])]])
  BY <1>1 DEF CoreTopN
<1>3. PICK h : h = IF opts.threshold = None THEN MinValue ELSE opts.threshold
  OBVIOUS
<1>4. ASSUME NEW r \in 1 .. n
      PROVE  \E k \in SUBSET Row(Cells(A), Cells(B), r - 1) :
               /\ Selected(k, Row(Cells(A), Cells(B), r - 1), opts.top_n, h, A)
               /\ rows[r] \in SetToSeqs(k)
  <2>1. (IF Tiled THEN Cells(B) ELSE ReadCells) = Cells(B)
    BY WalkReadsAll DEF CoreFactors
  <2> QED
    BY <1>2, <1>3, <2>1 DEF KernelRows
<1>5. PICK part : part = [r \in 1 .. n |->
                      CHOOSE k \in SUBSET Row(Cells(A), Cells(B), r - 1) :
                        /\ Selected(k, Row(Cells(A), Cells(B), r - 1), opts.top_n, h, A)
                        /\ rows[r] \in SetToSeqs(k)]
  OBVIOUS
<1>6. ASSUME NEW r \in 1 .. n
      PROVE  /\ part[r] \in SUBSET Row(Cells(A), Cells(B), r - 1)
             /\ Selected(part[r], Row(Cells(A), Cells(B), r - 1), opts.top_n, h, A)
             /\ rows[r] \in SetToSeqs(part[r])
  <2>1. PICK k : k = CHOOSE z \in SUBSET Row(Cells(A), Cells(B), r - 1) :
                        /\ Selected(z, Row(Cells(A), Cells(B), r - 1), opts.top_n, h, A)
                        /\ rows[r] \in SetToSeqs(z)
    OBVIOUS
  <2>2. /\ k \in SUBSET Row(Cells(A), Cells(B), r - 1)
        /\ Selected(k, Row(Cells(A), Cells(B), r - 1), opts.top_n, h, A)
        /\ rows[r] \in SetToSeqs(k)
    BY Zenon, <1>4, <2>1
  <2>3. part[r] = k
    BY <1>5, <2>1
  <2> QED
    BY <2>2, <2>3
<1>7. PICK l, o : l = EntryLines(rows, n) /\ o = result'
  OBVIOUS
<1>8. /\ o = Csr(n, w, d, l)
      /\ stage' = "returned" /\ UNCHANGED <<asked, fn, A, B, opts, error>>
  <2>1. Return(l)
    BY <1>2, <1>7 DEF EntrySeq, EntryLines
  <2> QED
    BY <1>1, <1>7, <2>1 DEF Return, Csr, frame
<1>9. o \in Matrices /\ \A r \in 1 .. n : RowOf(o, r - 1) = part[r]
  <2>1. ListsParts(rows, part, A, B, n)
    BY <1>6 DEF ListsParts
  <2> QED
    BY <1>1, <1>7, <1>8, <2>1, ResultFacts DEF CoreFactors
<1>10. o.nrows = n /\ o.ncols = w
  BY <1>8 DEF Csr
<1> QED
  BY <1>1, <1>3, <1>6, <1>7, <1>8, <1>9, <1>10

\* A matrix of n rows and w columns without entries is the product of a and b.
EmptyProduct(left, right, n, w, d) ==
  \E l, m : /\ l = [r \in 1 .. n |-> <<>>] /\ m = Csr(n, w, d, l) /\ m \in Matrices
            /\ \A r \in 1 .. n : RowOf(m, r - 1) = {} /\ Row(Cells(left), Cells(right), r - 1) = {}

LEMMA EmptyFacts ==
  ASSUME NEW left \in Matrices, NEW right \in Matrices,
         NEW n \in Nat, n = left.nrows, NEW w \in Nat, w = right.ncols, NEW d \in STRING,
         ~ (Stored(left) /\ Stored(right))
  PROVE  EmptyProduct(left, right, n, w, d)
<1>1. PICK part, t : part = [r \in 1 .. n |-> {}] /\ t = [r \in 1 .. n |-> <<>>]
  OBVIOUS
<1>2. <<>> \in SetToSeqs({})
  BY FS_EmptySet DEF SetToSeqs
<1>3. ListsParts(t, part, left, right, n)
  BY <1>1, <1>2 DEF ListsParts
<1>4. PICK l, m : l = EntryLines(t, n) /\ m = Csr(n, w, d, l)
  OBVIOUS
<1>5. l = t
  BY <1>1, <1>4 DEF EntryLines, EntrySeq
<1>6. m \in Matrices /\ \A r \in 1 .. n : RowOf(m, r - 1) = part[r]
  BY <1>3, <1>4, ResultFacts
<1>7. ASSUME NEW rw PROVE Row(Cells(left), Cells(right), rw) = {}
  BY DEF Row, Stored
<1> QED
  BY <1>1, <1>4, <1>5, <1>6, <1>7 DEF EmptyProduct

\* A product of zeros has no entries.
LEMMA EmptyReturns ==
  ASSUME CoreFactors, ~ (Stored(A) /\ Stored(B))
  PROVE  \E o : /\ o = [fmt |-> "csr", nrows |-> A.nrows, ncols |-> B.ncols,
                        dtype |-> A.dtype, lines |-> [r \in 1 .. A.nrows |-> <<>>]]
                /\ o \in Matrices /\ o.nrows = A.nrows /\ o.ncols = B.ncols
                /\ \A r \in 1 .. A.nrows :
                     RowOf(o, r - 1) = {} /\ Row(Cells(A), Cells(B), r - 1) = {}
<1>1. PICK n, w, d : /\ n = A.nrows /\ w = B.ncols /\ d = A.dtype
                     /\ n \in Nat /\ w \in Nat /\ d \in STRING
  BY MatrixFacts DEF CoreFactors
<1>2. PICK l, m : /\ l = [r \in 1 .. n |-> <<>>] /\ m = Csr(n, w, d, l) /\ m \in Matrices
                  /\ \A r \in 1 .. n :
                       RowOf(m, r - 1) = {} /\ Row(Cells(A), Cells(B), r - 1) = {}
  <2>1. EmptyProduct(A, B, n, w, d)
    BY <1>1, EmptyFacts DEF CoreFactors
  <2> QED
    BY <2>1 DEF EmptyProduct
<1>3. m.nrows = n /\ m.ncols = w
  BY <1>2 DEF Csr
<1>4. m = [fmt |-> "csr", nrows |-> A.nrows, ncols |-> B.ncols,
           dtype |-> A.dtype, lines |-> [r \in 1 .. A.nrows |-> <<>>]]
  BY <1>1, <1>2 DEF Csr
<1> QED
  BY <1>1, <1>2, <1>3, <1>4

-----------------------------------------------------------------------------
(* The inductive invariant of a call *)

FunctionNames == {"sp_matmul", "sp_matmul_topn"}

\* Csr factors that can be multiplied.
Oriented == A.fmt = "csr" /\ B.fmt = "csr" /\ A.ncols = B.nrows

\* What the checks passed so far have established.  It outlives the detour over
\* sp_matmul only as far as that function does not check it again.
ApiInv ==
  /\ asked.fn \in FunctionNames /\ asked.A \in Matrices /\ asked.B \in Matrices
  /\ asked.opts \in Arguments
  /\ fn \in FunctionNames /\ A \in Matrices /\ B \in Matrices /\ opts \in Arguments
  /\ stage = "returned" => result \in Matrices
  /\ stage \in {"shapes", "shortcut", "dtypes", "core"} => A.fmt = "csr"
  /\ stage \in {"shortcut", "dtypes", "core"} => Oriented
  /\ fn = asked.fn \/ fn = "sp_matmul"
  /\ stage = "types" /\ fn = asked.fn => opts.idx_dtype = asked.opts.idx_dtype
  /\ stage = "types" /\ fn # asked.fn => opts.idx_dtype = None
  /\ stage \in {"factors", "shapes", "shortcut", "dtypes", "core"} =>
       /\ opts.n_threads \in Int /\ opts.n_threads > 0
       /\ opts.idx_dtype = IndexType
       /\ fn = "sp_matmul_topn" => ChunkWidth > 0
  /\ stage = "core" =>
       /\ A.dtype = B.dtype /\ A.dtype \in Supported
       /\ fn = "sp_matmul_topn" => opts.top_n <= B.ncols

\* The factors are those of the product that the call promises.
Ready == Oriented /\ Same(A, LeftOf(asked)) /\ Same(B, RightOf(asked))

\* How far they are from them.
FactorsInv ==
  /\ stage \in {"types", "factors"} => Ready \/ (fn = asked.fn /\ A = asked.A /\ B = asked.B)
  /\ stage = "shapes" =>
       Ready \/ (A.fmt = "csr" /\ LeftOf(asked) = asked.A /\ Same(A, asked.A) /\ B = asked.B)
  /\ stage \in {"shortcut", "dtypes", "core"} => Ready

\* What the keyword arguments still say of the selection; sp_matmul takes over
\* when it keeps everything.
OptionsInv ==
  /\ fn # asked.fn =>
       /\ fn = "sp_matmul" /\ Ready
       /\ asked.opts.top_n = B.ncols /\ asked.opts.threshold = None
  /\ fn = "sp_matmul_topn" /\ stage \in {"types", "factors", "shapes", "shortcut", "dtypes"} =>
       opts.top_n = asked.opts.top_n /\ opts.threshold = asked.opts.threshold
  /\ fn = "sp_matmul_topn" /\ stage = "core" =>
       /\ opts.top_n = Least(asked.opts.top_n, B.ncols)
       /\ opts.threshold = Threshold(A, asked.opts.threshold)

ResultInv ==
  /\ FactorsInv /\ OptionsInv
  /\ stage # "raised" => error = "none"
  /\ ResultIsProduct

-----------------------------------------------------------------------------
(* What a call returns *)

\* A matrix returned for the factors that the call promises is their product.
LEMMA ReturnsProduct ==
  ASSUME ApiInv, Ready, asked' = asked,
         result' \in Matrices, result'.nrows = A.nrows, result'.ncols = B.ncols,
         asked.fn = "sp_matmul" =>
           \A r \in 1 .. A.nrows :
             RowOf(result', r - 1) = Row(Cells(A), Cells(B), r - 1),
         asked.fn # "sp_matmul" /\ SumsAboveMin(LeftOf(asked), RightOf(asked)) =>
           \A r \in 1 .. A.nrows : \E t \in Thresholds(asked.opts.threshold, A) :
             Selected(RowOf(result', r - 1), Row(Cells(A), Cells(B), r - 1),
                      asked.opts.top_n, t, A)
  PROVE  asked.fn = "sp_matmul" \/ SumsAboveMin(LeftOf(asked), RightOf(asked))
           => IsProduct(LeftOf(asked), RightOf(asked))'
<1> SUFFICES ASSUME asked.fn = "sp_matmul" \/ SumsAboveMin(LeftOf(asked), RightOf(asked))
             PROVE  IsProduct(LeftOf(asked), RightOf(asked))'
  OBVIOUS
<1>1. PICK x, y, o : x = LeftOf(asked) /\ y = RightOf(asked) /\ o = result'
  OBVIOUS
<1>2. /\ Cells(A) = Cells(x) /\ Cells(B) = Cells(y) /\ A.nrows = x.nrows /\ B.ncols = y.ncols
      /\ A.dtype = x.dtype
  BY <1>1 DEF Ready, Same
<1>3. PICK n \in Nat : n = A.nrows
  BY MatrixFacts DEF ApiInv
<1>4. IsStored(o)
  BY <1>1 DEF Matrices
<1>5. IsInt(A) = IsInt(x)
  BY <1>2 DEF IsInt
<1>6. ASSUME NEW part, NEW R, NEW t, Selected(part, R, asked.opts.top_n, t, A)
      PROVE  Selected(part, R, asked.opts.top_n, t, x)
  <2>1. ZerosOf(R, A) = ZerosOf(R, x)
    BY <1>5 DEF ZerosOf
  <2> QED
    BY <1>6, <2>1, SelectedFacts
<1>7. Thresholds(asked.opts.threshold, A) = Thresholds(asked.opts.threshold, x)
  BY <1>5 DEF Thresholds
<1>8. ASSUME NEW rw \in 0 .. n - 1
      PROVE  IF asked.fn = "sp_matmul" THEN RowOf(o, rw) = Row(Cells(x), Cells(y), rw)
             ELSE \E t \in Thresholds(asked.opts.threshold, x) :
                    Selected(RowOf(o, rw), Row(Cells(x), Cells(y), rw), asked.opts.top_n, t, x)
  <2>1. PICK r \in 1 .. n : rw = r - 1
    <3>1. rw + 1 \in 1 .. n /\ (rw + 1) - 1 = rw
      BY <1>3
    <3> QED
      BY <3>1
  <2>2. CASE asked.fn = "sp_matmul"
    BY <1>1, <1>2, <1>3, <2>1, <2>2
  <2>3. CASE asked.fn # "sp_matmul"
    <3>1. PICK t \in Thresholds(asked.opts.threshold, A) :
            Selected(RowOf(o, rw), Row(Cells(x), Cells(y), rw), asked.opts.top_n, t, A)
      BY <1>1, <1>2, <1>3, <2>1, <2>3
    <3> QED
      BY <1>6, <1>7, <2>3, <3>1
  <2> QED
    BY <2>2, <2>3
<1> QED
  BY <1>1, <1>2, <1>3, <1>4, <1>8 DEF IsProduct, Thresholds

LEMMA RaiseResult ==
  ASSUME ResultInv, NEW e, Raise(e), stage # "returned",
         e = "PanicException" => ~ OneChunk /\ \E n \in DOMAIN B.lines : ~ InOrder(B.lines[n])
  PROVE  ResultInv'
BY DEF Raise, frame, ResultInv, FactorsInv, OptionsInv, Ready, Oriented, ResultIsProduct,
       OneChunk, ChunkWidth

\* A call starts with what the caller wrote.
LEMMA StartResult ==
  ASSUME NEW f, NEW left, NEW right, NEW o, Begin(f, left, right, o)
  PROVE  ResultInv'
BY DEF Begin, ResultInv, FactorsInv, OptionsInv, ResultIsProduct

\* No stage before the return has anything to say of the result.
LEMMA GoResult ==
  ASSUME ResultInv, NEW label \in {"types", "factors", "shapes", "shortcut", "dtypes", "core"},
         stage # "raised", Goto(label), FactorsInv', OptionsInv'
  PROVE  ResultInv'
BY DEF Goto, ResultInv, ResultIsProduct

LEMMA CheckArgumentsResult ==
  ASSUME ApiInv, ResultInv, CheckArguments
  PROVE  ResultInv'
<1>1. ASSUME NEW e \in {"TypeError", "ValueError"}, Raise(e) PROVE ResultInv'
  BY <1>1, RaiseResult DEF CheckArguments
<1>2. CASE /\ opts' = [opts EXCEPT !.n_threads = NThreads(@),
                                   !.idx_dtype = AssertedIndexType(@)]
           /\ Goto("factors")
           /\ UNCHANGED <<fn, A, B>>
  <2>1. opts'.top_n = opts.top_n /\ opts'.threshold = opts.threshold
    BY <1>2 DEF ApiInv, Arguments
  <2>2. stage = "types" /\ stage' = "factors" /\ asked' = asked
    BY <1>2 DEF CheckArguments, Goto
  <2>3. FactorsInv' /\ OptionsInv'
    BY <1>2, <2>1, <2>2 DEF ResultInv, FactorsInv, OptionsInv, Ready, Oriented
  <2> QED
    BY <1>2, <2>2, <2>3, GoResult
<1> QED
  BY <1>1, <1>2 DEF CheckArguments

\* The promised factors, by the caller's.
LEMMA PromisedFactors ==
  ASSUME asked.A \in Matrices, asked.B \in Matrices
  PROVE  /\ LeftOf(asked) \in Matrices /\ RightOf(asked) \in Matrices
         /\ LeftOf(asked) = asked.A => RightOf(asked) =
              IF asked.A.ncols = asked.B.nrows THEN asked.B ELSE Transpose(asked.B)
         /\ asked.A.fmt = "csc" /\ asked.B.fmt = "csc" /\ asked.A.nrows = asked.B.ncols
              => LeftOf(asked) = Transpose(asked.A) /\ RightOf(asked) = Transpose(asked.B)
<1>1. /\ Transpose(asked.A) \in Matrices /\ Transpose(asked.B) \in Matrices
      /\ asked.A.fmt = "csc" => Transpose(asked.A) # asked.A
  BY TransposeFacts
<1> QED
  BY <1>1 DEF LeftOf, RightOf

LEMMA SameFacts ==
  ASSUME NEW m, NEW n, NEW o
  PROVE  /\ Same(m, m)
         /\ Same(m, n) /\ Same(n, o) => Same(m, o)
BY DEF Same

LEMMA ConvertFactorsResult ==
  ASSUME ApiInv, ResultInv, ConvertFactors
  PROVE  ResultInv'
<1>1. ASSUME NEW e \in {"TypeError", "ValueError"}, Raise(e) PROVE ResultInv'
  BY <1>1, RaiseResult DEF ConvertFactors
<1>2. ASSUME Goto("shapes"), UNCHANGED <<fn, opts>>,
             Ready' \/ (/\ ~ Ready /\ A'.fmt = "csr" /\ LeftOf(asked) = asked.A
                        /\ Same(A', asked.A) /\ B' = asked.B),
             Ready => B' = B
      PROVE  ResultInv'
  <2>1. stage = "factors" /\ stage' = "shapes" /\ asked' = asked
    BY <1>2 DEF ConvertFactors, Goto
  <2>2. FactorsInv'
    BY <1>2, <2>1 DEF FactorsInv
  <2>3. OptionsInv'
    BY <1>2, <2>1 DEF ResultInv, OptionsInv
  <2> QED
    BY <1>2, <2>1, <2>2, <2>3, GoResult
<1>3. stage = "factors" /\ (Ready \/ (A = asked.A /\ B = asked.B))
  BY DEF ConvertFactors, ResultInv, FactorsInv
<1>4. CASE /\ BothTransposed
           /\ A' = Transpose(A) /\ B' = Transpose(B)
           /\ Goto("shapes") /\ UNCHANGED <<fn, opts>>
  <2>1. A = asked.A /\ B = asked.B /\ ~ Ready /\ asked' = asked
    BY <1>3, <1>4 DEF BothTransposed, Ready, Oriented, Goto
  <2>2. A' = LeftOf(asked) /\ B' = RightOf(asked)
    BY <1>4, <2>1, PromisedFactors DEF BothTransposed, ApiInv
  <2>3. Oriented'
    BY <1>4, TransposeFacts DEF BothTransposed, Oriented, ApiInv
  <2>4. Ready'
    BY <2>1, <2>2, <2>3, SameFacts DEF Ready
  <2> QED
    BY <1>2, <1>4, <2>1, <2>4
<1>5. CASE /\ ~ BothTransposed
           /\ A' = (IF A.fmt = "csr" THEN A ELSE ToCsr(A))
           /\ Goto("shapes") /\ UNCHANGED <<fn, B, opts>>
  <2>1. CASE Ready
    <3>1. A' = A /\ B' = B /\ asked' = asked
      BY <1>5, <2>1 DEF Ready, Oriented, Goto
    <3>2. Ready'
      BY <2>1, <3>1 DEF Ready, Oriented
    <3> QED
      BY <1>2, <1>5, <3>1, <3>2
  <2>2. CASE ~ Ready
    <3>1. A = asked.A /\ B = asked.B
      BY <1>3, <2>2
    <3>2. A'.fmt = "csr" /\ Same(A', asked.A)
      BY <1>5, <3>1, ToCsrFacts, SameFacts DEF ApiInv
    <3>3. LeftOf(asked) = asked.A
      BY <1>5, <3>1 DEF BothTransposed, LeftOf
    <3> QED
      BY <1>2, <1>5, <2>2, <3>1, <3>2, <3>3
  <2> QED
    BY <2>1, <2>2
<1> QED
  BY <1>1, <1>4, <1>5 DEF ConvertFactors

LEMMA OrientBResult ==
  ASSUME ApiInv, ResultInv, OrientB
  PROVE  ResultInv'
<1>1. ASSUME NEW e \in {"TypeError", "ValueError"}, Raise(e) PROVE ResultInv'
  BY <1>1, RaiseResult DEF OrientB
<1>2. ASSUME Goto("shortcut"), UNCHANGED <<fn, A, opts>>, Ready', Ready => B' = B
      PROVE  ResultInv'
  <2>1. stage = "shapes" /\ stage' = "shortcut" /\ asked' = asked
    BY <1>2 DEF OrientB, Goto
  <2>2. FactorsInv'
    BY <1>2, <2>1 DEF FactorsInv
  <2>3. OptionsInv'
    BY <1>2, <2>1 DEF ResultInv, OptionsInv
  <2> QED
    BY <1>2, <2>1, <2>2, <2>3, GoResult
<1>3. /\ stage = "shapes"
      /\ Ready \/ (A.fmt = "csr" /\ LeftOf(asked) = asked.A /\ Same(A, asked.A) /\ B = asked.B)
  BY DEF OrientB, ResultInv, FactorsInv
<1>4. ASSUME B'.fmt = "csr", A.ncols = B'.nrows, Same(B', RightOf(asked)), ~ Ready,
             Goto("shortcut"), UNCHANGED <<fn, A, opts>>
      PROVE  Ready'
  BY <1>3, <1>4 DEF Ready, Oriented, Goto
<1>5. CASE /\ A.ncols = B.nrows
           /\ B' = (IF B.fmt = "csr" THEN B ELSE ToCsr(B))
           /\ Goto("shortcut") /\ UNCHANGED <<fn, A, opts>>
  <2>1. CASE Ready
    <3>1. B' = B /\ asked' = asked
      BY <1>5, <2>1 DEF Ready, Oriented, Goto
    <3>2. Ready'
      BY <1>5, <2>1, <3>1 DEF Ready, Oriented
    <3> QED
      BY <1>2, <1>5, <3>1, <3>2
  <2>2. CASE ~ Ready
    <3>1. LeftOf(asked) = asked.A /\ Same(A, asked.A) /\ B = asked.B
      BY <1>3, <2>2
    <3>2. RightOf(asked) = B
      BY <1>5, <3>1, PromisedFactors DEF ApiInv, Same
    <3>3. B'.fmt = "csr" /\ Same(B', B) /\ B'.nrows = B.nrows
      BY <1>5, ToCsrFacts, SameFacts DEF ApiInv, Same
    <3> QED
      BY <1>2, <1>4, <1>5, <2>2, <3>2, <3>3
  <2> QED
    BY <2>1, <2>2
<1>6. CASE /\ A.ncols # B.nrows /\ A.ncols = B.ncols
           /\ B' = (IF B.fmt = "csc" THEN Transpose(B) ELSE ToCsr(Transpose(B)))
           /\ Goto("shortcut") /\ UNCHANGED <<fn, A, opts>>
  <2>1. ~ Ready
    BY <1>6 DEF Ready, Oriented
  <2>2. LeftOf(asked) = asked.A /\ Same(A, asked.A) /\ B = asked.B
    BY <1>3, <2>1
  <2>3. RightOf(asked) = Transpose(B)
    BY <1>6, <2>2, PromisedFactors DEF ApiInv, Same
  <2>4. /\ Transpose(B) \in Matrices /\ Transpose(B).nrows = B.ncols
        /\ B.fmt = "csc" => Transpose(B).fmt = "csr"
    BY TransposeFacts DEF ApiInv
  <2>5. B'.fmt = "csr" /\ Same(B', Transpose(B)) /\ B'.nrows = B.ncols
    BY <1>6, <2>4, ToCsrFacts, SameFacts DEF Same
  <2> QED
    BY <1>2, <1>4, <1>6, <2>1, <2>3, <2>5
<1> QED
  BY <1>1, <1>5, <1>6 DEF OrientB

LEMMA ShortcutResult ==
  ASSUME ApiInv, ResultInv, Shortcut
  PROVE  ResultInv'
<1>1. stage = "shortcut" /\ Ready /\ UNCHANGED <<A, B>>
  BY DEF Shortcut, ResultInv, FactorsInv
<1>2. CASE /\ fn = "sp_matmul_topn" /\ KeepsEverything
           /\ fn' = "sp_matmul" /\ opts' = [opts EXCEPT !.idx_dtype = None]
           /\ Goto("types")
  <2>1. Ready' /\ asked' = asked /\ stage' = "types"
    BY <1>1, <1>2 DEF Ready, Oriented, Goto
  <2>2. asked.opts.top_n = B.ncols /\ asked.opts.threshold = None
    BY <1>1, <1>2 DEF ResultInv, OptionsInv, KeepsEverything
  <2>3. FactorsInv' /\ OptionsInv'
    BY <1>1, <1>2, <2>1, <2>2 DEF FactorsInv, OptionsInv
  <2> QED
    BY <1>1, <1>2, <2>3, GoResult
<1>3. CASE Goto("dtypes") /\ UNCHANGED <<fn, opts>>
  <2>1. Ready' /\ asked' = asked /\ stage' = "dtypes"
    BY <1>1, <1>3 DEF Ready, Oriented, Goto
  <2>2. FactorsInv' /\ OptionsInv'
    BY <1>1, <1>3, <2>1 DEF ResultInv, FactorsInv, OptionsInv
  <2> QED
    BY <1>1, <1>3, <2>2, GoResult
<1> QED
  BY <1>2, <1>3 DEF Shortcut

\* A call that returns the promised product, or a selection of it, keeps its
\* promise.
LEMMA ReturnResult ==
  ASSUME ApiInv, ResultInv, Ready, stage \in {"dtypes", "core"}, stage' = "returned",
         UNCHANGED <<asked, fn, A, B, opts, error>>,
         result' \in Matrices, result'.nrows = A.nrows, result'.ncols = B.ncols,
         asked.fn = "sp_matmul" =>
           \A r \in 1 .. A.nrows :
             RowOf(result', r - 1) = Row(Cells(A), Cells(B), r - 1),
         asked.fn # "sp_matmul" /\ SumsAboveMin(LeftOf(asked), RightOf(asked)) =>
           \A r \in 1 .. A.nrows : \E t \in Thresholds(asked.opts.threshold, A) :
             Selected(RowOf(result', r - 1), Row(Cells(A), Cells(B), r - 1),
                      asked.opts.top_n, t, A)
  PROVE  ResultInv'
<1>1. asked.fn = "sp_matmul" \/ SumsAboveMin(LeftOf(asked), RightOf(asked))
        => IsProduct(LeftOf(asked), RightOf(asked))'
  BY ReturnsProduct
<1>3. error' = "none"
  BY DEF ResultInv
<1>4. ResultIsProduct'
  BY <1>1, <1>3 DEF ResultIsProduct
<1>5. FactorsInv' /\ OptionsInv'
  BY DEF FactorsInv, OptionsInv, ResultInv, Ready, Oriented
<1> QED
  BY <1>3, <1>4, <1>5 DEF ResultInv

\* A row of the product, all kept, when nothing can be below the threshold.
LEMMA KeptRows ==
  ASSUME ApiInv, Ready, SumsAboveMin(LeftOf(asked), RightOf(asked)),
         asked.opts.threshold = None, B.ncols <= asked.opts.top_n,
         NEW r \in 1 .. A.nrows, NEW R, R = Row(Cells(A), Cells(B), r - 1)
  PROVE  \E t \in Thresholds(asked.opts.threshold, A) : Selected(R, R, asked.opts.top_n, t, A)
<1>1. PICK x, y : x = LeftOf(asked) /\ y = RightOf(asked) /\ SumsAboveMin(x, y)
  OBVIOUS
<1>2. Cells(A) = Cells(x) /\ Cells(B) = Cells(y) /\ A.nrows = x.nrows
  BY <1>1 DEF Ready, Same
<1>3. PICK n, rw : n = A.nrows /\ n \in Nat /\ rw = r - 1 /\ rw \in 0 .. n - 1
  BY MatrixFacts DEF ApiInv
<1>4. \A c \in R : c.val > MinValue
  BY <1>1, <1>2, <1>3 DEF SumsAboveMin
<1>5. PICK w, top : w = B.ncols /\ w \in Nat /\ top = asked.opts.top_n /\ top \in Nat /\ w <= top
  BY MatrixFacts DEF ApiInv, Arguments
<1>6. Selected(R, R, top, MinValue, A)
  BY <1>3, <1>4, <1>5, AllSelected DEF ApiInv
<1> QED
  BY <1>5, <1>6 DEF Thresholds

LEMMA CheckDtypesResult ==
  ASSUME ApiInv, ResultInv, CheckDtypes
  PROVE  ResultInv'
<1>1. stage = "dtypes" /\ Ready
  BY DEF CheckDtypes, ResultInv, FactorsInv
<1>2. CASE Raise("TypeError")
  BY <1>1, <1>2, RaiseResult
<1>3. CASE /\ opts' = IF fn = "sp_matmul" THEN opts
                      ELSE [opts EXCEPT !.top_n = Least(@, B.ncols),
                                        !.threshold = Threshold(A, @)]
           /\ Goto("core")
           /\ UNCHANGED <<fn, A, B>>
  <2>1. Ready' /\ asked' = asked /\ stage' = "core"
    BY <1>1, <1>3 DEF Ready, Oriented, Goto
  <2>2. ASSUME fn = "sp_matmul_topn"
        PROVE  /\ opts'.top_n = Least(asked.opts.top_n, B.ncols)
               /\ opts'.threshold = Threshold(A, asked.opts.threshold)
    <3>1. opts.top_n = asked.opts.top_n /\ opts.threshold = asked.opts.threshold
      BY <1>1, <2>2 DEF ResultInv, OptionsInv
    <3>2. PICK n, h : n = Least(opts.top_n, B.ncols) /\ h = Threshold(A, opts.threshold)
      OBVIOUS
    <3>3. opts' = [opts EXCEPT !.top_n = n, !.threshold = h]
      BY <1>3, <2>2, <3>2
    <3>4. opts'.top_n = n /\ opts'.threshold = h
      BY <3>3 DEF ApiInv, Arguments
    <3> QED
      BY <3>1, <3>2, <3>4
  <2>3. FactorsInv' /\ OptionsInv'
    BY <1>1, <1>3, <2>1, <2>2 DEF ResultInv, FactorsInv, OptionsInv
  <2> QED
    BY <1>1, <1>3, <2>3, GoResult
<1>4. CASE /\ ~ (Stored(A) /\ Stored(B))
           /\ result' = [fmt |-> "csr", nrows |-> A.nrows, ncols |-> B.ncols,
                         dtype |-> A.dtype, lines |-> [r \in 1 .. A.nrows |-> <<>>]]
           /\ stage' = "returned"
           /\ UNCHANGED <<asked, frame, error, calls>>
  <2>1. CoreFactors
    BY <1>1 DEF CoreFactors, Ready, Oriented, ApiInv
  <2>2. PICK o : /\ o = [fmt |-> "csr", nrows |-> A.nrows, ncols |-> B.ncols,
                         dtype |-> A.dtype, lines |-> [r \in 1 .. A.nrows |-> <<>>]]
                 /\ o \in Matrices /\ o.nrows = A.nrows /\ o.ncols = B.ncols
                 /\ \A r \in 1 .. A.nrows :
                      RowOf(o, r - 1) = {} /\ Row(Cells(A), Cells(B), r - 1) = {}
    BY <1>4, <2>1, EmptyReturns
  <2>3. o = result'
    BY <1>4, <2>2
  <2>4. ASSUME NEW n \in Nat, NEW t PROVE Selected({}, {}, n, t, A)
    <3>1. Best({}, {} \ {}, n, t) /\ {} \in SUBSET ZerosOf({}, A)
      BY FS_EmptySet DEF Best, Above
    <3> QED
      BY <3>1, SelectedFacts
  <2>5. \E t : t \in Thresholds(asked.opts.threshold, A)
    BY DEF Thresholds
  <2>6. asked.opts.top_n \in Nat
    BY DEF ApiInv, Arguments
  <2>7. UNCHANGED <<asked, fn, A, B, opts, error>>
    BY <1>4 DEF frame
  <2> QED
    BY <1>1, <1>4, <2>2, <2>3, <2>4, <2>5, <2>6, <2>7, ReturnResult
<1> QED
  BY <1>2, <1>3, <1>4 DEF CheckDtypes

LEMMA CoreMatmulResult ==
  ASSUME ApiInv, ResultInv, CoreMatmul
  PROVE  ResultInv'
<1>1. stage = "core" /\ Ready
  BY DEF CoreMatmul, ResultInv, FactorsInv
<1>2. CoreFactors
  BY <1>1 DEF CoreFactors, Ready, Oriented, ApiInv
<1>3. /\ stage' = "returned" /\ UNCHANGED <<asked, fn, A, B, opts, error>>
      /\ result' \in Matrices /\ result'.nrows = A.nrows /\ result'.ncols = B.ncols
      /\ \A r \in 1 .. A.nrows : RowOf(result', r - 1) = Row(Cells(A), Cells(B), r - 1)
  BY <1>2, MatmulReturns
<1>4. ASSUME asked.fn # "sp_matmul"
      PROVE  asked.opts.threshold = None /\ B.ncols <= asked.opts.top_n
  <2>1. PICK w, n : w = B.ncols /\ w \in Nat /\ n = asked.opts.top_n /\ n \in Nat
    BY MatrixFacts DEF ApiInv, Arguments
  <2>2. CASE fn = "sp_matmul"
    BY <1>4, <2>1, <2>2 DEF ResultInv, OptionsInv
  <2>3. CASE fn # "sp_matmul"
    <3>1. fn = "sp_matmul_topn" /\ KeepsEverything
      BY <2>3 DEF CoreMatmul, KeepsAll, ApiInv, FunctionNames
    <3>2. /\ opts.top_n = Least(n, w) /\ opts.top_n = w
          /\ Threshold(A, asked.opts.threshold) = None
      BY <1>1, <2>1, <3>1 DEF KeepsEverything, ResultInv, OptionsInv
    <3>3. w <= n
      BY <2>1, <3>2 DEF Least
    <3>4. \A h \in Int : Rint(h) \in Int
      BY DEF Rint
    <3>5. asked.opts.threshold = None
      BY <3>2, <3>4, ApiAssumption DEF Threshold, ApiInv, Arguments
    <3> QED
      BY <2>1, <3>3, <3>5
  <2> QED
    BY <2>2, <2>3
<1>5. ASSUME asked.fn # "sp_matmul", SumsAboveMin(LeftOf(asked), RightOf(asked)),
             NEW r \in 1 .. A.nrows
      PROVE  \E t \in Thresholds(asked.opts.threshold, A) :
               Selected(RowOf(result', r - 1), Row(Cells(A), Cells(B), r - 1),
                        asked.opts.top_n, t, A)
  <2>1. PICK R : R = Row(Cells(A), Cells(B), r - 1) /\ R = RowOf(result', r - 1)
    BY <1>3
  <2> QED
    BY <1>1, <1>4, <1>5, <2>1, KeptRows
<1> QED
  BY <1>1, <1>3, <1>5, ReturnResult

LEMMA CoreTopNResult ==
  ASSUME ApiInv, ResultInv, CoreTopN
  PROVE  ResultInv'
<1>1. /\ stage = "core" /\ Ready /\ fn = "sp_matmul_topn" /\ asked.fn # "sp_matmul"
      /\ opts.top_n = Least(asked.opts.top_n, B.ncols)
      /\ opts.threshold = Threshold(A, asked.opts.threshold)
  BY DEF CoreTopN, KeepsAll, ResultInv, FactorsInv, OptionsInv, ApiInv, FunctionNames
<1>2. CoreFactors
  BY <1>1 DEF CoreFactors, Ready, Oriented, ApiInv
<1>3. ChunkWidth \in Nat \ {0}
  <2>1. ChunkWidth > 0
    BY <1>1 DEF ApiInv
  <2>2. ChunkWidth \in Int
    BY ApiAssumption DEF ChunkWidth, ApiInv, Arguments
  <2> QED
    BY <2>1, <2>2
<1>4. CASE Panics
  <2>1. Raise("PanicException")
    BY <1>4 DEF CoreTopN
  <2>2. ~ OneChunk /\ \E n \in DOMAIN B.lines : ~ InOrder(B.lines[n])
    BY <1>2, <1>3, <1>4, PanicFacts DEF CoreFactors
  <2> QED
    BY <1>1, <2>1, <2>2, RaiseResult
<1>5. CASE ~ Panics
  <2>1. /\ stage' = "returned" /\ UNCHANGED <<asked, fn, A, B, opts, error>>
        /\ result' \in Matrices /\ result'.nrows = A.nrows /\ result'.ncols = B.ncols
        /\ \A r \in 1 .. A.nrows :
             Selected(RowOf(result', r - 1), Row(Cells(A), Cells(B), r - 1), opts.top_n,
                      IF opts.threshold = None THEN MinValue ELSE opts.threshold, A)
    BY <1>2, <1>3, <1>5, TopNReturns
  <2>2. ASSUME NEW r \in 1 .. A.nrows
        PROVE  \E t \in Thresholds(asked.opts.threshold, A) :
                 Selected(RowOf(result', r - 1), Row(Cells(A), Cells(B), r - 1),
                          asked.opts.top_n, t, A)
    <3>1. PICK part, R, rw : /\ rw = r - 1 /\ part = RowOf(result', rw)
                         /\ R = Row(Cells(A), Cells(B), rw)
      OBVIOUS
    <3>2. PICK w, n, given :
            /\ w = B.ncols /\ w \in Nat /\ n = asked.opts.top_n /\ n \in Nat
            /\ given = asked.opts.threshold /\ given \in Int \cup {None}
      BY MatrixFacts DEF ApiInv, Arguments
    <3>3. PICK top, h : top = opts.top_n /\ h = opts.threshold
      OBVIOUS
    <3>4. Selected(part, R, top, Bound(h), A)
      BY <2>1, <3>1, <3>3 DEF Bound
    <3>5. top = Least(n, w) /\ h = Threshold(A, given)
      BY <1>1, <3>2, <3>3
    <3>6. \E t \in Thresholds(given, A) : Selected(part, R, n, t, A)
      BY <1>2, <3>1, <3>2, <3>4, <3>5, OptionsSelect DEF CoreFactors
    <3> QED
      BY <3>1, <3>2, <3>6
  <2> QED
    BY <1>1, <2>1, <2>2, ReturnResult
<1> QED
  BY <1>4, <1>5

-----------------------------------------------------------------------------
(* What the checks establish *)

LEMMA ApiStart ==
  ASSUME ApiInit
  PROVE  ApiInv /\ ResultInv
<1>1. PICK p \in Pairs, o \in Options, f \in FunctionNames :
        /\ asked = [fn |-> f, A |-> p.A, B |-> p.B, opts |-> o]
        /\ fn = f /\ A = p.A /\ B = p.B /\ opts = o
        /\ stage = "types" /\ error = "none"
  BY DEF ApiInit, FunctionNames
<1>2. p.A \in Matrices /\ p.B \in Matrices /\ o \in Arguments
  BY ApiAssumption
<1>3. ApiInv
  BY <1>1, <1>2 DEF ApiInv
<1>4. ResultInv
  BY <1>1 DEF ResultInv, FactorsInv, OptionsInv, ResultIsProduct
<1> QED
  BY <1>3, <1>4

LEMMA ChainPreserves ==
  ASSUME ApiInv, Chain
  PROVE  ApiInv' /\ ResultInv'
<1>1. PICK f \in FunctionNames : Begin(f, asked.A, result, asked.opts)
  BY DEF Chain, FunctionNames
<1>2. ResultInv'
  BY <1>1, StartResult
<1>3. ApiInv'
  BY <1>1 DEF Chain, Begin, ApiInv
<1> QED
  BY <1>2, <1>3

LEMMA RaisePreserves ==
  ASSUME ApiInv, NEW exception, Raise(exception), stage # "returned"
  PROVE  ApiInv'
BY DEF Raise, frame, ApiInv

LEMMA CheckArgumentsPreserves ==
  ASSUME ApiInv, CheckArguments
  PROVE  ApiInv'
<1>1. ASSUME NEW e, Raise(e) PROVE ApiInv'
  BY <1>1, RaisePreserves DEF CheckArguments
<1>2. CASE /\ ~ (BadIndexType \/ BadWidth)
           /\ opts' = [opts EXCEPT !.n_threads = NThreads(@),
                                   !.idx_dtype = AssertedIndexType(@)]
           /\ Goto("factors")
           /\ UNCHANGED <<fn, A, B>>
  <2>1. PICK t : /\ t = NThreads(opts.n_threads) /\ t \in Int /\ t > 0
    BY ApiAssumption DEF ApiInv, Arguments, NThreads
  <2>2. PICK d \in {"int32", "int64"} :
          /\ d = AssertedIndexType(opts.idx_dtype)
          /\ d = IndexType
    BY <1>2 DEF BadIndexType, AssertedIndexType, CheckArguments, IndexType, ApiInv
  <2>3. opts' = [opts EXCEPT !.n_threads = t, !.idx_dtype = d]
    BY <1>2, <2>1, <2>2
  <2>4. /\ opts' \in Arguments /\ opts'.n_threads = t /\ opts'.idx_dtype = d
        /\ opts'.chunk_cols = opts.chunk_cols /\ opts.chunk_cols \in Int \cup {None}
    BY <2>1, <2>3 DEF ApiInv, Arguments
  <2>5. fn = "sp_matmul_topn" => ChunkWidth' > 0
    <3>1. fn = "sp_matmul_topn" => opts.chunk_cols = None \/ opts.chunk_cols > 0
      BY <1>2, <2>4 DEF BadWidth
    <3> QED
      BY <2>4, <3>1, ApiAssumption DEF ChunkWidth
  <2>6. asked' = asked /\ fn' = fn /\ stage' = "factors" /\ IndexType' = IndexType
    BY <1>2 DEF Goto, IndexType
  <2> QED
    BY <1>2, <2>1, <2>2, <2>4, <2>5, <2>6 DEF Goto, ApiInv
<1> QED
  BY <1>1, <1>2 DEF CheckArguments

LEMMA ConvertFactorsPreserves ==
  ASSUME ApiInv, ConvertFactors
  PROVE  ApiInv'
<1>1. ASSUME NEW e, Raise(e) PROVE ApiInv'
  BY <1>1, RaisePreserves DEF ConvertFactors
<1>2. ASSUME A' \in Matrices, B' \in Matrices, A'.fmt = "csr", stage = "factors",
             Goto("shapes"), UNCHANGED <<fn, opts>>
      PROVE  ApiInv'
  <2>1. (fn = "sp_matmul_topn" => ChunkWidth' > 0)
    BY <1>2 DEF ApiInv, ChunkWidth
  <2> QED
    BY <1>2, <2>1 DEF Goto, ApiInv, IndexType
<1>3. CASE /\ BothTransposed
           /\ A' = Transpose(A) /\ B' = Transpose(B)
           /\ Goto("shapes") /\ UNCHANGED <<fn, opts>>
  BY <1>2, <1>3, TransposeFacts DEF ConvertFactors, ApiInv, BothTransposed
<1>4. CASE /\ ~ BothTransposed /\ {A.fmt, B.fmt} \subseteq Formats
           /\ A' = (IF A.fmt = "csr" THEN A ELSE ToCsr(A))
           /\ Goto("shapes") /\ UNCHANGED <<fn, B, opts>>
  BY <1>2, <1>4, ToCsrFacts DEF ConvertFactors, ApiInv
<1> QED
  BY <1>1, <1>3, <1>4 DEF ConvertFactors

LEMMA OrientBPreserves ==
  ASSUME ApiInv, OrientB
  PROVE  ApiInv'
<1>1. ASSUME NEW e, Raise(e) PROVE ApiInv'
  BY <1>1, RaisePreserves DEF OrientB
<1>2. ASSUME B' \in Matrices, B'.fmt = "csr", A.ncols = B'.nrows, stage = "shapes",
             Goto("shortcut"), UNCHANGED <<fn, A, opts>>
      PROVE  ApiInv'
  <2>1. (fn = "sp_matmul_topn" => ChunkWidth' > 0)
    BY <1>2 DEF ApiInv, ChunkWidth
  <2> QED
    BY <1>2, <2>1 DEF Goto, ApiInv, Oriented, IndexType
<1>3. CASE /\ A.ncols = B.nrows
           /\ B' = (IF B.fmt = "csr" THEN B ELSE ToCsr(B))
           /\ Goto("shortcut") /\ UNCHANGED <<fn, A, opts>>
  BY <1>2, <1>3, ToCsrFacts DEF OrientB, ApiInv, Same
<1>4. CASE /\ A.ncols # B.nrows /\ A.ncols = B.ncols
           /\ B' = (IF B.fmt = "csc" THEN Transpose(B) ELSE ToCsr(Transpose(B)))
           /\ Goto("shortcut") /\ UNCHANGED <<fn, A, opts>>
  BY <1>2, <1>4, ToCsrFacts, TransposeFacts DEF OrientB, ApiInv, Same
<1> QED
  BY <1>1, <1>3, <1>4 DEF OrientB

LEMMA ShortcutPreserves ==
  ASSUME ApiInv, Shortcut
  PROVE  ApiInv'
<1>1. CASE /\ fn' = "sp_matmul" /\ opts' = [opts EXCEPT !.idx_dtype = None]
           /\ Goto("types")
  <2>1. opts' \in Arguments
    BY <1>1 DEF ApiInv, Arguments
  <2> QED
    BY <1>1, <2>1 DEF Shortcut, Goto, ApiInv, FunctionNames
<1>2. CASE Goto("dtypes") /\ UNCHANGED <<fn, opts>>
  <2>1. (fn = "sp_matmul_topn" => ChunkWidth' > 0)
    BY <1>2 DEF Shortcut, ApiInv, ChunkWidth
  <2> QED
    BY <1>2, <2>1 DEF Shortcut, Goto, ApiInv, Oriented, IndexType
<1> QED
  BY <1>1, <1>2 DEF Shortcut

LEMMA CheckDtypesPreserves ==
  ASSUME ApiInv, CheckDtypes
  PROVE  ApiInv'
<1>1. ASSUME NEW e, Raise(e) PROVE ApiInv'
  BY <1>1, RaisePreserves DEF CheckDtypes
<1>2. CASE /\ Compatible(A, B) /\ Stored(A) /\ Stored(B)
           /\ opts' = IF fn = "sp_matmul" THEN opts
                      ELSE [opts EXCEPT !.top_n = Least(@, B.ncols),
                                        !.threshold = Threshold(A, @)]
           /\ Goto("core")
           /\ UNCHANGED <<fn, A, B>>
  <2>1. PICK c \in Nat : c = B.ncols
    BY MatrixFacts DEF ApiInv
  <2>2. PICK n \in Nat : n = Least(opts.top_n, c) /\ n <= c
    BY <2>1 DEF ApiInv, Arguments, Least
  <2>3. PICK t \in Int \cup {None} : t = Threshold(A, opts.threshold)
    <3>1. opts.threshold \in Int \cup {None}
      BY DEF ApiInv, Arguments
    <3>2. ASSUME NEW h \in Int PROVE Rint(h) \in Int
      BY DEF Rint
    <3> QED
      BY <3>1, <3>2 DEF Threshold
  <2>4. opts' = opts \/ opts' = [opts EXCEPT !.top_n = n, !.threshold = t]
    BY <1>2, <2>1, <2>2, <2>3
  <2>5. /\ opts' \in Arguments /\ opts'.n_threads = opts.n_threads
        /\ opts'.idx_dtype = opts.idx_dtype /\ opts'.chunk_cols = opts.chunk_cols
    BY <2>4 DEF ApiInv, Arguments
  <2>6. fn = "sp_matmul_topn" => opts'.top_n = n
    BY <1>2, <2>1, <2>2, <2>3 DEF ApiInv, Arguments
  <2>7. (fn = "sp_matmul_topn" => ChunkWidth' > 0)
    BY <2>5 DEF CheckDtypes, ApiInv, ChunkWidth
  <2>8. IndexType' = IndexType
    BY <1>2 DEF Goto, IndexType
  <2> QED
    BY <1>2, <2>1, <2>2, <2>5, <2>6, <2>7, <2>8 DEF CheckDtypes, Goto, ApiInv, Oriented, Compatible
<1>3. CASE /\ ~ (Stored(A) /\ Stored(B))
           /\ result' = [fmt |-> "csr", nrows |-> A.nrows, ncols |-> B.ncols,
                         dtype |-> A.dtype, lines |-> [r \in 1 .. A.nrows |-> <<>>]]
           /\ stage' = "returned"
           /\ UNCHANGED <<asked, frame, error, calls>>
  <2>1. result' \in Matrices
    BY <1>3, EmptyReturns DEF CheckDtypes, CoreFactors, ApiInv, Oriented
  <2> QED
    BY <1>3, <2>1 DEF frame, ApiInv
<1> QED
  BY <1>1, <1>2, <1>3 DEF CheckDtypes

LEMMA ReturnPreserves ==
  ASSUME ApiInv, stage' = "returned", UNCHANGED <<asked, fn, A, B, opts, error>>,
         result' \in Matrices
  PROVE  ApiInv'
BY DEF ApiInv

LEMMA CorePreserves ==
  ASSUME ApiInv, CoreMatmul \/ CoreTopN
  PROVE  ApiInv'
<1>1. stage = "core" /\ CoreFactors
  BY DEF CoreMatmul, CoreTopN, ApiInv, Oriented, CoreFactors
<1>2. CASE CoreMatmul
  BY <1>1, <1>2, MatmulReturns, ReturnPreserves
<1>3. CASE CoreTopN
  <2>1. ChunkWidth \in Nat \ {0}
    <3>1. ChunkWidth > 0
      BY <1>1, <1>3 DEF CoreTopN, KeepsAll, ApiInv, FunctionNames
    <3>2. ChunkWidth \in Int
      BY ApiAssumption DEF ChunkWidth, ApiInv, Arguments
    <3> QED
      BY <3>1, <3>2
  <2>2. CASE Panics
    BY <1>1, <1>3, <2>2, RaisePreserves DEF CoreTopN
  <2>3. CASE ~ Panics
    BY <1>1, <1>3, <2>1, <2>3, TopNReturns, ReturnPreserves
  <2> QED
    BY <2>2, <2>3
<1> QED
  BY <1>2, <1>3

LEMMA ApiStep ==
  ApiInv /\ ResultInv /\ [ApiNext]_apiVars => (ApiInv /\ ResultInv)'
<1> SUFFICES ASSUME ApiInv, ResultInv, [ApiNext]_apiVars PROVE ApiInv' /\ ResultInv'
  OBVIOUS
<1>1. CASE Chain
  BY <1>1, ChainPreserves
<1>2. CASE CheckArguments
  BY <1>2, CheckArgumentsPreserves, CheckArgumentsResult
<1>3. CASE ConvertFactors
  BY <1>3, ConvertFactorsPreserves, ConvertFactorsResult
<1>4. CASE OrientB
  BY <1>4, OrientBPreserves, OrientBResult
<1>5. CASE Shortcut
  BY <1>5, ShortcutPreserves, ShortcutResult
<1>6. CASE CheckDtypes
  BY <1>6, CheckDtypesPreserves, CheckDtypesResult
<1>7. CASE CoreMatmul
  BY <1>7, CorePreserves, CoreMatmulResult
<1>8. CASE CoreTopN
  BY <1>8, CorePreserves, CoreTopNResult
<1>9. CASE UNCHANGED apiVars
  <2>1. ApiInv'
    BY <1>9 DEF apiVars, frame, ApiInv, Oriented, ChunkWidth, IndexType
  <2>2. FactorsInv' /\ OptionsInv'
    BY <1>9 DEF apiVars, frame, ResultInv, FactorsInv, OptionsInv, Ready, Oriented
  <2>3. ResultIsProduct'
    BY <1>9 DEF apiVars, frame, ResultInv, ResultIsProduct, IsProduct, OneChunk, ChunkWidth
  <2> QED
    BY <1>9, <2>1, <2>2, <2>3 DEF apiVars, ResultInv
<1> QED
  BY <1>1, <1>2, <1>3, <1>4, <1>5, <1>6, <1>7, <1>8, <1>9 DEF ApiNext

\* What has been checked stays true on both ways to the core, and the factors and
\* options stay those of the promised product (api.py, types.py).
THEOREM ApiInvariant == ApiSpec => [](ApiInv /\ ResultInv)
<1>1. ApiInit => ApiInv /\ ResultInv
  BY ApiStart
<1>2. ApiInv /\ ResultInv /\ [ApiNext]_apiVars => (ApiInv /\ ResultInv)'
  BY ApiStep
<1> QED
  BY <1>1, <1>2, PTL DEF ApiSpec

\* The core never gets arguments it asserts against, whatever the caller wrote.
THEOREM CoreIsAlwaysCalledRight ==
  ApiSpec => []CoreIsCalledRight
<1>1. ApiInv => CoreIsCalledRight
  BY DEF ApiInv, Oriented, CoreIsCalledRight
<1> QED
  BY <1>1, ApiInvariant, PTL

\* A call returns the product that its shapes define, or the caller's selection
\* of each of its rows, whatever the formats, the options and the chunk width,
\* and through the detour over sp_matmul; it panics only where a row of B is out
\* of column order and cut into chunks (api.py, chunked.rs).
THEOREM ResultIsAlwaysProduct ==
  ApiSpec => []ResultIsProduct
<1>1. ResultInv => ResultIsProduct
  BY DEF ResultInv
<1> QED
  BY <1>1, ApiInvariant, PTL
=============================================================================
