------------------------------ MODULE CallProofs ------------------------------
(***************************************************************************)
(* Proofs about how a call comes to its kernel: which way the entry point  *)
(* takes, and which clone of the kernel runs.                              *)
(*                                                                         *)
(* Routing: for every shape, every matrix and every option setting the     *)
(* kernels are called within their assumptions.  The one thing that is not *)
(* read off the guards is that default_chunk_cols yields a width at all,   *)
(* which rests on the existence of the next power of two.                  *)
(*                                                                         *)
(* SimdDispatch, for any set of threads: OneClone is not inductive.  A     *)
(* decision acted on comes from state or from a detection under way, so    *)
(* both have to agree with the last override (Settled), and no detection   *)
(* may be under way after one that forces the baseline.                    *)
(***************************************************************************)
EXTENDS Routing, SimdDispatch, SequenceLemmas, FunctionTheorems

-----------------------------------------------------------------------------
(* Counting stored entries *)

LEMMA NnzAIsNat ==
  ASSUME a \in AMatrices
  PROVE  NnzA \in Nat /\ (NnzA = 0 => \A i \in DOMAIN a : a[i] = <<>>)
<1>1. PICK T : a \in Seq(Seq(T))
  BY RoutingAssumption
<1>2. PICK n \in Nat : n = Len(a)
  BY <1>1
<1>3. DOMAIN a = 1 .. n /\ \A i \in 1 .. n : a[i] \in Seq(T) /\ Len(a[i]) \in Nat
  BY <1>1, <1>2
<1> DEFINE w == [i \in 1 .. n |-> Len(a[i])]
<1>4. w \in [1 .. n -> Nat]
  BY <1>3
<1>5. \A s \in SUBSET (1 .. n) : s # {} => Max(s) \in 1 .. n
  BY MaxExists DEF Max
<1> DEFINE Folds(g) == g = [s \in SUBSET (1 .. n) |->
                              IF s = {} THEN 0 ELSE g[s \ {Max(s)}] + Len(a[Max(s)])]
<1>6. \A g : Folds(g) <=> SumsUp(g, n, w)
  BY <1>5 DEF SumsUp
<1>7. NnzA = (CHOOSE g : Folds(g))[1 .. n]
  BY <1>3 DEF NnzA, FoldLeft, MapThenFoldSet
<1>8. \A x \in 1 .. n : w[x] = 0 => a[x] = <<>>
  BY <1>3
<1> HIDE DEF Folds, w
<1>9. PICK g : Folds(g) /\ NnzA = g[1 .. n]
  BY <1>4, <1>6, <1>7, FoldIsNat
<1> QED
  BY <1>3, <1>4, <1>6, <1>8, <1>9, FoldIsNat

LEMMA NnzBIsNat ==
  ASSUME b \in BMatrices
  PROVE  NnzB \in Nat /\ (NnzB = 0 => \A j \in 0 .. NRowsB - 1 : b[j] = <<>>)
<1>1. PICK T : b \in [0 .. NRowsB - 1 -> Seq(T)]
  BY RoutingAssumption
<1>2. PICK n \in Nat : n = NRowsB
  BY RoutingAssumption
<1>3. \A j \in 1 .. n : j - 1 \in 0 .. NRowsB - 1 /\ Len(b[j - 1]) \in Nat
  BY <1>1, <1>2
<1> DEFINE w == [j \in 1 .. n |-> Len(b[j - 1])]
           number == [j \in 1 .. NRowsB |-> j]
<1>4. w \in [1 .. n -> Nat]
  BY <1>3
<1>5. \A s \in SUBSET (1 .. n) : s # {} => Max(s) \in 1 .. n
  BY MaxExists DEF Max
<1> DEFINE Folds(g) == g = [s \in SUBSET (1 .. n) |->
                              IF s = {} THEN 0 ELSE g[s \ {Max(s)}] + Len(b[number[Max(s)] - 1])]
<1>6. \A g : Folds(g) <=> SumsUp(g, n, w)
  BY <1>2, <1>5 DEF SumsUp
<1>7. NnzB = (CHOOSE g : Folds(g))[1 .. n]
  BY <1>2 DEF NnzB, FoldLeft, MapThenFoldSet
<1>8. \A j \in 0 .. NRowsB - 1 : j + 1 \in 1 .. n /\ (w[j + 1] = 0 => b[j] = <<>>)
  BY <1>1, <1>2, <1>3
<1> HIDE DEF Folds, w
<1>9. PICK g : Folds(g) /\ NnzB = g[1 .. n]
  BY <1>4, <1>6, <1>7, FoldIsNat
<1> QED
  BY <1>3, <1>4, <1>6, <1>8, <1>9, FoldIsNat

-----------------------------------------------------------------------------
(* The default chunk width *)

\* Powers of two grow by doubling: 2 ^ i counts the subsets of i numbers.
LEMMA PowersOfTwo ==
  /\ 2 ^ 0 = 1
  /\ \A i \in Nat : 2 ^ i \in Nat /\ 2 ^ (i + 1) = 2 * 2 ^ i
<1>1. ASSUME NEW i \in Nat
      PROVE  IsFiniteSet(SUBSET (1 .. i)) /\ Cardinality(SUBSET (1 .. i)) = 2 ^ i
  <2>1. IsFiniteSet(1 .. i) /\ Cardinality(1 .. i) = i
    BY FS_Interval
  <2> QED
    BY <2>1, FS_SUBSET
<1>2. 2 ^ 0 = 1
  <2>1. SUBSET (1 .. 0) = {{}}
    OBVIOUS
  <2> QED
    BY <1>1, <2>1, FS_Singleton
<1>3. ASSUME NEW i \in Nat
      PROVE  2 ^ i \in Nat /\ 2 ^ (i + 1) = 2 * 2 ^ i
  <2> DEFINE Old == SUBSET (1 .. i)
             New == {s \cup {i + 1} : s \in Old}
             f == [s \in Old |-> s \cup {i + 1}]
  <2>1. SUBSET (1 .. i + 1) = Old \cup New
    <3>1. ASSUME NEW t \in SUBSET (1 .. i + 1), i + 1 \in t PROVE t \in New
      <4>1. t \ {i + 1} \in Old /\ t = (t \ {i + 1}) \cup {i + 1}
        BY <3>1
      <4> QED
        BY <4>1
    <3>2. ASSUME NEW t \in SUBSET (1 .. i + 1), i + 1 \notin t PROVE t \in Old
      BY <3>2
    <3>3. ASSUME NEW t \in Old \cup New PROVE t \in SUBSET (1 .. i + 1)
      OBVIOUS
    <3> QED
      BY <3>1, <3>2, <3>3
  <2>2. Old \cap New = {}
    OBVIOUS
  <2>3. f \in Bijection(Old, New)
    <3>1. f \in [Old -> New] /\ \A t \in New : \E s \in Old : f[s] = t
      OBVIOUS
    <3>2. ASSUME NEW s \in Old, NEW t \in Old, f[s] = f[t] PROVE s = t
      <4>1. s \cup {i + 1} = t \cup {i + 1} /\ i + 1 \notin s /\ i + 1 \notin t
        BY <3>2
      <4> QED
        BY <4>1
    <3> HIDE DEF Old, New, f
    <3> QED
      BY <3>1, <3>2 DEF Bijection, Injection, Surjection, IsInjective
  <2> HIDE DEF Old, New, f
  <2>4. IsFiniteSet(Old) /\ Cardinality(Old) = 2 ^ i
    BY <1>1 DEF Old
  <2>5. IsFiniteSet(New) /\ Cardinality(New) = Cardinality(Old)
    BY <2>3, <2>4, FS_Bijection DEF ExistsBijection
  <2>6. Cardinality(Old) \in Nat
    BY <2>4, FS_CardinalityType
  <2>7. Cardinality(Old \cup New) = Cardinality(Old) + Cardinality(New) - 0
    BY <2>2, <2>4, <2>5, FS_Union, FS_EmptySet
  <2>8. PICK m \in Nat : m = i + 1
    OBVIOUS
  <2>9. 2 ^ m = Cardinality(SUBSET (1 .. m))
    BY <1>1
  <2>10. PICK c \in Nat : c = Cardinality(Old)
    BY <2>6
  <2>11. Cardinality(SUBSET (1 .. m)) = 2 * c
    <3>1. SUBSET (1 .. m) = Old \cup New
      BY <2>1, <2>8
    <3>2. Cardinality(Old \cup New) = c + c - 0
      BY <2>5, <2>7, <2>10
    <3> QED
      BY <3>1, <3>2
  <2> QED
    BY <2>4, <2>8, <2>9, <2>10, <2>11
<1> QED
  BY <1>2, <1>3

\* Every positive number is less than a factor of two below a power of two.
LEMMA NextPowerExists ==
  ASSUME NEW x \in Nat \ {0}
  PROVE  \E i \in 0 .. x : x <= 2 ^ i /\ 2 ^ i < 2 * x
<1> DEFINE Has(y) == \E i \in 0 .. y + 1 : y + 1 <= 2 ^ i /\ 2 ^ i < 2 * (y + 1)
           R == {y \in Nat : Has(y)}
<1>1. Has(0)
  BY PowersOfTwo
<1>2. ASSUME NEW y \in Nat, Has(y)
      PROVE  Has(y + 1)
  <2>1. PICK i \in 0 .. y + 1 : y + 1 <= 2 ^ i /\ 2 ^ i < 2 * (y + 1)
    BY <1>2
  <2>2. PICK p \in Nat : p = 2 ^ i /\ 2 ^ (i + 1) = 2 * p
    BY PowersOfTwo
  <2>3. CASE y + 2 <= p
    BY <2>1, <2>2, <2>3
  <2>4. CASE ~ (y + 2 <= p)
    <3>1. (y + 1) + 1 <= 2 ^ (i + 1) /\ 2 ^ (i + 1) < 2 * ((y + 1) + 1)
      BY <2>1, <2>2, <2>4
    <3>2. i + 1 \in 0 .. (y + 1) + 1
      OBVIOUS
    <3> QED
      BY <3>1, <3>2
  <2> QED
    BY <2>3, <2>4
<1> HIDE DEF Has
<1>3. 0 \in R /\ \A y \in Nat : y \in R => y + 1 \in R
  BY <1>1, <1>2
<1>4. \A y \in R : y \in Nat /\ Has(y)
  OBVIOUS
<1> HIDE DEF R
<1>5. \A y \in Nat : y \in R
  BY <1>3, Induction
<1>6. PICK y \in Nat : y + 1 = x
  BY SMT
<1>7. Has(y)
  BY <1>4, <1>5
<1> QED
  BY <1>6, <1>7 DEF Has

\* The default width lies between its bounds, whatever the cache size is.
LEMMA DefaultWidth ==
  ASSUME l1d \in Caches
  PROVE  DefaultChunkCols \in Nat \ {0}
<1>1. PICK cache \in Nat : cache = Or(l1d, FALLBACK_L1D_BYTES)
  BY RoutingAssumption DEF Or
<1>2. PICK size \in Nat : size = SizeOfV + 4 /\ size > 0
  BY RoutingAssumption
<1>3. PICK raw \in Nat \ {0} : raw = Most(cache \div size, 1)
  BY <1>2 DEF Most
<1>4. PICK p \in Nat : p = NextPowerOfTwo(raw)
  <2>1. NextPowerOfTwo(raw) \in {2 ^ i : i \in 0 .. raw}
    BY NextPowerExists DEF NextPowerOfTwo
  <2> QED
    BY <2>1, PowersOfTwo
<1>5. DefaultChunkCols = Clamp(p \div 2, FLOOR, CEIL)
  BY <1>1, <1>2, <1>3, <1>4 DEF DefaultChunkCols
<1> QED
  BY <1>5, RoutingAssumption DEF Clamp, Least, Most

-----------------------------------------------------------------------------
(* The invariant *)

RouteTypes ==
  [parallel : BOOLEAN, chunk_cols : Int \cup {None},
   projection : BProjection \cup {None}, tile : BOOLEAN, row_block : Nat \cup {None}]

\* A call past the short-circuits has entries on both sides and asks for one
\* entry at least; what has been decided stays decided.
RouteInv ==
  /\ l1d \in Caches /\ a \in AMatrices /\ b \in BMatrices /\ opts \in Options
  /\ pc \in {"entry", "width", "blocking", "run", "returned", "panic"}
  /\ route \in RouteTypes
  /\ pc \in {"width", "blocking", "run"} => ~ Degenerate
  /\ pc \in {"blocking", "run"} => route.chunk_cols \in 1 .. NCols
  /\ pc = "run" => /\ route.row_block # 0
                   /\ route.tile => Supports(route.chunk_cols)
  /\ pc = "panic" => opts.chunk_cols = 0

\* The numbers of stored entries are those of the call.
LEMMA EntriesUnchanged ==
  ASSUME UNCHANGED call
  PROVE  NnzA' = NnzA /\ NnzB' = NnzB /\ (Degenerate' <=> Degenerate)
<1>1. a' = a /\ b' = b /\ opts' = opts
  BY DEF call
<1>2. NnzA' = NnzA
  BY <1>1 DEF NnzA, FoldLeft, MapThenFoldSet
<1>3. NnzB' = NnzB
  BY <1>1 DEF NnzB, FoldLeft, MapThenFoldSet
<1> QED
  BY <1>1, <1>2, <1>3 DEF Degenerate

LEMMA RouteInit == Init => RouteInv
BY DEF Init, RouteInv, NoRoute, RouteTypes

LEMMA WidthIsRight ==
  ASSUME NEW raw \in Nat \ {0}
  PROVE  Width(raw) \in 1 .. NCols
BY RoutingAssumption DEF Width, Least, Most

LEMMA ResolveWidthPreserves ==
  ASSUME RouteInv, ResolveWidth
  PROVE  RouteInv'
<1> USE DEF RouteInv, call
<1>1. opts \in TopNOptions
  BY RoutingAssumption
<1>2. PICK raw \in Nat : raw = Or(opts.chunk_cols, DefaultChunkCols) /\ (raw = 0 => opts.chunk_cols = 0)
  BY <1>1, DefaultWidth, RoutingAssumption DEF TopNOptions, Or
<1>3. CASE raw = 0 /\ pc' = "panic" /\ UNCHANGED route
  BY <1>2, <1>3 DEF ResolveWidth
<1>4. CASE /\ raw > 0
           /\ route' = [route EXCEPT !.chunk_cols = Width(raw),
                          !.projection = Or(opts.projection, Projection(Width(raw)))]
           /\ pc' = "blocking"
  <2>1. Width(raw) \in 1 .. NCols
    BY <1>4, WidthIsRight
  <2>2. Or(opts.projection, Projection(Width(raw))) \in BProjection \cup {None}
    BY <1>1 DEF TopNOptions, Or, Projection, BProjection
  <2>3. route' \in RouteTypes /\ route'.chunk_cols \in 1 .. NCols
    <3>1. PICK w \in 1 .. NCols : w = Width(raw)
      BY <2>1
    <3>2. PICK p \in BProjection \cup {None} : p = Or(opts.projection, Projection(Width(raw)))
      BY <2>2
    <3>3. route' = [route EXCEPT !.chunk_cols = w, !.projection = p]
      BY <1>4, <3>1, <3>2
    <3>4. w \in Int
      BY RoutingAssumption
    <3> QED
      BY <3>3, <3>4 DEF RouteTypes
  <2>4. ~ Degenerate'
    BY EntriesUnchanged DEF ResolveWidth
  <2> QED
    BY <1>4, <2>3, <2>4 DEF ResolveWidth
<1> QED
  BY <1>2, <1>3, <1>4 DEF ResolveWidth

LEMMA BlockingIsRight ==
  ASSUME RouteInv, NEW width
  PROVE  LET choice == Blocking(width) IN
         /\ choice.tile \in BOOLEAN /\ choice.row_block \in (Nat \cup {None}) \ {0}
         /\ choice.tile => Supports(width)
<1>1. opts \in TopNOptions
  BY RoutingAssumption DEF RouteInv
<1>2. opts.row_block \in Nat \cup {None} /\ opts.tile_b \in BOOLEAN /\ None # 0
  BY <1>1, RoutingAssumption DEF TopNOptions
<1>3. CASE opts.row_block = 0
  <2>1. Blocking(width) = [tile |-> FALSE, row_block |-> None]
    BY <1>2, <1>3 DEF Blocking
  <2> QED
    BY <1>2, <2>1
<1>4. CASE opts.row_block # 0 /\ (opts.tile_b \/ opts.row_block # None)
  <2>1. Blocking(width) = [tile |-> opts.tile_b /\ Supports(width), row_block |-> opts.row_block]
    BY <1>2, <1>4 DEF Blocking
  <2>2. PICK tile \in BOOLEAN : tile <=> (opts.tile_b /\ Supports(width))
    OBVIOUS
  <2>3. Blocking(width) = [tile |-> tile, row_block |-> opts.row_block]
    <3>1. (opts.tile_b /\ Supports(width)) = tile
      BY <2>2, Zenon DEF Supports
    <3> QED
      BY <2>1, <3>1
  <2> QED
    BY <1>2, <1>4, <2>2, <2>3
<1>5. CASE opts.row_block = None /\ ~ opts.tile_b
  <2>1. Blocking(width) = IF AutoTile(width) THEN [tile |-> TRUE, row_block |-> DefaultRowBlock]
                                             ELSE [tile |-> FALSE, row_block |-> None]
    BY <1>2, <1>5 DEF Blocking
  <2>2. AutoTile(width) => Supports(width)
    BY DEF AutoTile
  <2> QED
    BY <1>2, <2>1, <2>2, RoutingAssumption
<1> QED
  BY <1>2, <1>3, <1>4, <1>5

LEMMA ResolveBlockingPreserves ==
  ASSUME RouteInv, ResolveBlocking
  PROVE  RouteInv'
<1> USE DEF RouteInv, call
<1>1. PICK choice : /\ choice = Blocking(route.chunk_cols)
                    /\ choice.tile \in BOOLEAN /\ choice.row_block \in (Nat \cup {None}) \ {0}
                    /\ choice.tile => Supports(route.chunk_cols)
  BY BlockingIsRight
<1>2. route' = [route EXCEPT !.tile = choice.tile, !.row_block = choice.row_block]
  BY <1>1 DEF ResolveBlocking
<1>3. /\ route' \in RouteTypes /\ route'.chunk_cols = route.chunk_cols
      /\ route'.tile = choice.tile /\ route'.row_block = choice.row_block
  BY <1>1, <1>2 DEF RouteTypes
<1>4. ~ Degenerate' /\ (choice.tile => Supports(route.chunk_cols)')
  BY <1>1, <1>3, EntriesUnchanged DEF ResolveBlocking, Supports
<1> QED
  BY <1>1, <1>3, <1>4 DEF ResolveBlocking

LEMMA RouteStep == RouteInv /\ [Next]_vars => RouteInv'
<1> SUFFICES ASSUME RouteInv, [Next]_vars PROVE RouteInv'
  OBVIOUS
<1>1. CASE ShortCircuit
  BY <1>1 DEF ShortCircuit, Return, RouteInv, call
<1>2. CASE FastPath
  BY <1>2 DEF FastPath, Return, RouteInv, call
<1>3. CASE ToKernel
  <2>1. route' \in RouteTypes
    <3>1. PICK parallel \in BOOLEAN : parallel <=> IsParallel
      OBVIOUS
    <3>2. IsParallel = parallel
      BY <3>1 DEF IsParallel
    <3>3. route' = [route EXCEPT !.parallel = parallel]
      BY <1>3, <3>2 DEF ToKernel
    <3> QED
      BY <3>3 DEF RouteInv, RouteTypes
  <2>2. ~ Degenerate'
    BY <1>3, EntriesUnchanged DEF ToKernel
  <2> QED
    BY <1>3, <2>1, <2>2 DEF ToKernel, RouteInv, call
<1>4. CASE ResolveWidth
  BY <1>4, ResolveWidthPreserves
<1>5. CASE ResolveBlocking
  BY <1>5, ResolveBlockingPreserves
<1>6. CASE RunKernel
  BY <1>6 DEF RunKernel, Return, RouteInv, call
<1>7. CASE UNCHANGED vars
  <2>1. UNCHANGED call
    BY <1>7 DEF vars
  <2> QED
    BY <1>7, <2>1, EntriesUnchanged DEF vars, call, RouteInv, Supports
<1> QED
  BY <1>1, <1>2, <1>3, <1>4, <1>5, <1>6, <1>7 DEF Next


\* Each decision of a call stands on the ones before it (resolve_chunk_cols,
\* pick_projection, resolve_blocking), for every shape, matrix and option.
THEOREM RouteInvariant == Spec => []RouteInv
BY RouteInit, RouteStep, PTL DEF Spec

\* No kernel gets an empty chunk, a chunk wider than B, an empty selection or
\* an empty block, on any route (sp_matmul_topn, resolve_blocking).
THEOREM KernelsAreAlwaysCalledRight == Spec => []KernelsAreCalledRight
<1>1. RouteInv => KernelsAreCalledRight
  <2> SUFFICES ASSUME RouteInv, pc = "run"
               PROVE  /\ route.chunk_cols \in 1 .. NCols
                      /\ opts.top_n > 0 /\ NnzB > 0 /\ NnzA > 0
                      /\ route.row_block # 0
    BY DEF KernelsAreCalledRight
  <2>1. opts.top_n \in Nat
    BY RoutingAssumption DEF RouteInv, TopNOptions
  <2>2. NnzA \in Nat /\ NnzB \in Nat
    BY NnzAIsNat, NnzBIsNat DEF RouteInv
  <2>3. opts.top_n # 0 /\ NnzA # 0 /\ NnzB # 0
    BY DEF RouteInv, Degenerate
  <2>4. NnzA > 0 /\ NnzB > 0
    <3> HIDE DEF NnzA, NnzB
    <3> QED
      BY <2>2, <2>3
  <2> QED
    BY <2>1, <2>3, <2>4 DEF RouteInv
<1> QED
  BY <1>1, RouteInvariant, PTL

\* Tiles are built only of a B they can hold, so TiledB::build never fails.
THEOREM TilesAlwaysFit == Spec => []TilesFit
<1>1. RouteInv => TilesFit
  BY DEF RouteInv, TilesFit, Supports
<1> QED
  BY <1>1, RouteInvariant, PTL

\* The one panic of the decisions is the one the caller asked for: a width of 0.
\* The default width, whatever size the cache reports, is none.
OnlyZeroWidthPanics == pc = "panic" => opts.chunk_cols = 0

\* No call panics over a width it did not ask for (default_chunk_cols).
THEOREM DefaultWidthNeverPanics == Spec => []OnlyZeroWidthPanics
<1>1. RouteInv => OnlyZeroWidthPanics
  BY DEF RouteInv, OnlyZeroWidthPanics
<1> QED
  BY <1>1, RouteInvariant, PTL

-----------------------------------------------------------------------------
(* The result *)

\* A row has at most a result per column.
LEMMA SumsAreFew ==
  ASSUME NEW u
  PROVE  IsFiniteSet(Sums(u)) /\ Cardinality(Sums(u)) <= NCols
<1> DEFINE f == [c \in Sums(u) |-> c.idx]
           Cols == 0 .. NCols - 1
<1>1. IsFiniteSet(Cols) /\ Cardinality(Cols) = NCols
  BY FS_Interval, RoutingAssumption
<1>2. f \in [Sums(u) -> Cols]
  BY DEF Sums, Touched
<1>3. \A c, d \in Sums(u) : c.idx = d.idx => c = d
  BY DEF Sums
<1> HIDE DEF Cols
<1>4. f \in Injection(Sums(u), Cols)
  BY <1>2, <1>3 DEF Injection, IsInjective
<1> QED
  BY <1>1, <1>4, FS_Injection DEF ExistsInjection

\* The result of a row.
IsSelection(K, C, top, threshold) ==
  \E zeros \in SUBSET {c \in C : c.val = 0 /\ IsFloat}, n \in {top}, t \in {threshold} :
    Selection(n, t)!IsTopN(K, C \ zeros)

RowIsRight(row, u) ==
  IsSelection(Numbers(row), Numbers(Sums(u)), opts.top_n, Or(opts.threshold, MinValue))

\* A row without results, or of which none were asked for.
LEMMA EmptyRowIsRight ==
  ASSUME NEW u, opts.top_n \in Nat, Sums(u) = {} \/ opts.top_n = 0
  PROVE  RowIsRight({}, u)
<1>1. Numbers({}) = {} /\ Numbers({}) \subseteq Numbers(Sums(u))
  BY DEF Numbers
<1>2. Sums(u) = {} => Numbers(Sums(u)) = {}
  BY DEF Numbers
<1>3. PICK n, t : n \in Nat /\ n = opts.top_n /\ t = Or(opts.threshold, MinValue)
  OBVIOUS
<1>4. PICK C : C = Numbers(Sums(u))
  OBVIOUS
<1>5. Selection(n, t)!IsTopN({}, C \ {})
  <2>1. Selection(n, t)!Cardinality({}) = 0
    BY FS_EmptySet DEF Selection!Cardinality, Cardinality
  <2>2. n \in Nat /\ (C = {} \/ n = 0)
    BY <1>2, <1>3, <1>4
  <2> QED
    BY <2>1, <2>2 DEF Selection!IsTopN, Selection!Eligible
<1> QED
  BY <1>1, <1>3, <1>4, <1>5 DEF RowIsRight, IsSelection

\* A row of which the plain product keeps everything.
LEMMA FullRowIsRight ==
  ASSUME RouteInv, SumsExceedMin, NEW i \in DOMAIN a, KeepsEverything
  PROVE  RowIsRight(Sums(a[i]), a[i])
<1>1. PICK n, t : n \in Nat /\ n = opts.top_n /\ t = Or(opts.threshold, MinValue)
  BY RoutingAssumption DEF RouteInv, TopNOptions
<1>2. n >= NCols /\ t = MinValue
  BY <1>1 DEF KeepsEverything, Or
<1>3. PICK C : C = Numbers(Sums(a[i]))
  OBVIOUS
<1>4. \A c \in C : c.val > MinValue
  BY <1>3 DEF Numbers, Sums, Touched, SumsExceedMin, RouteInv
<1>5. IsFiniteSet(C) /\ Cardinality(C) \in Nat /\ Cardinality(C) <= NCols
  <2>1. IsFiniteSet(Sums(a[i])) /\ Cardinality(Sums(a[i])) <= NCols
    BY SumsAreFew
  <2>2. C \in SUBSET Sums(a[i])
    BY <1>3 DEF Numbers
  <2>3. IsFiniteSet(C) /\ Cardinality(C) <= Cardinality(Sums(a[i]))
    BY <2>1, <2>2, FS_Subset
  <2>4. Cardinality(C) \in Nat /\ Cardinality(Sums(a[i])) \in Nat
    BY <2>1, <2>3, FS_CardinalityType
  <2> QED
    BY <2>1, <2>3, <2>4, RoutingAssumption
<1>6. Selection(n, t)!IsTopN(C, C \ {})
  <2>1. Selection(n, t)!Eligible(C) = C
    BY <1>2, <1>4 DEF Selection!Eligible
  <2>2. Selection(n, t)!Cardinality(C) = Cardinality(C)
    BY DEF Selection!Cardinality, Cardinality
  <2>3. Cardinality(C) <= n
    BY <1>1, <1>2, <1>5, RoutingAssumption
  <2>4. C \ {} = C
    OBVIOUS
  <2> QED
    BY <2>1, <2>2, <2>3, <2>4 DEF Selection!IsTopN
<1> QED
  BY <1>1, <1>3, <1>6 DEF RowIsRight, IsSelection

\* A row that a kernel returns.
LEMMA KernelRowIsRight ==
  ASSUME NEW u, NEW row \in KernelRows(u)
  PROVE  RowIsRight(row, u)
<1>1. PICK n, t : n = opts.top_n /\ t = Or(opts.threshold, MinValue)
  OBVIOUS
<1>2. PICK C : C = Numbers(Sums(u))
  OBVIOUS
<1>3. PICK zeros \in SUBSET C : zeros = {c \in C : c.val = 0 /\ Dense(u)}
  OBVIOUS
<1>4. Selection(n, t)!IsTopN(row, C \ zeros)
  <2>1. Selection(n, t)!IsTopN(row, {c \in C : Dense(u) => c.val # 0})
    BY <1>1, <1>2 DEF KernelRows
  <2>2. {c \in C : Dense(u) => c.val # 0} = C \ zeros
    BY <1>3
  <2> QED
    BY <2>1, <2>2
<1>5. Numbers(row) = row
  <2>1. row \subseteq C
    BY <1>4 DEF Selection!IsTopN, Selection!Eligible
  <2> QED
    BY <1>2, <2>1 DEF Numbers
<1>6. zeros \in SUBSET {c \in C : c.val = 0 /\ IsFloat}
  BY <1>3 DEF Dense
<1> QED
  BY <1>1, <1>2, <1>4, <1>5, <1>6 DEF RowIsRight, IsSelection

\* Without entries in A or in B there are no results.
LEMMA NoEntriesNoSums ==
  ASSUME RouteInv, NEW i \in DOMAIN a, NnzA = 0 \/ NnzB = 0
  PROVE  Sums(a[i]) = {}
<1>1. a \in AMatrices /\ b \in BMatrices
  BY DEF RouteInv
<1>2. PICK T : a \in Seq(Seq([j : 0 .. NRowsB - 1, v : T]))
  BY <1>1, RoutingAssumption
<1>3. ASSUME NEW e \in DOMAIN a[i] PROVE a[i] # <<>> /\ a[i][e].j \in 0 .. NRowsB - 1
  <2>1. PICK U : U = [j : 0 .. NRowsB - 1, v : T]
    OBVIOUS
  <2>2. PICK r \in Seq(U) : r = a[i]
    BY <1>2, <2>1
  <2>3. e \in DOMAIN r
    BY <2>2
  <2>4. r # <<>> /\ r[e] \in U
    BY <2>3
  <2> QED
    BY <2>1, <2>2, <2>4
<1>4. ASSUME NEW k, NEW e \in DOMAIN a[i], S!Has(b[a[i][e].j], k)
      PROVE  FALSE
  <2>1. b[a[i][e].j] # <<>>
    BY <1>4 DEF S!Has
  <2> QED
    BY <1>1, <1>3, <2>1, NnzAIsNat, NnzBIsNat
<1>5. Touched(a[i]) = {}
  BY <1>4 DEF Touched
<1> QED
  BY <1>5 DEF Sums

\* Whatever the route, each row of the result is a top-n of the full product.
Right == pc = "returned" => \A i \in DOMAIN a : RowIsRight(rows[i], a[i])

LEMMA RightIsTopN == Right <=> ResultIsTopN
BY DEF Right, ResultIsTopN, RowIsRight, IsSelection

LEMMA RowStaysRight ==
  ASSUME UNCHANGED call, NEW row, NEW u, RowIsRight(row, u)
  PROVE  RowIsRight(row, u)'
<1>1. UNCHANGED <<opts, a, b>>
  BY DEF call
<1>2. Sums(u)' = Sums(u)
  BY <1>1 DEF Sums, Touched
<1>3. Numbers(Sums(u))' = Numbers(Sums(u))
  BY <1>2 DEF Numbers
<1> QED
  BY <1>1, <1>3 DEF RowIsRight

LEMMA ReturnIsRight ==
  ASSUME NEW result, Return(result), \A i \in DOMAIN a : RowIsRight(result[i], a[i])
  PROVE  Right'
BY RowStaysRight DEF Return, Right, call

LEMMA RightUnchanged ==
  ASSUME Right, UNCHANGED <<call, pc, rows>>
  PROVE  Right'
BY RowStaysRight DEF Right, call

LEMMA RightStep ==
  ASSUME SumsExceedMin
  PROVE  RouteInv /\ Right /\ [Next]_vars => Right'
<1> SUFFICES ASSUME RouteInv, Right, [Next]_vars PROVE Right'
  OBVIOUS
<1>1. CASE ShortCircuit
  <2>1. opts.top_n \in Nat
    BY RoutingAssumption DEF RouteInv, TopNOptions
  <2>2. Degenerate /\ Return([i \in DOMAIN a |-> {}])
    BY <1>1 DEF ShortCircuit
  <2>3. ASSUME NEW i \in DOMAIN a PROVE Sums(a[i]) = {} \/ opts.top_n = 0
    BY <2>2, NoEntriesNoSums DEF Degenerate
  <2>4. ASSUME NEW i \in DOMAIN a PROVE RowIsRight({}, a[i])
    BY <2>1, <2>3, EmptyRowIsRight
  <2> QED
    BY <2>2, <2>4, ReturnIsRight
<1>2. CASE FastPath
  <2>1. KeepsEverything /\ Return([i \in DOMAIN a |-> Sums(a[i])])
    BY <1>2 DEF FastPath
  <2> QED
    BY <2>1, FullRowIsRight, ReturnIsRight
<1>3. CASE RunKernel
  <2>1. PICK result : Return(result) /\ \A i \in DOMAIN a : result[i] \in KernelRows(a[i])
    BY <1>3 DEF RunKernel
  <2> QED
    BY <2>1, KernelRowIsRight, ReturnIsRight
<1>4. CASE ToKernel
  BY <1>4 DEF ToKernel, Right
<1>5. CASE ResolveWidth
  BY <1>5 DEF ResolveWidth, Right
<1>6. CASE ResolveBlocking
  BY <1>6 DEF ResolveBlocking, Right
<1>7. CASE UNCHANGED vars
  BY <1>7, RightUnchanged DEF vars
<1> QED
  BY <1>1, <1>2, <1>3, <1>4, <1>5, <1>6, <1>7 DEF Next

\* Short-circuit, plain product and kernel alike return a top-n of each row's
\* full product, for every shape, matrix and option (sp_matmul_topn).
THEOREM ResultIsAlwaysTopN == ASSUME SumsExceedMin PROVE Spec => []ResultIsTopN
<1>1. Init => Right
  BY DEF Init, Right
<1>2. RouteInv /\ Right /\ [Next]_vars => Right'
  BY RightStep
<1>3. Right <=> ResultIsTopN
  BY RightIsTopN
<1> QED
  BY <1>1, <1>2, <1>3, RouteInvariant, PTL DEF Spec

-----------------------------------------------------------------------------
(* SimdDispatch *)

\* Only a processor that can run the clone is ever told to.
Sound ==
  /\ state = Enabled => CanRunClone
  /\ \A t \in Threads : place[t] = "store" => (ok[t] <=> CanRunClone)
  /\ \A t \in Threads : place[t] = "row" /\ ok[t] => CanRunClone

\* Since an override made between calls, state, the detections under way and
\* the decisions acted on follow it.
Settled ==
  quiet =>
    /\ pinned = "baseline" => state = Disabled
    /\ pinned = "none" /\ state = Disabled => ~ CanRunClone
    /\ \A t \in Threads : place[t] \in {"detect", "store"} => pinned = "none"
    /\ \A d \in used : d <=> (pinned = "none" /\ CanRunClone)

CloneInv == SimdTypeOK /\ Sound /\ Settled

-----------------------------------------------------------------------------

\* What init finds is what the processor and the environment allow.
LEMMA DetectedIsAllowed == Detected <=> CanRunClone
BY DEF Detected, CanRunClone

\* A step that leaves state, the overrides and the machine alone, moves thread
\* t to a place where it has not acted, and is no detection if it began none.
LEMMA CloneMovePreserves ==
  ASSUME NEW t \in Threads, NEW to \in {"idle", "load"},
         CloneInv, place' = [place EXCEPT ![t] = to],
         UNCHANGED <<machine, state, ok, history>>
  PROVE  CloneInv'
<1> USE DEF CloneInv, machine, history
<1>1. SimdTypeOK'
  BY DEF SimdTypeOK
<1>2. Sound'
  BY DEF Sound, SimdTypeOK, CanRunClone
<1>3. Settled'
  BY DEF Settled, SimdTypeOK, CanRunClone
<1> QED
  BY <1>1, <1>2, <1>3

\* A decision that follows the overrides may be acted on.
LEMMA CloneActPreserves ==
  ASSUME NEW t \in Threads, NEW decision \in BOOLEAN,
         CloneInv, Act(t, decision), UNCHANGED machine,
         state' \in {Uninit, Enabled, Disabled},
         state' = Enabled => CanRunClone,
         decision => CanRunClone,
         quiet => /\ pinned = "baseline" => state' = Disabled
                  /\ pinned = "none" /\ state' = Disabled => ~ CanRunClone
                  /\ decision <=> (pinned = "none" /\ CanRunClone)
  PROVE  CloneInv'
<1> USE DEF CloneInv, machine, history
<1>1. SimdTypeOK'
  BY DEF Act, SimdTypeOK
<1>2. Sound'
  BY DEF Act, Sound, SimdTypeOK, CanRunClone
<1>3. SUFFICES ASSUME quiet PROVE
        /\ \A u \in Threads : place'[u] \in {"detect", "store"} => pinned = "none"
        /\ \A d \in used \cup {decision} : d <=> (pinned = "none" /\ CanRunClone)
  BY <1>1, <1>2 DEF Act, Settled, CanRunClone
<1>4. \A u \in Threads : place'[u] \in {"detect", "store"} => pinned = "none"
  BY <1>3 DEF Act, SimdTypeOK, Settled
<1>5. \A d \in used \cup {decision} : d <=> (pinned = "none" /\ CanRunClone)
  BY <1>3 DEF Settled
<1> QED
  BY <1>4, <1>5

\* Loading a decision that was taken, or finding none.
LEMMA CloneLoadPreserves ==
  ASSUME NEW t \in Threads, CloneInv, Load(t)
  PROVE  CloneInv'
<1> USE DEF CloneInv, machine, history
<1>1. CASE Decided /\ Act(t, state = Enabled)
  <2>1. /\ state' \in {Uninit, Enabled, Disabled}
        /\ state' = Enabled => CanRunClone
        /\ state = Enabled => CanRunClone
    BY DEF Load, SimdTypeOK, Sound
  <2>2. state \in {Enabled, Disabled} /\ Enabled # Disabled
    BY <1>1 DEF Decided, SimdTypeOK, Uninit, Enabled, Disabled
  <2>3. quiet => /\ pinned = "baseline" => state' = Disabled
                 /\ pinned = "none" /\ state' = Disabled => ~ CanRunClone
                 /\ (state = Enabled) <=> (pinned = "none" /\ CanRunClone)
    BY <2>1, <2>2 DEF Load, Settled, SimdTypeOK
  <2> QED
    BY <1>1, <2>1, <2>3, CloneActPreserves DEF Load
<1>2. CASE /\ ~ Decided
           /\ place' = [place EXCEPT ![t] = "detect"]
           /\ UNCHANGED <<ok, history>>
  <2>1. state = Uninit /\ Uninit # Disabled /\ Uninit # Enabled
    BY <1>2 DEF Decided, Uninit, Enabled, Disabled
  <2>2. SimdTypeOK'
    BY <1>2 DEF Load, SimdTypeOK
  <2>3. Sound'
    BY <1>2 DEF Load, Sound, SimdTypeOK, CanRunClone
  <2>4. Settled'
    BY <1>2, <2>1 DEF Load, Settled, SimdTypeOK, CanRunClone
  <2> QED
    BY <2>2, <2>3, <2>4
<1> QED
  BY <1>1, <1>2 DEF Load

LEMMA CloneDetectPreserves ==
  ASSUME NEW t \in Threads, CloneInv, Detect(t)
  PROVE  CloneInv'
<1> USE DEF CloneInv, machine, history
<1>1. SimdTypeOK'
  <2>1. Detected \in BOOLEAN
    BY DEF Detected
  <2> QED
    BY <2>1 DEF Detect, SimdTypeOK
<1>2. Sound'
  BY DetectedIsAllowed DEF Detect, Sound, SimdTypeOK, CanRunClone
<1>3. Settled'
  BY DEF Detect, Settled, SimdTypeOK, CanRunClone
<1> QED
  BY <1>1, <1>2, <1>3

LEMMA CloneStorePreserves ==
  ASSUME NEW t \in Threads, CloneInv, Store(t)
  PROVE  CloneInv'
<1> USE DEF CloneInv, machine, history
<1>1. ok[t] \in BOOLEAN /\ (ok[t] <=> CanRunClone)
  BY DEF Store, SimdTypeOK, Sound
<1>2. /\ state' \in {Uninit, Enabled, Disabled}
      /\ state' = Enabled => CanRunClone
      /\ state' = Disabled => ~ CanRunClone
  BY <1>1 DEF Store, Enabled, Disabled
<1>3. quiet => pinned = "none"
  BY DEF Store, Settled
<1> QED
  BY <1>1, <1>2, <1>3, CloneActPreserves DEF Store

LEMMA CloneOverridePreserves ==
  ASSUME NEW on \in BOOLEAN, CloneInv, Override(on)
  PROVE  CloneInv'
<1> USE DEF CloneInv, machine
<1>1. SimdTypeOK'
  BY DEF Override, SimdTypeOK
<1>2. Sound'
  BY DEF Override, Sound, CanRunClone, Uninit, Enabled, Disabled
<1>3. SUFFICES ASSUME quiet' PROVE
        /\ pinned' = "baseline" => state' = Disabled
        /\ pinned' = "none" /\ state' = Disabled => ~ CanRunClone'
        /\ \A t \in Threads : place'[t] \in {"detect", "store"} => pinned' = "none"
        /\ used' = {}
  BY <1>1, <1>2 DEF Settled
<1>4. \A t \in Threads : place'[t] = "idle"
  <2>1. quiet' = (\A t \in Threads : place[t] = "idle") /\ place' = place
    BY DEF Override
  <2> QED
    BY <1>3, <2>1
<1>5. /\ pinned' = "baseline" => state' = Disabled
      /\ pinned' = "none" /\ state' = Disabled => ~ CanRunClone'
      /\ used' = {}
  BY DEF Override, Uninit, Disabled
<1> QED
  BY <1>4, <1>5

\* The overrides, the cached decision and the detections under way agree, for
\* any number of threads (avx2_fma_enabled, init, force_simd_baseline_for_tests).
THEOREM CloneInvariant == SimdSpec => []CloneInv
<1>1. SimdInit => CloneInv
  BY DEF SimdInit, CloneInv, SimdTypeOK, Sound, Settled, Uninit, Enabled, Disabled
<1>2. CloneInv /\ [SimdNext]_simdVars => CloneInv'
  <2> SUFFICES ASSUME CloneInv, [SimdNext]_simdVars PROVE CloneInv'
    OBVIOUS
  <2>1. ASSUME NEW t \in Threads, Begin(t) PROVE CloneInv'
    BY <2>1, CloneMovePreserves DEF Begin
  <2>2. ASSUME NEW t \in Threads, Load(t) PROVE CloneInv'
    BY <2>2, CloneLoadPreserves
  <2>3. ASSUME NEW t \in Threads, Detect(t) PROVE CloneInv'
    BY <2>3, CloneDetectPreserves
  <2>4. ASSUME NEW t \in Threads, Store(t) PROVE CloneInv'
    BY <2>4, CloneStorePreserves
  <2>5. ASSUME NEW t \in Threads, Finish(t) PROVE CloneInv'
    BY <2>5, CloneMovePreserves DEF Finish
  <2>6. ASSUME NEW on \in BOOLEAN, Override(on) PROVE CloneInv'
    BY <2>6, CloneOverridePreserves
  <2>7. CASE UNCHANGED simdVars
    BY <2>7 DEF simdVars, machine, history, CloneInv, SimdTypeOK, Sound, Settled, CanRunClone
  <2> QED
    BY <2>1, <2>2, <2>3, <2>4, <2>5, <2>6, <2>7 DEF SimdNext
<1> QED
  BY <1>1, <1>2, PTL DEF SimdSpec

\* Type correctness of the cached decision and of the threads' places.
THEOREM CloneTypes == SimdSpec => []SimdTypeOK
<1>1. CloneInv => SimdTypeOK
  BY DEF CloneInv
<1> QED
  BY <1>1, CloneInvariant, PTL

\* No row or block ever runs a clone that the processor lacks the features for
\* (process_row, process_row_block).
THEOREM ClonesAreSupported == SimdSpec => []CloneIsSupported
<1>1. CloneInv => CloneIsSupported
  BY DEF CloneInv, Sound, CloneIsSupported, CanRunClone
<1> QED
  BY <1>1, CloneInvariant, PTL

\* All rows between two overrides take one clone, whatever threads race through
\* the detection.
THEOREM OneCloneOnly == SimdSpec => []OneClone
<1>1. CloneInv => OneClone
  <2> SUFFICES ASSUME CloneInv, quiet, NEW d \in used
               PROVE  d = (pinned = "none" /\ CanRunClone)
    BY DEF OneClone
  <2>1. d \in BOOLEAN
    BY DEF CloneInv, SimdTypeOK
  <2>2. d <=> (pinned = "none" /\ CanRunClone)
    BY DEF CloneInv, Settled
  <2> QED
    BY <2>1, <2>2
<1> QED
  BY <1>1, CloneInvariant, PTL
=============================================================================
