------------------------------- MODULE Routing -------------------------------
(***************************************************************************)
(* Which kernel a call of sp_matmul_topn runs, and on what: the            *)
(* short-circuits, the fast path to the plain product, the chunk width,    *)
(* projection and blocking, all decided from the options and the shapes    *)
(* (src/src/matmul_topn.rs, chunked.rs, parallel.rs, csr.rs).  A kernel is *)
(* what the other modules show it to be: the plain product keeps every     *)
(* touched column (SpMatmul), the top-n kernels any top-n of a row's       *)
(* results (RowKernel, BlockKernel, ParallelDriver).                       *)
(***************************************************************************)
EXTENDS Integers, Sequences, FiniteSets, SequencesExt

CONSTANTS
  NRowsB, NCols,      \* shape of B
  MinValue, IsFloat,  \* V::min_value, V::IS_FLOAT
  NaN, None,
  U16Max, U32Max,     \* u16::MAX and u32::MAX
  FALLBACK_L1D_BYTES, FLOOR, CEIL, SizeOfV,
                      \* of default_chunk_cols; FLOOR and CEIL powers of two
  Caches,             \* the L1d sizes detection may yield, None if it fails
  DefaultRowBlock,    \* DEFAULT_ROW_BLOCK
  Options,            \* the options of a call, with top_n
  AMatrices, BMatrices

SortMode == {"ByColumn", "ByValueDesc"}
AccumMode == {"Adaptive", "LinkedList", "Dense"}
BProjection == {"BinarySearch", "Cursor"}

\* With top_n; density_hint only sizes the first allocation of the output.
TopNOptions ==
  [top_n : Nat, threshold : Int \cup {None}, sort : SortMode,
   chunk_cols : Nat \cup {None}, n_threads : Nat \cup {None},
   accum_mode : AccumMode, projection : BProjection \cup {None},
   row_block : Nat \cup {None}, tile_b : BOOLEAN]

ASSUME RoutingAssumption ==
  /\ Options \subseteq TopNOptions
  /\ NRowsB \in Nat \ {0} /\ NCols \in Nat \ {0}
  /\ AMatrices \subseteq Seq(Seq([j : 0 .. NRowsB - 1, v : Int \cup {NaN}]))
  /\ BMatrices \subseteq [0 .. NRowsB - 1 -> Seq([k : 0 .. NCols - 1, x : Int \cup {NaN}])]
  /\ U16Max \in Nat /\ U32Max \in Nat /\ U32Max > 2
  /\ NaN \notin Int /\ None \notin Int
  /\ FALLBACK_L1D_BYTES \in Nat /\ SizeOfV \in Nat /\ Caches \subseteq Nat \cup {None}
  /\ FLOOR \in Nat \ {0} /\ CEIL \in Nat /\ FLOOR <= CEIL
  /\ DefaultRowBlock \in Nat \ {0}
  /\ MinValue \in Int /\ IsFloat \in BOOLEAN

\* The scores of Scores, with the bounds that the options set left out.
S == INSTANCE Scores WITH Capacity <- 1, Threshold <- MinValue

VARIABLES
  l1d,          \* the detected L1d size
  a, b, opts,   \* the call
  pc,           \* "entry", "width", "blocking", "run"; "returned", "panic"
  route,        \* [parallel, chunk_cols, projection, tile, row_block]
  rows          \* the rows of the result

call == <<l1d, a, b, opts>>
vars == <<call, pc, route, rows>>

-----------------------------------------------------------------------------

Least(x, y) == IF x < y THEN x ELSE y
Most(x, y) == IF x > y THEN x ELSE y
Or(x, default) == IF x = None THEN default ELSE x
CeilDiv(x, y) == (x + y - 1) \div y

NnzA == FoldLeft(LAMBDA s, r : s + Len(r), 0, a)
NnzB == FoldLeft(LAMBDA s, j : s + Len(b[j - 1]), 0, [j \in 1 .. NRowsB |-> j])

\* Mutant: top_n = 0 reaches a kernel.
DegenerateShape == a = <<>> \/ NnzA = 0 \/ NnzB = 0

Degenerate == opts.top_n = 0 \/ a = <<>> \/ NnzA = 0 \/ NnzB = 0

\* Mutant: a threshold does not keep the call from the plain product.
KeepsManyColumns == opts.top_n >= NCols /\ opts.sort = "ByColumn"

KeepsEverything == opts.top_n >= NCols /\ opts.threshold = None /\ opts.sort = "ByColumn"

Clamp(x, low, high) == Least(Most(x, low), high)

\* next_power_of_two of a positive number
NextPowerOfTwo(x) == CHOOSE p \in {2 ^ i : i \in 0 .. x} : x <= p /\ p < 2 * x

\* Per column a sum and a u32 link are to fit the cache.
DefaultChunkCols ==
  LET raw == Most(Or(l1d, FALLBACK_L1D_BYTES) \div (SizeOfV + 4), 1)
  IN  Clamp(NextPowerOfTwo(raw) \div 2, FLOOR, CEIL)

NChunks(width) == CeilDiv(NCols, width)

\* pick_projection
Projection(width) ==
  IF NnzB >= 4 * NRowsB * Most(NChunks(Most(width, 1)), 1) THEN "BinarySearch" ELSE "Cursor"

Supports(width) == width <= U16Max + 1 /\ NnzB <= U32Max

\* Mutant: the automatic choice forgets what a tile can hold.
AutoTileAnyShape(width) ==
  /\ NChunks(width) >= 2
  /\ NnzA >= 2 * NRowsB
  /\ NChunks(width) * NRowsB <= 4 * NnzB

AutoTile(width) ==
  /\ NChunks(width) >= 2
  /\ Supports(width)
  /\ NnzA >= 2 * NRowsB
  /\ NChunks(width) * NRowsB <= 4 * NnzB

\* resolve_blocking: [tile, row_block]
Blocking(width) ==
  CASE opts.row_block = 0 -> [tile |-> FALSE, row_block |-> None]
    [] opts.row_block # 0 /\ (opts.tile_b \/ opts.row_block # None) ->
         [tile |-> opts.tile_b /\ Supports(width), row_block |-> opts.row_block]
    [] opts.row_block = None /\ ~ opts.tile_b ->
         IF AutoTile(width) THEN [tile |-> TRUE, row_block |-> DefaultRowBlock]
                            ELSE [tile |-> FALSE, row_block |-> None]

\* DENSE_MIN_DENSITY is one update per this many columns.
DENSE_MIN_UPDATES == 5

\* row_update_density and the accumulator of row u of A.
Updates(u) == FoldLeft(LAMBDA s, e : s + Len(b[e.j]), 0, u)
Dense(u) ==
  /\ IsFloat
  /\ \/ opts.accum_mode = "Dense"
     \/ opts.accum_mode = "Adaptive" /\ Updates(u) * DENSE_MIN_UPDATES >= NCols

Touched(u) == {k \in 0 .. NCols - 1 : \E e \in DOMAIN u : S!Has(b[u[e].j], k)}
Sums(u) == {[idx |-> k, val |-> S!DotProduct(u, b, k)] : k \in Touched(u)}
Numbers(C) == {c \in C : c.val # NaN}

Selection(n, threshold) ==
  INSTANCE TopN WITH N <- n, Threshold <- threshold, offered <- {}, kept <- {}

\* The rows a top-n kernel may return for row u of A.
KernelRows(u) ==
  {K \in SUBSET Sums(u) :
     \E n \in {opts.top_n}, t \in {Or(opts.threshold, MinValue)} :
       Selection(n, t)!IsTopN(K, {c \in Numbers(Sums(u)) : Dense(u) => c.val # 0})}

-----------------------------------------------------------------------------

NoRoute == [parallel |-> FALSE, chunk_cols |-> None, projection |-> None,
            tile |-> FALSE, row_block |-> None]

Init ==
  /\ l1d \in Caches
  /\ a \in AMatrices /\ b \in BMatrices
  /\ opts \in Options
  /\ pc = "entry" /\ route = NoRoute /\ rows = <<>>

Return(result) ==
  /\ rows' = result
  /\ pc' = "returned"
  /\ UNCHANGED <<call, route>>

ShortCircuit ==
  /\ pc = "entry" /\ Degenerate
  /\ Return([i \in DOMAIN a |-> {}])

IsParallel == Or(opts.n_threads, 1) > 1

FastPath ==
  /\ pc = "entry" /\ ~ Degenerate /\ ~ IsParallel /\ KeepsEverything
  /\ Return([i \in DOMAIN a |-> Sums(a[i])])

ToKernel ==
  /\ pc = "entry" /\ ~ Degenerate /\ (IsParallel \/ ~ KeepsEverything)
  /\ route' = [route EXCEPT !.parallel = IsParallel]
  /\ pc' = "width"
  /\ UNCHANGED <<call, rows>>

Width(raw) == Least(Least(raw, Most(NCols, 1)), U32Max - 2)

\* resolve_chunk_cols, pick_projection
ResolveWidth ==
  /\ pc = "width"
  /\ LET raw == Or(opts.chunk_cols, DefaultChunkCols) IN
     \/ raw = 0 /\ pc' = "panic" /\ UNCHANGED route
     \/ /\ raw > 0
        /\ route' = [route EXCEPT !.chunk_cols = Width(raw),
                                  !.projection = Or(opts.projection, Projection(Width(raw)))]
        /\ pc' = "blocking"
  /\ UNCHANGED <<call, rows>>

ResolveBlocking ==
  /\ pc = "blocking"
  /\ LET choice == Blocking(route.chunk_cols) IN
     route' = [route EXCEPT !.tile = choice.tile, !.row_block = choice.row_block]
  /\ pc' = "run"
  /\ UNCHANGED <<call, rows>>

RunKernel ==
  /\ pc = "run"
  /\ \E result \in [DOMAIN a -> UNION {KernelRows(a[i]) : i \in DOMAIN a}] :
       /\ \A i \in DOMAIN a : result[i] \in KernelRows(a[i])
       /\ Return(result)

Next ==
  \/ ShortCircuit \/ FastPath \/ ToKernel
  \/ ResolveWidth \/ ResolveBlocking \/ RunKernel

Spec == Init /\ [][Next]_vars

-----------------------------------------------------------------------------
(* Properties *)

\* What the kernels assume of their call holds on every route, sequential or
\* parallel: a chunk width between one column and all of them, a selection of
\* at least one (KernelAssumption), at least one row per block (BlockAssumption).
KernelsAreCalledRight ==
  pc = "run" =>
    /\ route.chunk_cols \in 1 .. NCols
    /\ opts.top_n > 0 /\ NnzB > 0 /\ NnzA > 0
    /\ route.row_block # 0

\* Whatever the options ask for, tiles are only built of a B they can hold, so
\* the assertions in TiledB::build do not fail.
TilesFit ==
  pc = "run" /\ route.tile => route.chunk_cols <= U16Max + 1 /\ NnzB <= U32Max

\* No sum of a product is the least value of its type, or is below it: an
\* integer MIN or a float's minus infinity is dropped by the kernels, whose
\* threshold it is, and kept by the plain product of the fast path.
SumsExceedMin ==
  \A x \in AMatrices, m \in BMatrices :
    \A i \in DOMAIN x, k \in 0 .. NCols - 1 :
      S!DotProduct(x[i], m, k) # NaN => S!DotProduct(x[i], m, k) > MinValue

\* On every route a row is, of its numbers, a top-n of the row's full product,
\* where exact zeros of floats may be missing.
ResultIsTopN ==
  pc = "returned" => \A i \in DOMAIN a :
    \E zeros \in SUBSET {c \in Numbers(Sums(a[i])) : c.val = 0 /\ IsFloat},
       n \in {opts.top_n}, t \in {Or(opts.threshold, MinValue)} :
      Selection(n, t)!IsTopN(Numbers(rows[i]), Numbers(Sums(a[i])) \ zeros)
=============================================================================
