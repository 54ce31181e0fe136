--------------------------------- MODULE PyApi ---------------------------------
(***************************************************************************)
(* sp_matmul and sp_matmul_topn of src/python/sp_matmul_rs/api.py: from    *)
(* the caller's matrices, of any sparse format, and keyword arguments to a *)
(* call of the bindings, and back.  sp_matmul_topn may hand its call on to *)
(* sp_matmul, which then decides everything again on what it is given.  A  *)
(* result may be the right factor of a later call.                         *)
(*                                                                         *)
(* scipy is external: a matrix stores lines, the rows of csr and coo, the  *)
(* columns of csc; transposing swaps what the lines are and moves no       *)
(* entry, tocsr puts every row in column order.  The bindings compute what *)
(* the kernels' modules show, of the entries of B that they read: all of   *)
(* them in tiles, otherwise those of each row that a cursor meets before   *)
(* it stands at a column past the chunk, and an entry before the chunk is  *)
(* a panic.  The search by halves, which replaces the cursor in rows with  *)
(* many entries, cuts a row at the same places, or panics where the cursor *)
(* does: its cuts too are in order and cover the row, and an entry cut     *)
(* into a chunk that is not its own lies outside sums.  Errors that the    *)
(* bindings raise are in PyCalls.  Scores and thresholds are counted in    *)
(* halves.                                                                 *)
(***************************************************************************)
EXTENDS Integers, Sequences, FiniteSets, SequencesExt

CONSTANTS
  Pairs,        \* [A, B]: the factors a first call may be given
  Options,      \* its keyword arguments
  None,
  MinValue,     \* V::min_value
  DefaultWidth, \* default_chunk_cols
  NCores,       \* _N_CORES
  MaxCalls      \* bound: calls, each after the first on the last result

\* A line for each row of csr and coo, for each column of csc.  Bound: no entry
\* is outside the matrix, no two are at one place.
IsStored(m) ==
  LET rows == m.fmt # "csc" IN
  /\ Len(m.lines) = IF rows THEN m.nrows ELSE m.ncols
  /\ \A n \in DOMAIN m.lines : \A p, q \in DOMAIN m.lines[n] :
       /\ m.lines[n][p].k < IF rows THEN m.ncols ELSE m.nrows
       /\ m.lines[n][p].k = m.lines[n][q].k => p = q

Formats == {"csr", "csc", "coo"}
OtherFormats == {"bsr", "dia", "dok", "lil"}

Matrices ==
  {m \in [fmt : Formats \cup OtherFormats, nrows : Nat, ncols : Nat,
          dtype : STRING, lines : Seq(Seq([k : Nat, x : Int]))] : IsStored(m)}

\* The keyword arguments that steer a call; "int8" is any other index type.  Bound:
\* the threshold, rounded for integers, is a number of the value type.
Arguments ==
  [top_n : Nat, threshold : Int \cup {None}, sort : BOOLEAN, chunk_cols : Int \cup {None},
   n_threads : Int \cup {None}, idx_dtype : {None, "int32", "int64", "int8"}]

IsInt(m) == m.dtype \in {"int32", "int64"}
InOrder(line) == \A p, q \in DOMAIN line : p < q => line[p].k < line[q].k

ASSUME ApiAssumption ==
  /\ Pairs \subseteq [A : Matrices, B : Matrices] /\ Options \subseteq Arguments
  /\ DefaultWidth \in Nat \ {0} /\ NCores \in Nat \ {0} /\ MaxCalls \in Nat
  /\ MinValue \in Int /\ None \notin Int

VARIABLES
  asked,    \* [fn, A, B, opts] as the caller wrote it
  fn,       \* the function that runs
  A, B,     \* its matrices so far
  opts,     \* its keyword arguments so far
  stage,    \* "idle", "types", "factors", "shapes", "shortcut", "dtypes", "core",
            \* "returned", "raised"
  result,   \* the returned matrix
  error,    \* the raised exception
  calls

frame == <<fn, A, B, opts>>
apiVars == <<asked, frame, stage, result, error, calls>>

-----------------------------------------------------------------------------
(* Matrices: [fmt, nrows, ncols, dtype, lines], a line a sequence of [k, x] *)

LineCells(m) == UNION {{[n |-> n - 1, e |-> m.lines[n][p]] : p \in DOMAIN m.lines[n]} :
                         n \in DOMAIN m.lines}
Cells(m) == IF m.fmt = "csc"
            THEN {[i |-> c.e.k, j |-> c.n, x |-> c.e.x] : c \in LineCells(m)}
            ELSE {[i |-> c.n, j |-> c.e.k, x |-> c.e.x] : c \in LineCells(m)}

ByColumn(S) == CHOOSE line \in SetToSeqs(S) : InOrder(line)

ToCsr(m) ==
  [m EXCEPT !.fmt = "csr", !.lines =
     [r \in 1 .. m.nrows |->
        ByColumn({[k |-> c.j, x |-> c.x] : c \in {d \in Cells(m) : d.i = r - 1}})]]

Transpose(m) ==
  [m EXCEPT !.fmt = IF @ = "csc" THEN "csr" ELSE "csc",
            !.nrows = m.ncols, !.ncols = m.nrows]

Stored(m) == Cells(m) # {}

-----------------------------------------------------------------------------
(* Products of cells *)

SumOfTerms(S) == MapThenSumSet(LAMBDA t : t[1].x * t[2].x, S)
Terms(x, y, i, k) == {t \in x \X y : t[1].i = i /\ t[1].j = t[2].i /\ t[2].j = k}

\* Row i of the product: the columns with a term, exact zeros included.
Row(x, y, i) ==
  {[idx |-> k, val |-> 2 * SumOfTerms(Terms(x, y, i, k))] :
     k \in {c.j : c \in {d \in y : \E t \in x : t.i = i /\ t.j = d.i}}}

Selection(n, threshold) ==
  INSTANCE TopN WITH N <- n, Threshold <- threshold, offered <- {}, kept <- {}

ZerosOf(R, m) == {c \in R : c.val = 0 /\ ~ IsInt(m)}

\* A selection of row R; a float kernel may lose exact zeros.
Selected(K, R, n, threshold, m) ==
  \E top \in {n}, t \in {threshold}, zeros \in SUBSET ZerosOf(R, m) :
    Selection(top, t)!IsTopN(K, R \ zeros)

-----------------------------------------------------------------------------
(* Keyword arguments *)

\* np.rint, of halves: ties to even.
Rint(t) == IF t % 2 = 0 THEN t ELSE IF (t \div 2) % 2 = 0 THEN t - 1 ELSE t + 1

Threshold(m, t) ==
  IF t = None THEN None ELSE IF IsInt(m) THEN Rint(t) ELSE t

NThreads(n) ==
  IF n = None \/ n = 0 THEN 1 ELSE IF n < 0 THEN NCores ELSE n

\* Mutant: the caller's type is dropped.
DefaultIndexType(t) == "int32"

\* assert_idx_dtype
AssertedIndexType(t) == IF t = None THEN "int32" ELSE t

Supported == {"int32", "int64", "float32", "float64"}

\* assert_supported_dtype, ensure_compatible_dtype: no two different dtypes are
\* a subtype of each other, so any difference is an error.
Compatible(a, b) == {a.dtype, b.dtype} \subseteq Supported /\ a.dtype = b.dtype

ChunkWidth == IF opts.chunk_cols = None THEN DefaultWidth ELSE opts.chunk_cols
OneChunk == ChunkWidth >= B.ncols

\* The cursor of one row of B at the end of each chunk: the first position at or
\* past the chunk's end.  The walk resumes at the last cursor, which is no later.
Cursor(line, c) ==
  CHOOSE p \in 1 .. Len(line) + 1 :
    /\ p <= Len(line) => line[p].k >= c * ChunkWidth
    /\ \A q \in 1 .. p - 1 : line[q].k < c * ChunkWidth

NChunks == (B.ncols + ChunkWidth - 1) \div ChunkWidth
Nnz(m) == Cardinality(Cells(m))

\* auto_tile.  Bound: B is of a size that tiles support.
Tiled ==
  NChunks >= 2 /\ Nnz(A) >= 2 * B.nrows /\ NChunks * B.nrows <= 4 * Nnz(B)

\* The positions of the line that chunk c reads.
Segment(line, c) == Cursor(line, c - 1) .. Cursor(line, c) - 1
Underflows(line) ==
  \E c \in 1 .. NChunks : \E p \in Segment(line, c) : line[p].k < (c - 1) * ChunkWidth
ReadCells ==
  UNION {{[i |-> n - 1, j |-> B.lines[n][p].k, x |-> B.lines[n][p].x] :
            p \in UNION {Segment(B.lines[n], c) : c \in 1 .. NChunks}} :
           n \in DOMAIN B.lines}

-----------------------------------------------------------------------------

NoMatrix == [fmt |-> "csr", nrows |-> 0, ncols |-> 0, dtype |-> "none", lines |-> <<>>]

Begin(f, a, b, o) ==
  /\ asked' = [fn |-> f, A |-> a, B |-> b, opts |-> o]
  /\ fn' = f /\ A' = a /\ B' = b /\ opts' = o
  /\ stage' = "types" /\ error' = "none" /\ result' = NoMatrix
  /\ calls' = calls + 1

ApiInit ==
  \E p \in Pairs, o \in Options, f \in {"sp_matmul", "sp_matmul_topn"} :
    /\ asked = [fn |-> f, A |-> p.A, B |-> p.B, opts |-> o]
    /\ fn = f /\ A = p.A /\ B = p.B /\ opts = o
    /\ stage = "types" /\ error = "none" /\ result = NoMatrix
    /\ calls = 1

\* The last result becomes the right factor.
Chain ==
  /\ stage = "returned" /\ calls < MaxCalls
  /\ \E f \in {"sp_matmul", "sp_matmul_topn"} :
       Begin(f, asked.A, result, asked.opts)

Raise(exception) ==
  /\ stage' = "raised" /\ error' = exception
  /\ UNCHANGED <<asked, frame, result, calls>>

Goto(label) == stage' = label /\ UNCHANGED <<result, error, calls, asked>>

BadIndexType == opts.idx_dtype \notin {None, "int32", "int64"}
BadWidth == fn = "sp_matmul_topn" /\ opts.chunk_cols # None /\ opts.chunk_cols < 1

\* n_threads, idx_dtype, and the chunk width of sp_matmul_topn.
CheckArguments ==
  /\ stage = "types"
  /\ \/ BadIndexType /\ Raise("TypeError")
     \/ ~ BadIndexType /\ BadWidth /\ Raise("ValueError")
     \/ /\ ~ (BadIndexType \/ BadWidth)
        /\ opts' = [opts EXCEPT !.n_threads = NThreads(@),
                                !.idx_dtype = AssertedIndexType(@)]
        /\ Goto("factors")
        /\ UNCHANGED <<fn, A, B>>

\* Two csc matrices whose transposes can be multiplied as they are.
BothTransposed == A.fmt = "csc" /\ B.fmt = "csc" /\ A.nrows = B.ncols

ConvertFactors ==
  /\ stage = "factors"
  /\ \/ /\ BothTransposed
        /\ A' = Transpose(A) /\ B' = Transpose(B)
        /\ Goto("shapes") /\ UNCHANGED <<fn, opts>>
     \/ /\ ~ BothTransposed /\ {A.fmt, B.fmt} \subseteq Formats
        /\ A' = (IF A.fmt = "csr" THEN A ELSE ToCsr(A))
        /\ Goto("shapes") /\ UNCHANGED <<fn, B, opts>>
     \/ ~ ({A.fmt, B.fmt} \subseteq Formats) /\ Raise("TypeError")

\* A * B where the shapes allow it, A * B.T where those do.
OrientB ==
  /\ stage = "shapes"
  /\ \/ /\ A.ncols = B.nrows
        /\ B' = (IF B.fmt = "csr" THEN B ELSE ToCsr(B))
        /\ Goto("shortcut") /\ UNCHANGED <<fn, A, opts>>
     \/ /\ A.ncols # B.nrows /\ A.ncols = B.ncols
        /\ B' = (IF B.fmt = "csc" THEN Transpose(B) ELSE ToCsr(Transpose(B)))
        /\ Goto("shortcut") /\ UNCHANGED <<fn, A, opts>>
     \/ A.ncols # B.nrows /\ A.ncols # B.ncols /\ Raise("ValueError")

\* Mutant: any top_n that keeps every column.
KeepsEveryColumn == B.ncols <= opts.top_n /\ ~ opts.sort

KeepsEverything == B.ncols = opts.top_n /\ ~ opts.sort /\ opts.threshold = None

\* sp_matmul(A, B, n_threads): from its first line, with the default idx_dtype.
Shortcut ==
  /\ stage = "shortcut"
  /\ IF fn = "sp_matmul_topn" /\ KeepsEverything
     THEN /\ fn' = "sp_matmul" /\ opts' = [opts EXCEPT !.idx_dtype = None]
          /\ Goto("types")
     ELSE Goto("dtypes") /\ UNCHANGED <<fn, opts>>
  /\ UNCHANGED <<A, B>>

Least(x, y) == IF x < y THEN x ELSE y

\* The dtypes; then top_n and the threshold; a product of zeros is returned.
CheckDtypes ==
  /\ stage = "dtypes"
  /\ \/ ~ Compatible(A, B) /\ Raise("TypeError")
     \/ /\ Compatible(A, B) /\ Stored(A) /\ Stored(B)
        /\ opts' = IF fn = "sp_matmul" THEN opts
                   ELSE [opts EXCEPT !.top_n = Least(@, B.ncols),
                                     !.threshold = Threshold(A, @)]
        /\ Goto("core")
        /\ UNCHANGED <<fn, A, B>>
     \/ /\ Compatible(A, B) /\ ~ (Stored(A) /\ Stored(B))
        /\ result' = [fmt |-> "csr", nrows |-> A.nrows, ncols |-> B.ncols,
                      dtype |-> A.dtype, lines |-> [r \in 1 .. A.nrows |-> <<>>]]
        /\ stage' = "returned"
        /\ UNCHANGED <<asked, frame, error, calls>>

Entry(c) == [k |-> c.idx, x |-> c.val \div 2]

Return(lines) ==
  /\ result' = [fmt |-> "csr", nrows |-> A.nrows, ncols |-> B.ncols,
                dtype |-> A.dtype, lines |-> lines]
  /\ stage' = "returned"
  /\ UNCHANGED <<asked, frame, error, calls>>

\* The touched columns of row r, newest first: how sp_matmul pops its list.
Touches(r) ==
  FlattenSeq([p \in DOMAIN A.lines[r] |->
                LET line == B.lines[A.lines[r][p].k + 1]
                IN  [q \in DOMAIN line |-> line[q].k]])
First(s, k) == CHOOSE p \in DOMAIN s : s[p] = k /\ \A q \in 1 .. p - 1 : s[q] # k
NewestFirst(s) ==
  CHOOSE t \in SetToSeqs({s[p] : p \in DOMAIN s}) :
    \A p, q \in DOMAIN t : p < q => First(s, t[p]) > First(s, t[q])

\* sp_matmul, also where sp_matmul_topn of the crate hands on.
KeepsAll == fn = "sp_matmul" \/ (KeepsEverything /\ opts.n_threads = 1)

CoreMatmul ==
  /\ stage = "core" /\ KeepsAll
  /\ Return([r \in 1 .. A.nrows |->
       LET order == NewestFirst(Touches(r))
           sums == Row(Cells(A), Cells(B), r - 1)
       IN  [p \in DOMAIN order |-> Entry(CHOOSE c \in sums : c.idx = order[p])]])

\* The rows the kernel may return for row r: the insertion order is left open.
KernelRows(r) ==
  LET sums == Row(Cells(A), IF Tiled THEN Cells(B) ELSE ReadCells, r - 1)
      threshold == IF opts.threshold = None THEN MinValue ELSE opts.threshold
  IN  {row \in UNION {SetToSeqs(K) : K \in {k \in SUBSET sums :
                      Selected(k, sums, opts.top_n, threshold, A)}} :
         opts.sort => \A p, q \in DOMAIN row : p < q => row[p].val >= row[q].val}

Panics ==
  /\ opts.top_n > 0 /\ ~ Tiled
  /\ \E c \in Cells(A) : Underflows(B.lines[c.j + 1])

CoreTopN ==
  /\ stage = "core" /\ ~ KeepsAll
  /\ \/ Panics /\ Raise("PanicException")
     \/ /\ ~ Panics
        /\ \E rows \in [1 .. A.nrows -> UNION {KernelRows(r) : r \in 1 .. A.nrows}] :
             /\ \A r \in 1 .. A.nrows : rows[r] \in KernelRows(r)
             /\ Return([r \in 1 .. A.nrows |-> [p \in DOMAIN rows[r] |-> Entry(rows[r][p])]])

ApiNext ==
  \/ Chain
  \/ CheckArguments \/ ConvertFactors \/ OrientB \/ Shortcut \/ CheckDtypes
  \/ CoreMatmul \/ CoreTopN

ApiSpec == ApiInit /\ [][ApiNext]_apiVars
-----------------------------------------------------------------------------
(* Properties *)

LeftOf(c) == IF c.A.fmt = "csc" /\ c.B.fmt = "csc" /\ c.A.nrows = c.B.ncols
             THEN Transpose(c.A) ELSE c.A
RightOf(c) ==
  IF LeftOf(c) # c.A \/ c.A.ncols # c.B.nrows THEN Transpose(c.B) ELSE c.B

RowOf(m, i) == {[idx |-> e.j, val |-> 2 * e.x] : e \in {d \in Cells(m) : d.i = i}}

\* The result is the product of x and y, or for sp_matmul_topn a selection of
\* each row with the caller's top_n and threshold, which an integer product may
\* move up by as much as a half.
IsProduct(x, y) ==
  LET given == asked.opts.threshold
      ts == IF given = None THEN {MinValue}
            ELSE IF IsInt(x) THEN {given, given + 1} ELSE {given}
  IN  /\ result.nrows = x.nrows /\ result.ncols = y.ncols /\ IsStored(result)
      /\ \A i \in 0 .. x.nrows - 1 :
           LET product == Row(Cells(x), Cells(y), i) IN
           IF asked.fn = "sp_matmul" THEN RowOf(result, i) = product
           ELSE \E t \in ts : Selected(RowOf(result, i), product, asked.opts.top_n, t, x)

\* Every sum is greater than the least value of its type, which the kernels drop.
SumsAboveMin(x, y) ==
  \A i \in 0 .. x.nrows - 1 : \A c \in Row(Cells(x), Cells(y), i) : c.val > MinValue

\* Whatever the formats, shapes and options, and through the detour over
\* sp_matmul, what a call returns is A * B, or A * B.T where only that is
\* defined, or A.T * B.T for two csc matrices that can be multiplied so.  None
\* panics unless a row of B is out of column order and cut into chunks.
ResultIsProduct ==
  /\ stage = "returned"
       /\ (asked.fn = "sp_matmul" \/ SumsAboveMin(LeftOf(asked), RightOf(asked)))
     => IsProduct(LeftOf(asked), RightOf(asked))
  /\ error = "PanicException" =>
       ~ OneChunk /\ \E n \in DOMAIN B.lines : ~ InOrder(B.lines[n])

\* The type the core indexes with: the caller's, but not over the detour.
IndexType ==
  IF fn # asked.fn \/ asked.opts.idx_dtype = None THEN "int32" ELSE asked.opts.idx_dtype

\* What the bindings and sp_matmul_topn assert of their arguments holds on both
\* ways to the core: csr factors whose shapes and dtypes match, a positive chunk
\* width, a thread count that is neither zero nor negative, and no more columns
\* asked for than there are; and the indices have the type that the caller asked
\* for, unless sp_matmul took over (api.py, dispatch_vi, TopNOptions).
CoreIsCalledRight ==
  stage = "core" =>
    /\ A.fmt = "csr" /\ B.fmt = "csr" /\ A.ncols = B.nrows
    /\ A.dtype = B.dtype /\ A.dtype \in Supported
    /\ opts.n_threads > 0 /\ opts.idx_dtype = IndexType
    /\ fn = "sp_matmul_topn" =>
         /\ ChunkWidth > 0
         /\ opts.top_n <= B.ncols

\* README.md: "`COO` and `CSC` inputs are converted to the `CSR` format"; api.py:
\* "Compute A * B": where A * B is defined, the format does not change it.
FormatDoesNotShow ==
  stage = "returned" /\ asked.A.ncols = asked.B.nrows => IsProduct(asked.A, asked.B)

\* api.py, sp_matmul_topn, of chunk_cols: "Any value yields identical results":
\* a call returns the product, whatever the width.
WidthDoesNotShow ==
  /\ error # "PanicException"
  /\ stage = "returned" => IsProduct(LeftOf(asked), RightOf(asked))
=============================================================================
