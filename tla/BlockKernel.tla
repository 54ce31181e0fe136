----------------------------- MODULE BlockKernel -----------------------------
(***************************************************************************)
(* The chunk-major kernel of src/src/chunked.rs (process_row_block) and    *)
(* the loop that feeds it blocks of rows (run_blocked; the same loop in a  *)
(* slice of parallel.rs).  In each chunk of columns the rows of the block  *)
(* are scattered and drained in turn.  They share one accumulator, while a *)
(* row's selection, accumulator mode and cursors outlive the chunk.  B is  *)
(* projected on the chunk by binary search, by cursors, or beforehand      *)
(* (TiledB).                                                               *)
(*                                                                         *)
(* A step scatters a whole segment of B or drains a whole chunk: RowKernel *)
(* takes the same loops product by product.  The list of touched columns   *)
(* is a sequence here, newest first, as RowKernel's ListIsTouched allows.  *)
(***************************************************************************)
EXTENDS Scores, SequencesExt

CONSTANTS
  NCols, ChunkCols, MinValue,  \* as in RowKernel
  RowBlocks,   \* rows per block the driver may ask for (Routing)
  AMatrices,   \* matrices A: sequences of rows, each a sequence of [j, v]
  BMatrices    \* matrices B: functions from row j to sequences of [k, x]

Locals == 0 .. ChunkCols - 1

ASSUME BlockAssumption ==
  /\ NCols \in Nat \ {0} /\ ChunkCols \in 1 .. NCols
  /\ Capacity \in Nat \ {0} /\ Threshold \in Int /\ MinValue \in Int
  /\ MinValue <= Threshold /\ NaN \notin Int
  /\ RowBlocks \subseteq Nat \ {0}
  /\ \A m \in BMatrices : \A j \in DOMAIN m :
       /\ m[j] \in Seq([k : 0 .. NCols - 1, x : Value])
       /\ Canonical(m[j])
  /\ \A m \in AMatrices : m # <<>> /\ m \in Seq(Seq([j : Nat, v : Value]))
  /\ \A m \in AMatrices, n \in BMatrices : \A i \in DOMAIN m :
       \A p \in DOMAIN m[i] : m[i][p].j \in DOMAIN n

VARIABLES
  a, b, is_float,                       \* the call: V::IS_FLOAT
  projection, sort, block_rows,
  pc,           \* "block", "scatter", "emit", "done"
  lo,           \* rows finished: the block begins at row lo + 1
  use_dense,    \* of the block: accumulator mode of each row
  selected,     \* its heaps (entries, n_set) and mins
  cursors,      \* its cursors, one row after the other
  c0, q, jj,    \* chunk start, row in the block, entry of that row of A
  sums, list, chunk_max,
  out           \* the rows emitted so far

call == <<a, b, is_float, projection, sort, block_rows>>
vars == <<call, pc, lo, use_dense, selected, cursors, c0, q, jj, sums, list, chunk_max, out>>

-----------------------------------------------------------------------------

Min2(x, y) == IF x < y THEN x ELSE y
\* Mutant: the last chunk is not cut to the columns left.
ChunkEndUncut == c0 + ChunkCols

ChunkEnd == c0 + Min2(NCols - c0, ChunkCols)

BlockLen == Min2(block_rows, Len(a) - lo)
Block == 0 .. BlockLen - 1
ARow(s) == a[lo + s + 1]
BRow(s, e) == b[ARow(s)[e].j]

\* Mutant: the last row of a block finds the cursors of the row before it.
BaseOfPrevious(s) ==
  IF s > 0 /\ s = BlockLen - 1 THEN Len(FlattenSeq([p \in 1 .. s - 1 |-> ARow(p - 1)]))
                               ELSE Len(FlattenSeq([p \in 1 .. s |-> ARow(p - 1)]))

\* cursor_base: where the cursors of a row of the block begin.
CursorBase(s) == Len(FlattenSeq([p \in 1 .. s |-> ARow(p - 1)]))

\* push_row_cursors: one per entry of the block's rows.
SeededCursors ==
  IF projection = "Cursor" THEN [p \in 1 .. CursorBase(BlockLen) |-> 1] ELSE <<>>

Cursor(s, e) == cursors[CursorBase(s) + e]

\* From position `from` of r, the first entry past the chunk.
Stop(r, from) == from + Cardinality({p \in from .. Len(r) : r[p].k < ChunkEnd})

\* The positions of a row of B that entry e of row s meets in this chunk.  A tile
\* holds what TiledB shows, the entries of the row in the chunk in their order;
\* in a canonical row these lie between the points of the binary search.
Segment(s, e) ==
  IF projection = "Cursor"
  THEN Cursor(s, e) .. Stop(BRow(s, e), Cursor(s, e)) - 1
  ELSE PartitionPoint(BRow(s, e), c0) .. PartitionPoint(BRow(s, e), ChunkEnd) - 1

\* The local columns they are in.
Met(s, e) == {BRow(s, e)[p].k - c0 : p \in Segment(s, e)}

Listed == {list[p] : p \in DOMAIN list}

\* The elements of S, largest first.
Descending(S) == {f \in [1 .. Cardinality(S) -> S] : \A x, y \in DOMAIN f : x < y => f[x] > f[y]}

\* The selections that candidate c can turn s into.  The dense drain scans the
\* untouched columns too, and skips them and all others that are zero.
OfferTo(s, c) ==
  IF ~ Gt(c.val, s.min) \/ (use_dense[q] /\ c.val = 0) THEN {s}
  ELSE UNION {{[entries |-> h, n_set |-> s.n_set + 1, min |-> m] : m \in Root(h)} :
          h \in Pushed(s.entries, [order |-> s.n_set, idx |-> c.idx, val |-> c.val])}

\* What the drain of the chunk offers, in its order.
Candidates ==
  IF ~ use_dense[q] THEN [p \in DOMAIN list |-> [idx |-> c0 + list[p], val |-> sums[list[p]]]]
  ELSE IF Gt(chunk_max, selected[q].min)
  THEN [p \in 1 .. ChunkEnd - c0 |-> [idx |-> c0 + p - 1, val |-> sums[p - 1]]]
  ELSE <<>>

\* The selections that s may be after the candidates, offered in turn.
After(s) ==
  LET f[n \in 0 .. Len(Candidates)] ==
        IF n = 0 THEN {s} ELSE UNION {OfferTo(u, Candidates[n]) : u \in f[n - 1]}
  IN  f[Len(Candidates)]

\* Mutant: the threshold reached in a chunk is not kept for the next one.
DrainedForgettingMin == After([selected[q] EXCEPT !.min = Threshold])

\* The selections row q may have after the drain.
Drained == After(selected[q])

-----------------------------------------------------------------------------

Init ==
  /\ a \in AMatrices /\ b \in BMatrices
  /\ is_float \in BOOLEAN
  /\ ~ is_float => \A j \in DOMAIN b : \A p \in DOMAIN b[j] : b[j][p].x # NaN
  /\ projection \in {"BinarySearch", "Cursor", "Tiled"}
  /\ sort \in {"ByColumn", "ByValueDesc"}
  /\ \E row_block \in RowBlocks : block_rows = Min2(row_block, Len(a))
  /\ pc = "block" /\ lo = 0
  /\ use_dense = <<>> /\ selected = <<>> /\ cursors = <<>>
  /\ c0 = 0 /\ q = 0 /\ jj = 1
  /\ sums = [k \in Locals |-> 0] /\ list = <<>> /\ chunk_max = MinValue
  /\ out = <<>>

\* Mutant: an integer row may accumulate densely.
DenseForAnyType(d) == d \in BOOLEAN

MayBeDense(d) == d => is_float

\* The next block: reset its heaps, choose its accumulators, seed its cursors.
StartBlock(d) ==
  /\ pc = "block" /\ lo < Len(a)
  /\ \A s \in Block : MayBeDense(d[s])
  /\ use_dense' = d
  /\ selected' = [s \in Block |-> [entries |-> {}, n_set |-> 0, min |-> Threshold]]
  /\ cursors' = SeededCursors
  /\ c0' = 0 /\ q' = 0 /\ jj' = 1
  /\ pc' = "scatter"
  /\ UNCHANGED <<call, lo, sums, list, chunk_max, out>>

\* Entry jj of row q: its segment is added to the accumulator.
Scatter ==
  /\ pc = "scatter" /\ jj <= Len(ARow(q))
  /\ LET r == BRow(q, jj)
         met == Met(q, jj)
     IN  /\ sums' = [k \in Locals |->
              IF k \in met THEN FMAdd(ARow(q)[jj].v, At(r, c0 + k), sums[k]) ELSE sums[k]]
         /\ IF use_dense[q]
            THEN /\ chunk_max' \in Largest({chunk_max} \cup ({sums'[k] : k \in met} \ {NaN}))
                 /\ UNCHANGED list
            ELSE /\ \E fresh \in Descending(met \ Listed) : list' = fresh \o list
                 /\ UNCHANGED chunk_max
  /\ cursors' = IF projection = "Cursor"
                THEN [cursors EXCEPT ![CursorBase(q) + jj] = @ + Cardinality(Segment(q, jj))]
                ELSE cursors
  /\ jj' = jj + 1
  /\ UNCHANGED <<call, pc, lo, use_dense, selected, c0, q, out>>

\* Mutant: the dense drain clears only the slots of a full chunk.
ClearedFull ==
  [k \in Locals |->
     IF (IF use_dense[q] THEN ChunkEnd - c0 = ChunkCols ELSE k \in Listed) THEN 0 ELSE sums[k]]

Cleared ==
  [k \in Locals |->
     IF (IF use_dense[q] THEN k < ChunkEnd - c0 ELSE k \in Listed) THEN 0 ELSE sums[k]]

\* Row q is drained; the next row of the block, or the first row in the next
\* chunk, follows.
Drain ==
  /\ pc = "scatter" /\ jj > Len(ARow(q))
  /\ \E s \in Drained : selected' = [selected EXCEPT ![q] = s]
  /\ sums' = Cleared
  /\ list' = <<>> /\ chunk_max' = MinValue
  /\ jj' = 1
  /\ IF q + 1 < BlockLen
     THEN q' = q + 1 /\ UNCHANGED <<pc, c0>>
     ELSE /\ q' = 0
          /\ c0' = ChunkEnd
          /\ pc' = IF ChunkEnd < NCols THEN "scatter" ELSE "emit"
  /\ UNCHANGED <<call, lo, use_dense, cursors, out>>

Before(e, f) == IF sort = "ByColumn" THEN e.order < f.order ELSE e.val > f.val

\* Row q is sorted and emitted; after the last one the next block follows.
EmitRow ==
  /\ pc = "emit"
  /\ \E f \in Listings(selected[q].entries, Before) :
       out' = Append(out, [p \in DOMAIN f |-> [idx |-> f[p].idx, val |-> f[p].val]])
  /\ IF q + 1 < BlockLen
     THEN q' = q + 1 /\ UNCHANGED <<pc, lo>>
     ELSE /\ q' = 0
          /\ lo' = lo + BlockLen
          /\ pc' = IF lo' < Len(a) THEN "block" ELSE "done"
  /\ UNCHANGED <<call, use_dense, selected, cursors, c0, jj, sums, list, chunk_max>>

Next ==
  \/ \E d \in [Block -> BOOLEAN] : StartBlock(d)
  \/ Scatter \/ Drain \/ EmitRow

Spec == Init /\ [][Next]_vars

-----------------------------------------------------------------------------
(* Properties *)

TypeOK ==
  /\ pc \in {"block", "scatter", "emit", "done"}
  /\ lo \in 0 .. Len(a) /\ block_rows \in 1 .. Len(a)
  /\ c0 \in 0 .. NCols /\ q \in 0 .. block_rows - 1 /\ jj \in Nat \ {0}
  /\ cursors \in Seq(Nat \ {0})
  /\ \A k \in Locals : sums[k] \in Value
  /\ list \in Seq(Locals)
  /\ \A s \in DOMAIN selected :
       /\ selected[s].entries \subseteq [order : 0 .. selected[s].n_set - 1,
                                         idx : 0 .. NCols - 1, val : Int]
       /\ selected[s].n_set \in 0 .. NCols
  /\ Len(out) <= Len(a)

\* The rows of a block share one accumulator: whoever comes next, in the same
\* chunk or the next, in either accumulator mode, finds it clean.
AccumulatorClean ==
  jj = 1 \/ pc # "scatter" => list = <<>> /\ \A k \in Locals : sums[k] = 0

\* Each row's cursors follow that row's own progress: in the middle of a chunk
\* the rows already served stand at its end, the others at its start.
CursorsResume ==
  pc = "scatter" /\ projection = "Cursor" =>
    \A s \in Block : \A e \in DOMAIN ARow(s) :
      Cursor(s, e) = PartitionPoint(BRow(s, e),
                                    IF s < q \/ (s = q /\ e < jj) THEN ChunkEnd ELSE c0)

\* Column k is a result of row u: see RowKernel.
IsResult(u, dense, k) ==
  /\ \E e \in DOMAIN u : Has(b[u[e].j], k)
  /\ DotProduct(u, b, k) # NaN
  /\ is_float /\ dense => DotProduct(u, b, k) # 0

Results(u, dense, S) ==
  {[idx |-> k, val |-> DotProduct(u, b, k)] : k \in {p \in S : IsResult(u, dense, p)}}

\* The columns row s of the block has been drained of.
Passed(s) == 0 .. (IF pc = "scatter" /\ s < q THEN ChunkEnd ELSE c0) - 1

Working(s) == pc \in {"scatter", "emit"} /\ s \in Block
Offered(s) == IF Working(s) THEN Results(ARow(s), use_dense[s], Passed(s)) ELSE {}
Kept(s) == IF Working(s)
           THEN {[idx |-> e.idx, val |-> e.val] : e \in selected[s].entries} ELSE {}

\* Every row's selection, kept alive across the chunks while other rows use
\* the accumulator, goes through a top-n of what that row alone was offered.
Selection(s) == INSTANCE TopN WITH N <- Capacity, offered <- Offered(s), kept <- Kept(s)

RowsSelect ==
  [][\A s \in 0 .. Len(a) - 1 : Selection(s)!Next \/ UNCHANGED <<Offered(s), Kept(s)>>]_vars

\* The output is the rows of A in order, each the best columns of its full
\* product, each column once, in the order asked for: block size, tiling,
\* projection and accumulator do not show.
OutputIsTopN ==
  /\ Len(out) = lo + (IF pc = "emit" THEN q ELSE 0)
  /\ \A i \in DOMAIN out :
       LET row == {out[i][p] : p \in DOMAIN out[i]}
           all == Results(a[i], FALSE, 0 .. NCols - 1)
       IN  /\ Cardinality(row) = Len(out[i])
           /\ \E zeros \in SUBSET {c \in all : c.val = 0 /\ is_float} :
                Selection(0)!IsTopN(row, all \ zeros)
           /\ sort = "ByValueDesc" =>
                \A p, s \in DOMAIN out[i] : p < s => out[i][p].val >= out[i][s].val
=============================================================================
