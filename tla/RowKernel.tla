------------------------------ MODULE RowKernel ------------------------------
(***************************************************************************)
(* The row-at-a-time kernel of src/src/chunked.rs (process_row): for each  *)
(* row of A, sweep the columns of B in chunks, scatter the products of the *)
(* chunk into `sums`, drain the chunk into the row's top-n heap, emit the  *)
(* row.  The scratch (sums, next, cursors, heap) is allocated once and     *)
(* reused by every row of a slice (run, run_row_slice); rows may differ in *)
(* accumulator mode, so a linked-list row can follow a dense one.          *)
(*                                                                         *)
(* The rounding of floats and the wrap-around of integers are not          *)
(* modelled.  Every row of B is in canonical order.                        *)
(***************************************************************************)
EXTENDS Scores

CONSTANTS
  NCols,       \* columns of B
  ChunkCols,   \* chunk width
  MinValue,    \* V::min_value, below every sum
  IsFloat,     \* V::IS_FLOAT
  Unroll,      \* lanes of the dense scatter and drain: 4 in the code
  ARows,       \* rows of A: sequences of [j, v]
  BMatrices    \* matrices B: functions from row j to sequences of [k, x]

UNVISITED == -1

\* Mutant: the end of the list is not told from an unvisited column.
HeadNilUnvisited == -1

HEAD_NIL == -2

Locals == 0 .. ChunkCols - 1

ASSUME KernelAssumption ==
  /\ NCols \in Nat \ {0} /\ ChunkCols \in 1 .. NCols
  /\ Capacity \in Nat \ {0} /\ Unroll \in Nat \ {0}
  /\ Threshold \in Int /\ MinValue \in Int /\ MinValue <= Threshold
  /\ NaN \notin Int
  /\ IsFloat \in BOOLEAN
  /\ \A b \in BMatrices : \A j \in DOMAIN b :
       /\ b[j] \in Seq([k : 0 .. NCols - 1, x : Value])
       /\ Canonical(b[j])
  /\ \A a \in ARows : a \in Seq([j : Nat, v : Value])
  /\ \A a \in ARows, b \in BMatrices : \A p \in DOMAIN a : a[p].j \in DOMAIN b

VARIABLES
  b, projection,                 \* the call
  a, dense,                      \* the row: its entries, use_dense
  pc,                            \* "row", "scatter", "drain", "emit"; between rows
                                 \* "idle", "byColumn", "byValue"
  c0, jj, cur,                   \* chunk start, entry of a, position in b[j]
  cursors,                       \* one resume position per entry of a
  sums, next, head, length,      \* accumulator and list of touched columns
  chunk_max,                     \* bound on the sums of the chunk (dense)
  slot,                          \* scan position of the dense drain
  heap, n_set, min,              \* the row's selection and running threshold
  out,                           \* the emitted columns of the last row
  touched                        \* history: touched columns, oldest first

call == <<b, projection>>
row == <<a, dense>>
accumulator == <<sums, next, head, length, chunk_max, touched>>
selection == <<heap, n_set, min>>
vars == <<call, row, pc, c0, jj, cur, cursors, accumulator, slot, selection, out>>

-----------------------------------------------------------------------------

\* Mutant: the last chunk is not cut to the columns left.
ChunkWidthUncut == ChunkCols

ChunkWidth == IF NCols - c0 < ChunkCols THEN NCols - c0 ELSE ChunkCols
ChunkEnd == c0 + ChunkWidth

InSegment(r, p) == p <= Len(r) /\ r[p].k < ChunkEnd

BRow == b[a[jj].j]
Weight == a[jj].v
Local(p) == BRow[p].k - c0

PushPop(idx, val) ==
  /\ heap' \in Pushed(heap, [order |-> n_set, idx |-> idx, val |-> val])
  /\ n_set' = n_set + 1
  /\ min' \in Root(heap')

\* The drains' guard, and the push it protects.
Offer(idx, val) ==
  IF Gt(val, min) THEN PushPop(idx, val) ELSE UNCHANGED selection

-----------------------------------------------------------------------------

Init ==
  /\ b \in BMatrices
  /\ projection \in {"BinarySearch", "Cursor"}
  /\ a = <<>> /\ dense = FALSE
  /\ pc = "idle"
  /\ c0 = 0 /\ jj = 1 /\ cur = 1
  /\ cursors = <<>>
  /\ sums = [q \in Locals |-> 0]
  /\ next = [q \in Locals |-> UNVISITED]
  /\ head = HEAD_NIL /\ length = 0 /\ touched = <<>>
  /\ chunk_max = MinValue
  /\ slot = 0
  /\ heap = {} /\ n_set = 0 /\ min = Threshold
  /\ out = <<>>

\* use_dense: the accumulator modes and the density estimate decide for a float
\* row, nothing does for an integer row.
MayBeDense(d) == d => IsFloat

\* process_row on the next row: reset the heap, choose the accumulator, seed
\* the cursors, open chunk 0.
StartRow(entries, d) ==
  /\ pc \in {"idle", "byColumn", "byValue"}
  /\ MayBeDense(d)
  /\ a' = entries /\ dense' = d
  /\ heap' = {} /\ n_set' = 0 /\ min' = Threshold
  /\ cursors' = IF projection = "Cursor" THEN [p \in DOMAIN entries |-> 1] ELSE <<>>
  /\ c0' = 0 /\ jj' = 1
  /\ head' = HEAD_NIL /\ length' = 0 /\ touched' = <<>>
  /\ chunk_max' = MinValue
  /\ slot' = 0
  /\ out' = <<>>
  /\ pc' = "row"
  /\ UNCHANGED <<call, cur, sums, next>>

\* Find where entry jj's row of B enters the chunk.
OpenSegment ==
  /\ pc = "row" /\ jj <= Len(a)
  /\ cur' = IF projection = "Cursor" THEN cursors[jj] ELSE PartitionPoint(BRow, c0)
  /\ pc' = "scatter"
  /\ UNCHANGED <<call, row, c0, jj, cursors, accumulator, slot, selection, out>>

\* One product of the linked-list scatter: add, and link a first touch.
ScatterLinked ==
  /\ pc = "scatter" /\ ~ dense
  /\ InSegment(BRow, cur)
  /\ LET k == Local(cur) IN
       /\ sums' = [sums EXCEPT ![k] = FMAdd(Weight, BRow[cur].x, @)]
       /\ \/ /\ next[k] = UNVISITED
             /\ next' = [next EXCEPT ![k] = head]
             /\ head' = k
             /\ length' = length + 1
             /\ touched' = Append(touched, k)
          \/ /\ next[k] # UNVISITED
             /\ UNCHANGED <<next, head, length, touched>>
  /\ cur' = cur + 1
  /\ UNCHANGED <<call, row, pc, c0, jj, cursors, chunk_max, slot, selection, out>>

\* The positions one round of the unrolled scatter handles: a full group, or
\* one entry of the remainder.
Group ==
  IF InSegment(BRow, cur + Unroll - 1) THEN cur .. cur + Unroll - 1 ELSE {cur}

\* Mutant: the maximum of this round replaces the one so far.
RaisedByRound(written) == IF written = {} THEN {chunk_max} ELSE Largest(written)

\* chunk_max after a round that wrote these numbers; max ignores NaN.
Raised(written) == Largest(written \cup {chunk_max})

\* One round of the dense scatter: every lane loads before any lane stores.
ScatterDense ==
  /\ pc = "scatter" /\ dense
  /\ InSegment(BRow, cur)
  /\ sums' = [q \in Locals |->
       IF \E p \in Group : Local(p) = q
       THEN FMAdd(Weight, BRow[CHOOSE p \in Group : Local(p) = q].x, sums[q])
       ELSE sums[q]]
  /\ chunk_max' \in Raised({sums'[Local(p)] : p \in Group} \ {NaN})
  /\ cur' = cur + Cardinality(Group)
  /\ UNCHANGED <<call, row, pc, c0, jj, cursors, next, head, length, touched,
                 slot, selection, out>>

\* Mutant: a row of B used up in this chunk leaves its cursor where it was.
CloseSegmentAtBreak ==
  /\ pc = "scatter"
  /\ ~ InSegment(BRow, cur)
  /\ cursors' = IF projection = "Cursor" /\ cur <= Len(BRow)
                THEN [cursors EXCEPT ![jj] = cur] ELSE cursors
  /\ jj' = jj + 1
  /\ pc' = "row"
  /\ UNCHANGED <<call, row, c0, cur, accumulator, slot, selection, out>>

\* The rest of B's row lies beyond the chunk: the cursor resumes there.
CloseSegment ==
  /\ pc = "scatter"
  /\ ~ InSegment(BRow, cur)
  /\ cursors' = IF projection = "Cursor" THEN [cursors EXCEPT ![jj] = cur] ELSE cursors
  /\ jj' = jj + 1
  /\ pc' = "row"
  /\ UNCHANGED <<call, row, c0, cur, accumulator, slot, selection, out>>

StartDrain ==
  /\ pc = "row" /\ jj > Len(a)
  /\ pc' = "drain"
  /\ UNCHANGED <<call, row, c0, jj, cur, cursors, accumulator, slot, selection, out>>

\* drain_linked_chunk: offer the newest touched column and unlink it.
DrainLinked ==
  /\ pc = "drain" /\ ~ dense /\ length > 0
  /\ Offer(c0 + head, sums[head])
  /\ head' = next[head]
  /\ next' = [next EXCEPT ![head] = UNVISITED]
  /\ sums' = [sums EXCEPT ![head] = 0]
  /\ length' = length - 1
  /\ UNCHANGED <<call, row, pc, c0, jj, cur, cursors, chunk_max, touched, slot, out>>

\* drain_dense_chunk: a scan in groups of Unroll; the last ChunkWidth % Unroll
\* slots are scanned one by one.  The scan is entered only when the bound on
\* the chunk's sums beats the running threshold.
Scanning == pc = "drain" /\ dense /\ slot < ChunkWidth /\ (slot = 0 => Gt(chunk_max, min))
Grouped == slot + Unroll <= (ChunkWidth \div Unroll) * Unroll
AtGroup == slot % Unroll = 0 /\ Grouped
GroupBeats == \E q \in slot .. slot + Unroll - 1 : Gt(sums[q], min)

SkipGroup ==
  /\ Scanning /\ AtGroup /\ ~ GroupBeats
  /\ slot' = slot + Unroll
  /\ UNCHANGED <<call, row, pc, c0, jj, cur, cursors, accumulator, selection, out>>

DrainSlot ==
  /\ Scanning /\ (AtGroup => GroupBeats)
  /\ IF sums[slot] # 0 THEN Offer(c0 + slot, sums[slot]) ELSE UNCHANGED selection
  /\ slot' = slot + 1
  /\ UNCHANGED <<call, row, pc, c0, jj, cur, cursors, accumulator, out>>

Drained ==
  /\ pc = "drain"
  /\ IF dense THEN slot = ChunkWidth \/ (slot = 0 /\ ~ Gt(chunk_max, min))
              ELSE length = 0

\* Mutant: a chunk that is not scanned is not cleared.
ClearedIfScanned ==
  IF dense /\ slot > 0
  THEN [q \in Locals |-> IF q < ChunkWidth THEN 0 ELSE sums[q]] ELSE sums

\* The dense drain clears the chunk's sums, scanned or not.
Cleared ==
  IF dense THEN [q \in Locals |-> IF q < ChunkWidth THEN 0 ELSE sums[q]] ELSE sums

\* On to the next chunk, or to the output.
EndChunk ==
  /\ Drained
  /\ sums' = Cleared
  /\ c0' = ChunkEnd
  /\ jj' = 1
  /\ head' = HEAD_NIL /\ length' = 0 /\ touched' = <<>>
  /\ chunk_max' = MinValue
  /\ slot' = 0
  /\ pc' = IF ChunkEnd < NCols THEN "row" ELSE "emit"
  /\ UNCHANGED <<call, row, cur, cursors, next, selection, out>>

\* The heap sorted and copied out.
Emit(Before(_, _), mode) ==
  /\ pc = "emit"
  /\ out' \in {[p \in DOMAIN f |-> f[p].idx] : f \in Listings(heap, Before)}
  /\ pc' = mode
  /\ UNCHANGED <<call, row, c0, jj, cur, cursors, accumulator, slot, selection>>

\* Mutant: the entries come out newest first.
NewestFirst(e, f) == e.order > f.order

ByOrder(e, f) == e.order < f.order
ByValueDesc(e, f) == e.val > f.val

EmitByColumn == Emit(ByOrder, "byColumn")
EmitByValue == Emit(ByValueDesc, "byValue")

Next ==
  \/ \E entries \in ARows, d \in BOOLEAN : StartRow(entries, d)
  \/ OpenSegment \/ ScatterLinked \/ ScatterDense \/ CloseSegment
  \/ StartDrain \/ DrainLinked \/ SkipGroup \/ DrainSlot \/ EndChunk
  \/ EmitByColumn \/ EmitByValue

Spec == Init /\ [][Next]_vars

-----------------------------------------------------------------------------
(* Properties *)

Entry == [order : Nat, idx : 0 .. NCols - 1, val : Int]

TypeOK ==
  /\ b \in BMatrices /\ projection \in {"BinarySearch", "Cursor"}
  /\ a \in ARows \cup {<<>>} /\ dense \in BOOLEAN
  /\ pc \in {"row", "scatter", "drain", "emit", "idle", "byColumn", "byValue"}
  /\ c0 \in 0 .. NCols /\ jj \in Nat \ {0} /\ cur \in Nat \ {0}
  /\ cursors \in Seq(Nat \ {0})
  /\ sums \in [Locals -> Value]
  /\ next \in [Locals -> Locals \cup {UNVISITED, HEAD_NIL}]
  /\ head \in Locals \cup {HEAD_NIL}
  /\ length \in 0 .. Len(touched) /\ touched \in Seq(Locals)
  /\ chunk_max \in Int
  /\ slot \in 0 .. ChunkCols
  /\ heap \subseteq Entry /\ n_set \in Nat /\ min \in Int
  /\ out \in Seq(0 .. NCols - 1)

\* No row and no chunk inherits anything: whenever a chunk is opened, whatever
\* accumulator the previous one used, every sum is zero and every column
\* unvisited.
ScratchClean ==
  pc \in {"idle", "emit", "byColumn", "byValue"} \/ (pc = "row" /\ jj = 1) =>
    \A q \in Locals : sums[q] = 0 /\ next[q] = UNVISITED

\* The intrusive list reached from head is exactly the touched columns still
\* to be drained, newest first, each once; a column outside it has a zero sum.
ListIsTouched ==
  ~ dense =>
    /\ head = IF length = 0 THEN HEAD_NIL ELSE touched[length]
    /\ \A p \in 1 .. length :
         next[touched[p]] = IF p = 1 THEN HEAD_NIL ELSE touched[p - 1]
    /\ \A q \in Locals :
         IF \E p \in 1 .. length : touched[p] = q
         THEN next[q] # UNVISITED
         ELSE next[q] = UNVISITED /\ sums[q] = 0

\* The running maximum of the scattered values bounds every sum that could be
\* pushed, although later products can lower a sum again and NaN is skipped:
\* a chunk whose bound does not beat the threshold has nothing to push.
ChunkMaxBounds ==
  dense => \A q \in Locals : sums[q] \in {0, NaN} \/ sums[q] <= chunk_max

\* A cursor stands at the first entry of its row of B past what the chunks
\* have consumed, so no entry is read twice, skipped, or read in a chunk it
\* does not belong to.
CursorsResume ==
  projection = "Cursor" =>
    /\ pc = "row" => \A p \in DOMAIN cursors :
         cursors[p] = PartitionPoint(b[a[p].j], IF p < jj THEN ChunkEnd ELSE c0)
    /\ pc = "scatter" /\ InSegment(BRow, cur) => BRow[cur].k >= c0

Dot(k) == DotProduct(a, b, k)

\* A column is a result when A and B have an entry for it and it is a number;
\* a dense float row treats an exact zero as no result.
IsResult(k) ==
  /\ \E p \in DOMAIN a : Has(b[a[p].j], k)
  /\ Dot(k) # NaN
  /\ IsFloat /\ dense => Dot(k) # 0

Passed(k) ==
  \/ k < c0
  \/ /\ pc = "drain" /\ k < ChunkEnd
     /\ IF dense THEN k - c0 < slot ELSE next[k - c0] = UNVISITED

Offered == {[idx |-> k, val |-> Dot(k)] :
              k \in {q \in 0 .. NCols - 1 : Passed(q) /\ IsResult(q)}}

Kept == {[idx |-> e.idx, val |-> e.val] : e \in heap}

\* The row's selection is a top-n of the columns drained so far, each with its
\* full dot product: chunking, projection, accumulator, the two skips of the
\* dense drain and the reuse of scratch are invisible.
Selection == INSTANCE TopN WITH N <- Capacity, offered <- Offered, kept <- Kept

ImplementsTopN == Selection!Spec

\* ByColumn emits the chunks in order, and a dense row in column order.
RowOrder ==
  pc = "byColumn" => \A p, q \in DOMAIN out : p < q =>
    IF dense THEN out[p] < out[q]
    ELSE out[p] \div ChunkCols <= out[q] \div ChunkCols
=============================================================================
