---------------------------- MODULE RowKernelProofs ----------------------------
(***************************************************************************)
(* Safety of RowKernel for every number of columns, chunk width, unrolling, *)
(* capacity and threshold, any matrices and any sequence of rows and modes:  *)
(* the scratch is clean when a chunk is opened, the intrusive list is the    *)
(* touched columns, chunk_max bounds the chunk's sums, and cursors resume    *)
(* where the last chunk stopped; and the row's heap is at all times a top-n  *)
(* of the columns drained so far, each with its whole dot product            *)
(* (RowKernel implements TopN), which ByColumn emits in order.               *)
(*                                                                           *)
(* None of these is inductive.  IInv adds what ties the scratch together:    *)
(* the columns of the list are distinct and lie in the chunk, a dense row    *)
(* leaves the list alone, sums beyond a narrow chunk stay zero, and, of the  *)
(* row of B being scattered, what lies before `cur` is before the chunk's    *)
(* end and the rest not before its start.  On top of it, Content says what a *)
(* sum is while a chunk is scattered: the product of the entries of A done   *)
(* so far with its column; and Selected says what the heap holds: results of *)
(* columns already drained, numbered in the order they came, and, of all     *)
(* results drained, every one above the running threshold.                   *)
(***************************************************************************)
EXTENDS RowKernel, SequenceLemmas, FiniteSetTheorems, TLAPS

Working == pc \in {"row", "scatter", "drain"}
Clean == \A q \in Locals : sums[q] = 0 /\ next[q] = UNVISITED

\* Of row r, exactly the entries before position p are in columns before c.
IsPoint(r, p, c) == p \in 1 .. Len(r) + 1 /\ \A e \in DOMAIN r : e < p <=> r[e].k < c

Position ==
  /\ Working => c0 < NCols
  /\ pc \in {"row", "scatter"} => jj <= Len(a) + 1
  /\ pc = "scatter" => jj <= Len(a)
  /\ pc = "drain" => jj = Len(a) + 1
  /\ pc # "drain" => slot = 0
  /\ slot <= ChunkWidth
  /\ Working /\ projection = "Cursor" => Len(cursors) = Len(a)
  /\ IsFiniteSet(heap)

Segments ==
  /\ Working /\ projection = "Cursor" => \A p \in DOMAIN cursors :
       \/ pc = "scatter" /\ p = jj
       \/ IsPoint(b[a[p].j], cursors[p], IF p < jj THEN ChunkEnd ELSE c0)
  /\ pc = "scatter" =>
       /\ cur <= Len(BRow) + 1
       /\ \A e \in DOMAIN BRow : IF e < cur THEN BRow[e].k < ChunkEnd ELSE BRow[e].k >= c0

List ==
  /\ ListIsTouched
  /\ dense => length = 0 /\ \A q \in Locals : next[q] = UNVISITED
  /\ \A p \in 1 .. length : touched[p] < ChunkWidth
  /\ \A p, q \in 1 .. length : touched[p] = touched[q] => p = q
  /\ pc \in {"row", "scatter"} => length = Len(touched)
  /\ ~ Working => length = 0

Sums ==
  /\ Working => \A q \in Locals : q >= ChunkWidth => sums[q] = 0
  /\ ~ Working \/ (pc = "row" /\ jj = 1) => Clean
  /\ ChunkMaxBounds

IInv ==
  /\ TypeOK
  /\ Position
  /\ Segments
  /\ List
  /\ Sums

-----------------------------------------------------------------------------

Cell == [k : 0 .. NCols - 1, x : Value]
Factor == [j : Nat, v : Value]

\* Widths and ends of chunks.
LEMMA ChunkFacts ==
  ASSUME c0 \in 0 .. NCols
  PROVE  /\ ChunkWidth \in 0 .. ChunkCols /\ ChunkEnd \in 0 .. NCols
         /\ ChunkEnd = c0 + ChunkWidth
         /\ c0 < NCols => ChunkWidth > 0
         /\ ChunkEnd < NCols => ChunkWidth = ChunkCols
BY KernelAssumption DEF ChunkWidth, ChunkEnd

\* The row of B that an entry of A selects, and the entry's weight.
LEMMA RowOfB ==
  ASSUME b \in BMatrices, NEW r \in ARows \cup {<<>>}, NEW p \in DOMAIN r
  PROVE  /\ b[r[p].j] \in Seq(Cell) /\ Canonical(b[r[p].j])
         /\ r[p].v \in Value
<1>1. r \in ARows
  OBVIOUS
<1>2. r \in Seq(Factor)
  BY <1>1, KernelAssumption DEF Factor
<1>3. r[p] \in Factor
  BY <1>2
<1>4. r[p].j \in DOMAIN b
  BY <1>1, KernelAssumption
<1>5. b[r[p].j] \in Seq([k : 0 .. NCols - 1, x : Value]) /\ Canonical(b[r[p].j])
  BY <1>4, KernelAssumption
<1> QED
  BY <1>3, <1>5 DEF Cell, Factor

\* A row of A is a sequence.
LEMMA RowOfA ==
  ASSUME NEW r \in ARows \cup {<<>>}
  PROVE  DOMAIN r = 1 .. Len(r) /\ Len(r) \in Nat
<1>1. CASE r \in ARows
  <2>1. r \in Seq(Factor)
    BY <1>1, KernelAssumption DEF Factor
  <2> QED
    BY <2>1
<1>2. CASE r = <<>>
  BY <1>2
<1> QED
  BY <1>1, <1>2

\* partition_point splits a canonical row at a column.
LEMMA PartitionPointSplits ==
  ASSUME NEW r \in Seq(Cell), Canonical(r), NEW c \in Int
  PROVE  IsPoint(r, PartitionPoint(r, c), c)
<1> DEFINE S == {p \in DOMAIN r : r[p].k < c}
<1>2. Len(r) \in Nat /\ DOMAIN r = 1 .. Len(r) /\ \A p \in DOMAIN r : r[p] \in Cell
  OBVIOUS
<1>1. \A p \in DOMAIN r : p \in 1 .. Len(r) /\ r[p].k \in Int
  BY <1>2, KernelAssumption DEF Cell
<1>3. \A p, q \in DOMAIN r : q \in S /\ p < q => p \in S
  BY <1>1 DEF Canonical
<1>4. IsFiniteSet(1 .. Len(r)) /\ Cardinality(1 .. Len(r)) = Len(r)
  BY <1>2, FS_Interval
<1>5. S \subseteq 1 .. Len(r)
  BY <1>2
<1>6. IsFiniteSet(S) /\ Cardinality(S) \in Nat /\ Cardinality(S) <= Len(r)
  BY <1>4, <1>5, FS_Subset, FS_CardinalityType
<1>7. \A m \in 0 .. Len(r) : IsFiniteSet(1 .. m) /\ Cardinality(1 .. m) = m
  BY <1>2, FS_Interval
<1> HIDE DEF S
<1>8. ASSUME NEW e \in DOMAIN r, e \in S PROVE e <= Cardinality(S)
  <2>1. 1 .. e \subseteq S
    BY <1>2, <1>3, <1>8
  <2>2. Cardinality(1 .. e) <= Cardinality(S)
    BY <1>6, <2>1, FS_Subset
  <2> QED
    BY <1>2, <1>7, <2>2
<1>9. ASSUME NEW e \in DOMAIN r, e \notin S PROVE Cardinality(S) < e
  <2>1. S \subseteq 1 .. (e - 1)
    <3>1. ASSUME NEW q \in S PROVE q \in 1 .. (e - 1)
      <4>1. q \in 1 .. Len(r)
        BY <1>5
      <4>2. ~ (e < q) /\ q # e
        BY <1>2, <1>3, <1>9, <4>1
      <4> QED
        BY <1>2, <4>1, <4>2
    <3> QED
      BY <3>1
  <2>2. e - 1 \in 0 .. Len(r)
    BY <1>2
  <2>4. IsFiniteSet(1 .. (e - 1)) /\ Cardinality(1 .. (e - 1)) = e - 1
    BY <1>7, <2>2
  <2>3. Cardinality(S) <= e - 1
    BY <2>1, <2>4, FS_Subset
  <2> QED
    BY <1>2, <1>6, <2>2, <2>3
<1>10. \A e \in DOMAIN r : e < Cardinality(S) + 1 <=> e \in S
  BY <1>2, <1>6, <1>8, <1>9
<1>11. PartitionPoint(r, c) = Cardinality(S) + 1
  BY DEF PartitionPoint, S
<1>12. Cardinality(S) + 1 \in 1 .. Len(r) + 1
  BY <1>2, <1>6
<1> QED
  BY <1>10, <1>11, <1>12 DEF IsPoint, S

\* A split point is the partition point.
LEMMA PointIsUnique ==
  ASSUME NEW r \in Seq(Cell), NEW c \in Int, NEW q, IsPoint(r, q, c)
  PROVE  q = PartitionPoint(r, c)
<1> DEFINE S == {p \in DOMAIN r : r[p].k < c}
<1>1. Len(r) \in Nat /\ DOMAIN r = 1 .. Len(r) /\ q \in 1 .. Len(r) + 1
  BY DEF IsPoint
<1>2. S = 1 .. (q - 1)
  BY <1>1 DEF IsPoint
<1>3. q - 1 \in Nat
  BY <1>1
<1>4. Cardinality(1 .. (q - 1)) = q - 1
  BY <1>3, FS_Interval
<1>5. PartitionPoint(r, c) = Cardinality(S) + 1
  BY DEF PartitionPoint
<1> HIDE DEF S
<1> QED
  BY <1>1, <1>2, <1>4, <1>5

\* Arithmetic on values stays in values.
LEMMA FMAddType ==
  ASSUME NEW v \in Value, NEW x \in Value, NEW acc \in Value
  PROVE  FMAdd(v, x, acc) \in Value
BY KernelAssumption DEF Value, FMAdd

\* What a push, or a candidate turned away, leaves of the selection.
LEMMA OfferType ==
  ASSUME TypeOK, IsFiniteSet(heap),
         NEW idx \in 0 .. NCols - 1, NEW val \in Value, Offer(idx, val)
  PROVE  /\ heap' \subseteq Entry /\ IsFiniteSet(heap')
         /\ n_set' \in Nat /\ min' \in Int
<1>1. CASE ~ Gt(val, min)
  BY <1>1 DEF Offer, TypeOK, selection
<1>2. CASE Gt(val, min)
  <2>1. val \in Int
    BY <1>2 DEF Gt, Value
  <2>2. PICK evicted : /\ evicted = {} \/ \E e \in heap : evicted = {e}
                       /\ heap' = (heap \ evicted) \cup {[order |-> n_set, idx |-> idx, val |-> val]}
                       /\ n_set' = n_set + 1 /\ min' \in Root(heap')
    BY <1>2 DEF Offer, PushPop, Pushed, Lowest
  <2>3. [order |-> n_set, idx |-> idx, val |-> val] \in Entry
    BY <2>1 DEF Entry, TypeOK
  <2>4. heap' \subseteq Entry
    BY <2>2, <2>3 DEF TypeOK
  <2>5. IsFiniteSet(heap \ evicted)
    BY FS_Difference
  <2>6. IsFiniteSet(heap')
    BY <2>2, <2>5, FS_AddElement
  <2>7. min' \in Int
    BY <2>2, <2>4, KernelAssumption DEF Root, Lowest, Entry
  <2> QED
    BY <2>2, <2>4, <2>6, <2>7 DEF TypeOK
<1> QED
  BY <1>1, <1>2

-----------------------------------------------------------------------------

\* The call opens with clean scratch and an empty selection.
LEMMA InitInv == Init => IInv
<1> SUFFICES ASSUME Init PROVE IInv
  OBVIOUS
<1>1. TypeOK
  BY KernelAssumption DEF Init, TypeOK, Value, Locals
<1>2. Position
  BY <1>1, ChunkFacts, FS_EmptySet DEF Init, Position, Working, TypeOK
<1>3. Segments
  BY DEF Init, Segments, Working
<1>4. List
  BY DEF Init, List, ListIsTouched, Working, HEAD_NIL, UNVISITED
<1>5. Sums
  BY DEF Init, Sums, Clean, ChunkMaxBounds, Working
<1> QED
  BY <1>1, <1>2, <1>3, <1>4, <1>5 DEF IInv

\* A new row: chunk 0, every cursor at 1, the scratch left clean by the last.
LEMMA StartRowStep ==
  ASSUME IInv, NEW r \in ARows, NEW d \in BOOLEAN, StartRow(r, d)
  PROVE  IInv'
<1> USE DEF StartRow
<1>1. /\ b \in BMatrices /\ b' = b /\ projection' = projection /\ a' = r /\ dense' = d
      /\ c0' = 0 /\ jj' = 1 /\ slot' = 0 /\ sums' = sums /\ next' = next /\ cur' = cur
      /\ head' = HEAD_NIL /\ length' = 0 /\ touched' = <<>> /\ pc' = "row"
      /\ NCols \in Nat \ {0}
  BY KernelAssumption DEF IInv, TypeOK, call
<1>2. DOMAIN r = 1 .. Len(r) /\ Len(r) \in Nat
  BY RowOfA
<1>3. ~ Working
  BY DEF Working
<1>4. Clean
  BY <1>3 DEF IInv, Sums
<1>5. /\ cursors' \in Seq(Nat \ {0})
      /\ projection = "Cursor" => /\ DOMAIN cursors' = DOMAIN r /\ Len(cursors') = Len(r)
                                  /\ \A p \in DOMAIN r : cursors'[p] = 1
  <2>1. CASE projection = "Cursor"
    <3>1. cursors' = [p \in 1 .. Len(r) |-> 1]
      BY <2>1, <1>2
    <3>2. cursors' \in Seq(Nat \ {0})
      BY <3>1, <1>2
    <3> QED
      BY <2>1, <3>1, <3>2, <1>2
  <2>2. CASE projection # "Cursor"
    BY <2>2
  <2> QED
    BY <2>1, <2>2
<1>6. TypeOK'
  BY <1>1, <1>5, KernelAssumption DEF IInv, TypeOK, call
<1>7. Position'
  <2>1. IsFiniteSet(heap')
    BY FS_EmptySet
  <2>2. ChunkWidth' >= 0
    BY <1>1, KernelAssumption DEF ChunkWidth
  <2> QED
    BY <1>1, <1>2, <1>5, <2>1, <2>2 DEF Position, Working
<1>8. Segments'
  <2>1. ASSUME projection = "Cursor", NEW p \in DOMAIN r
        PROVE  IsPoint(b[r[p].j], 1, 0)
    <3>1. b[r[p].j] \in Seq(Cell)
      BY <1>1, RowOfB, <1>6 DEF TypeOK
    <3>2. /\ Len(b[r[p].j]) \in Nat /\ DOMAIN b[r[p].j] = 1 .. Len(b[r[p].j])
          /\ \A e \in DOMAIN b[r[p].j] : b[r[p].j][e] \in Cell
      BY <3>1
    <3> QED
      BY <3>2, <1>1 DEF IsPoint, Cell
  <2> QED
    BY <1>1, <1>2, <1>5, <2>1 DEF Segments
<1>9. List'
  BY <1>1, <1>4 DEF List, ListIsTouched, Clean, Working
<1>10. Sums'
  BY <1>1, <1>4 DEF Sums, Clean, ChunkMaxBounds
<1> QED
  BY <1>6, <1>7, <1>8, <1>9, <1>10 DEF IInv

\* A segment opens where the chunk begins in the row of B.
LEMMA OpensAtPoint ==
  ASSUME IInv, OpenSegment
  PROVE  IsPoint(BRow, cur', c0)
<1>1. pc = "row" /\ jj \in 1 .. Len(a)
  <2>1. Len(a) \in Nat
    BY RowOfA DEF IInv, TypeOK
  <2> QED
    BY <2>1 DEF OpenSegment, IInv, TypeOK
<1>2. BRow \in Seq(Cell) /\ Canonical(BRow) /\ DOMAIN a = 1 .. Len(a) /\ c0 \in Int
  BY <1>1, RowOfA, RowOfB, KernelAssumption DEF IInv, TypeOK, BRow
<1>3. CASE projection = "Cursor"
  <2>1. DOMAIN cursors = DOMAIN a
    BY <1>1, <1>2, <1>3 DEF IInv, TypeOK, Position, Working
  <2>2. IsPoint(b[a[jj].j], cursors[jj], c0)
    BY <1>1, <1>2, <1>3, <2>1 DEF IInv, Segments, Working
  <2> QED
    BY <1>3, <2>2 DEF OpenSegment, BRow
<1>4. CASE projection # "Cursor"
  <2>1. IsPoint(BRow, PartitionPoint(BRow, c0), c0)
    BY <1>2, PartitionPointSplits
  <2> QED
    BY <1>4, <2>1 DEF OpenSegment
<1> QED
  BY <1>3, <1>4

LEMMA OpenSegmentStep ==
  ASSUME IInv, OpenSegment
  PROVE  IInv'
<1>1. /\ pc = "row" /\ pc' = "scatter" /\ jj \in 1 .. Len(a) /\ jj' = jj /\ a' = a /\ b' = b
      /\ dense' = dense /\ projection' = projection /\ c0' = c0 /\ cursors' = cursors
      /\ sums' = sums /\ next' = next /\ head' = head /\ length' = length
      /\ touched' = touched /\ chunk_max' = chunk_max /\ slot' = slot
      /\ heap' = heap /\ n_set' = n_set /\ min' = min /\ out' = out
  <2>1. Len(a) \in Nat
    BY RowOfA DEF IInv, TypeOK
  <2> QED
    BY <2>1 DEF OpenSegment, IInv, TypeOK, call, row, accumulator, selection
<1>2. /\ BRow \in Seq(Cell) /\ Canonical(BRow) /\ DOMAIN a = 1 .. Len(a)
      /\ c0 \in 0 .. NCols /\ NCols \in Nat
  BY <1>1, RowOfA, RowOfB, KernelAssumption DEF IInv, TypeOK, BRow
<1>3. IsPoint(BRow, cur', c0)
  BY OpensAtPoint
<1>4. /\ ChunkWidth' = ChunkWidth /\ ChunkEnd' = ChunkEnd /\ BRow' = BRow
      /\ ChunkEnd \in Int /\ c0 <= ChunkEnd
  BY <1>1, <1>2, ChunkFacts DEF ChunkWidth, ChunkEnd, BRow
<1>5. /\ Len(BRow) \in Nat /\ DOMAIN BRow = 1 .. Len(BRow)
      /\ \A e \in DOMAIN BRow : BRow[e].k \in Int
  <2>1. \A e \in DOMAIN BRow : BRow[e] \in Cell
    BY <1>2
  <2> QED
    BY <1>2, <2>1 DEF Cell
<1>6. TypeOK'
  BY <1>1, <1>3, <1>5 DEF IInv, TypeOK, IsPoint
<1>7. Position'
  BY <1>1, <1>2, <1>4 DEF IInv, Position, Working
<1>8. Segments'
  <2>1. Working' /\ projection' = "Cursor" => \A p \in DOMAIN cursors' :
          \/ pc' = "scatter" /\ p = jj'
          \/ IsPoint(b'[a'[p].j], cursors'[p], IF p < jj' THEN ChunkEnd' ELSE c0')
    BY <1>1, <1>4 DEF IInv, Segments, Working
  <2>2. /\ cur' <= Len(BRow) + 1
        /\ \A e \in DOMAIN BRow : IF e < cur' THEN BRow[e].k < ChunkEnd ELSE BRow[e].k >= c0
    BY <1>2, <1>3, <1>4, <1>5 DEF IsPoint
  <2> QED
    BY <1>1, <1>4, <2>1, <2>2 DEF Segments
<1>9. List'
  BY <1>1, <1>4 DEF IInv, List, ListIsTouched, Working
<1>10. Sums'
  BY <1>1, <1>4 DEF IInv, Sums, ChunkMaxBounds, Working
<1> QED
  BY <1>6, <1>7, <1>8, <1>9, <1>10 DEF IInv

\* Where the scatter stands: an entry of the segment falls in the chunk.
LEMMA SegmentFacts ==
  ASSUME IInv, pc = "scatter"
  PROVE  /\ BRow \in Seq(Cell) /\ Canonical(BRow) /\ Weight \in Value
         /\ Len(BRow) \in Nat /\ DOMAIN BRow = 1 .. Len(BRow)
         /\ \A e \in DOMAIN BRow : BRow[e].k \in 0 .. NCols - 1 /\ BRow[e].x \in Value
         /\ jj \in 1 .. Len(a) /\ Len(a) \in Nat /\ DOMAIN a = 1 .. Len(a)
         /\ cur \in 1 .. Len(BRow) + 1
         /\ c0 \in 0 .. NCols - 1 /\ ChunkWidth \in 1 .. ChunkCols
         /\ ChunkEnd = c0 + ChunkWidth /\ ChunkEnd \in 0 .. NCols
         /\ \A e \in DOMAIN BRow : IF e < cur THEN BRow[e].k < ChunkEnd ELSE BRow[e].k >= c0
         /\ \A e \in DOMAIN BRow : e >= cur /\ InSegment(BRow, e) =>
              Local(e) \in 0 .. ChunkWidth - 1 /\ Local(e) \in Locals
         /\ InSegment(BRow, cur) => cur \in DOMAIN BRow
<1>1. jj \in 1 .. Len(a) /\ Len(a) \in Nat /\ DOMAIN a = 1 .. Len(a) /\ jj \in DOMAIN a
  BY RowOfA DEF IInv, TypeOK, Position
<1>2. BRow \in Seq(Cell) /\ Canonical(BRow) /\ Weight \in Value
  BY <1>1, RowOfB DEF IInv, TypeOK, BRow, Weight
<1>3. /\ Len(BRow) \in Nat /\ DOMAIN BRow = 1 .. Len(BRow)
      /\ \A e \in DOMAIN BRow : BRow[e] \in Cell
  BY <1>2
<1>4. \A e \in DOMAIN BRow : BRow[e].k \in 0 .. NCols - 1 /\ BRow[e].x \in Value
  BY <1>3 DEF Cell
<1>5. c0 \in 0 .. NCols - 1
  BY KernelAssumption DEF IInv, TypeOK, Position, Working
<1>6. /\ ChunkWidth \in 1 .. ChunkCols /\ ChunkCols \in Nat
      /\ ChunkEnd = c0 + ChunkWidth /\ ChunkEnd \in 0 .. NCols
  BY <1>5, ChunkFacts, KernelAssumption DEF IInv, TypeOK
<1>7. /\ cur \in 1 .. Len(BRow) + 1
      /\ \A e \in DOMAIN BRow : IF e < cur THEN BRow[e].k < ChunkEnd ELSE BRow[e].k >= c0
  BY <1>3 DEF IInv, TypeOK, Segments
<1>8. \A e \in DOMAIN BRow : e >= cur /\ InSegment(BRow, e) =>
        Local(e) \in 0 .. ChunkWidth - 1 /\ Local(e) \in Locals
  BY <1>3, <1>4, <1>5, <1>6, <1>7, KernelAssumption DEF InSegment, Local, Locals
<1>9. InSegment(BRow, cur) => cur \in DOMAIN BRow
  BY <1>3, <1>7 DEF InSegment
<1> QED
  BY <1>1, <1>2, <1>3, <1>4, <1>5, <1>6, <1>7, <1>8, <1>9

\* Scattering a product of column k keeps the list of touched columns.
LEMMA ScatterLinkedStep ==
  ASSUME IInv, ScatterLinked
  PROVE  IInv'
<1> DEFINE k == Local(cur)
<1>1. /\ pc = "scatter" /\ pc' = "scatter" /\ jj' = jj /\ a' = a /\ b' = b /\ ~ dense
      /\ dense' = dense /\ projection' = projection /\ c0' = c0 /\ cursors' = cursors
      /\ chunk_max' = chunk_max /\ slot' = slot /\ cur' = cur + 1
      /\ heap' = heap /\ n_set' = n_set /\ min' = min /\ out' = out
      /\ sums' = [sums EXCEPT ![k] = FMAdd(Weight, BRow[cur].x, @)]
      /\ InSegment(BRow, cur)
  BY DEF ScatterLinked, call, row, selection
<1>2. /\ cur \in DOMAIN BRow /\ k \in 0 .. ChunkWidth - 1 /\ k \in Locals
      /\ BRow \in Seq(Cell) /\ Len(BRow) \in Nat /\ DOMAIN BRow = 1 .. Len(BRow)
      /\ Weight \in Value /\ BRow[cur].x \in Value
      /\ ChunkWidth \in 1 .. ChunkCols /\ c0 \in 0 .. NCols - 1
      /\ cur \in 1 .. Len(BRow)
  BY <1>1, SegmentFacts
<1>3. /\ ChunkWidth' = ChunkWidth /\ ChunkEnd' = ChunkEnd /\ BRow' = BRow
  BY <1>1 DEF ChunkWidth, ChunkEnd, BRow
<1>4. BRow[cur].k < ChunkEnd
  BY <1>1 DEF InSegment
<1>5. /\ sums \in [Locals -> Value] /\ next \in [Locals -> Locals \cup {UNVISITED, HEAD_NIL}]
      /\ head \in Locals \cup {HEAD_NIL} /\ touched \in Seq(Locals)
      /\ length = Len(touched) /\ length \in Nat
      /\ \A p \in 1 .. length : touched[p] \in Locals
  BY <1>1 DEF IInv, TypeOK, List
<1> HIDE DEF k
<1>6. /\ sums' \in [Locals -> Value]
      /\ \A q \in Locals \ {k} : sums'[q] = sums[q]
  <2>1. FMAdd(Weight, BRow[cur].x, sums[k]) \in Value
    BY <1>2, <1>5, FMAddType
  <2> QED
    BY <1>1, <1>2, <1>5, <2>1
<1>7. /\ head = IF length = 0 THEN HEAD_NIL ELSE touched[length]
      /\ \A p \in 1 .. length :
           next[touched[p]] = IF p = 1 THEN HEAD_NIL ELSE touched[p - 1]
      /\ \A q \in Locals :
           IF \E p \in 1 .. length : touched[p] = q
           THEN next[q] # UNVISITED
           ELSE next[q] = UNVISITED /\ sums[q] = 0
      /\ \A p \in 1 .. length : touched[p] < ChunkWidth
      /\ \A p, q \in 1 .. length : touched[p] = touched[q] => p = q
  BY <1>1 DEF IInv, List, ListIsTouched
<1>8. UNVISITED \notin Locals \cup {HEAD_NIL}
  BY KernelAssumption DEF UNVISITED, HEAD_NIL, Locals
<1>9. /\ next' \in [Locals -> Locals \cup {UNVISITED, HEAD_NIL}]
      /\ head' \in Locals \cup {HEAD_NIL} /\ touched' \in Seq(Locals)
      /\ length' = Len(touched') /\ length' \in Nat
      /\ head' = IF length' = 0 THEN HEAD_NIL ELSE touched'[length']
      /\ \A p \in 1 .. length' :
           next'[touched'[p]] = IF p = 1 THEN HEAD_NIL ELSE touched'[p - 1]
      /\ \A q \in Locals :
           IF \E p \in 1 .. length' : touched'[p] = q
           THEN next'[q] # UNVISITED
           ELSE next'[q] = UNVISITED /\ sums'[q] = 0
      /\ \A p \in 1 .. length' : touched'[p] < ChunkWidth
      /\ \A p, q \in 1 .. length' : touched'[p] = touched'[q] => p = q
  <2>1. CASE next[k] = UNVISITED
    <3>1. /\ next' = [next EXCEPT ![k] = head] /\ head' = k /\ length' = length + 1
          /\ touched' = Append(touched, k)
      BY <2>1 DEF ScatterLinked, k
    <3>2. /\ touched' \in Seq(Locals) /\ Len(touched') = length'
          /\ \A p \in 1 .. length : touched'[p] = touched[p]
          /\ touched'[length'] = k
      BY <1>2, <1>5, <3>1
    <3>3. /\ next' \in [Locals -> Locals \cup {UNVISITED, HEAD_NIL}]
          /\ next'[k] = head /\ \A q \in Locals \ {k} : next'[q] = next[q]
      BY <1>2, <1>5, <3>1
    <3>4. \A p \in 1 .. length : touched[p] # k
      BY <2>1, <1>2, <1>7
    <3>5. \A p \in 1 .. length' : p = length' \/ p \in 1 .. length
      BY <3>1, <1>5
    <3>6. \A p \in 1 .. length' :
           next'[touched'[p]] = IF p = 1 THEN HEAD_NIL ELSE touched'[p - 1]
      <4>1. ASSUME NEW p \in 1 .. length
            PROVE  next'[touched'[p]] = IF p = 1 THEN HEAD_NIL ELSE touched'[p - 1]
        <5>1. touched'[p] = touched[p] /\ touched[p] \in Locals \ {k}
          BY <1>5, <3>2, <3>4
        <5>2. p # 1 => touched'[p - 1] = touched[p - 1]
          BY <1>5, <3>2
        <5> QED
          BY <1>7, <3>3, <5>1, <5>2
      <4>2. next'[touched'[length']] = IF length' = 1 THEN HEAD_NIL ELSE touched'[length' - 1]
        BY <1>5, <1>7, <3>1, <3>2, <3>3
      <4> QED
        BY <3>5, <4>1, <4>2
    <3>7. ASSUME NEW q \in Locals
          PROVE  IF \E p \in 1 .. length' : touched'[p] = q
                 THEN next'[q] # UNVISITED
                 ELSE next'[q] = UNVISITED /\ sums'[q] = 0
      <4>1. CASE q = k
        <5>1. \E p \in 1 .. length' : touched'[p] = q
          BY <4>1, <3>1, <3>2, <1>5
        <5>2. next'[q] # UNVISITED
          BY <4>1, <3>3, <1>5, <1>8
        <5> QED
          BY <5>1, <5>2
      <4>2. CASE q # k
        <5>1. (\E p \in 1 .. length' : touched'[p] = q) <=> (\E p \in 1 .. length : touched[p] = q)
          BY <4>2, <3>1, <3>2, <3>5, <1>5
        <5>2. next'[q] = next[q] /\ sums'[q] = sums[q]
          BY <4>2, <3>3, <1>6
        <5> QED
          BY <1>7, <5>1, <5>2
      <4> QED
        BY <4>1, <4>2
    <3>8. \A p \in 1 .. length' : touched'[p] < ChunkWidth
      BY <1>2, <1>7, <3>2, <3>5
    <3>9. \A p, q \in 1 .. length' : touched'[p] = touched'[q] => p = q
      BY <1>7, <3>2, <3>4, <3>5
    <3>10. head' = touched'[length'] /\ length' # 0 /\ length' \in Nat
      BY <1>5, <3>1, <3>2
    <3> QED
      BY <1>2, <3>1, <3>2, <3>3, <3>6, <3>7, <3>8, <3>9, <3>10
  <2>2. CASE next[k] # UNVISITED
    <3>1. next' = next /\ head' = head /\ length' = length /\ touched' = touched
      BY <2>2 DEF ScatterLinked, k
    <3>2. ASSUME NEW q \in Locals
          PROVE  IF \E p \in 1 .. length : touched[p] = q
                 THEN next[q] # UNVISITED
                 ELSE next[q] = UNVISITED /\ sums'[q] = 0
      BY <1>6, <1>7, <2>2
    <3> QED
      BY <1>5, <1>7, <3>1, <3>2
  <2> QED
    BY <2>1, <2>2
<1>10. TypeOK'
  <2>1. length' \in 0 .. Len(touched') /\ cur' \in Nat \ {0}
    BY <1>1, <1>2, <1>9
  <2> QED
    BY <1>1, <1>6, <1>9, <2>1 DEF IInv, TypeOK
<1>11. Position'
  BY <1>1, <1>3 DEF IInv, Position, Working
<1>12. Segments'
  <2>1. Working' /\ projection' = "Cursor" => \A p \in DOMAIN cursors' :
          \/ pc' = "scatter" /\ p = jj'
          \/ IsPoint(b'[a'[p].j], cursors'[p], IF p < jj' THEN ChunkEnd' ELSE c0')
    BY <1>1, <1>3 DEF IInv, Segments, Working
  <2>2. \A e \in DOMAIN BRow : IF e < cur + 1 THEN BRow[e].k < ChunkEnd ELSE BRow[e].k >= c0
    <3>1. \A e \in DOMAIN BRow : e < cur + 1 <=> e < cur \/ e = cur
      BY <1>2
    <3> QED
      BY <1>1, <1>4, <3>1, SegmentFacts
  <2> QED
    BY <1>1, <1>2, <1>3, <2>1, <2>2 DEF Segments
<1>13. List'
  BY <1>1, <1>3, <1>9 DEF List, ListIsTouched, Working
<1>14. Sums'
  <2>1. \A q \in Locals : q >= ChunkWidth => sums'[q] = 0
    <3>1. \A q \in Locals : q >= ChunkWidth => q # k
      BY <1>2, KernelAssumption DEF Locals
    <3> QED
      BY <1>1, <1>6, <3>1 DEF IInv, Sums, Working
  <2> QED
    BY <1>1, <1>3, <2>1 DEF Sums, Working, ChunkMaxBounds
<1> QED
  BY <1>10, <1>11, <1>12, <1>13, <1>14 DEF IInv

\* A round of the unrolled scatter stays in the segment, hence in the chunk.
LEMMA GroupFacts ==
  ASSUME IInv, pc = "scatter", InSegment(BRow, cur)
  PROVE  /\ Cardinality(Group) \in Nat \ {0}
         /\ Group = cur .. cur + Cardinality(Group) - 1
         /\ cur + Cardinality(Group) <= Len(BRow) + 1
         /\ \A p \in Group : /\ p \in DOMAIN BRow /\ BRow[p].k < ChunkEnd
                             /\ Local(p) \in 0 .. ChunkWidth - 1 /\ Local(p) \in Locals
<1> DEFINE n == IF InSegment(BRow, cur + Unroll - 1) THEN Unroll ELSE 1
<1>1. Unroll \in Nat \ {0} /\ n \in Nat \ {0} /\ cur \in Nat /\ cur \in 1 .. Len(BRow)
  BY KernelAssumption, SegmentFacts
<1>2. Group = cur .. cur + n - 1
  <2>1. CASE InSegment(BRow, cur + Unroll - 1)
    BY <1>1, <2>1 DEF Group
  <2>2. CASE ~ InSegment(BRow, cur + Unroll - 1)
    <3>1. Group = {cur} /\ n = 1
      BY <2>2 DEF Group
    <3>2. cur .. cur + n - 1 = {cur}
      BY <1>1, <3>1
    <3> QED
      BY <3>1, <3>2
  <2> QED
    BY <2>1, <2>2
<1>3. InSegment(BRow, cur + n - 1)
  BY <1>1
<1> HIDE DEF n
<1>4. Cardinality(Group) = n
  <2>1. cur \in Int /\ cur + n - 1 \in Int /\ cur <= cur + n - 1
    BY <1>1
  <2>2. Cardinality(cur .. cur + n - 1) = (cur + n - 1) - cur + 1
    BY <2>1, FS_Interval
  <2> QED
    BY <1>1, <1>2, <2>2
<1>5. cur + n <= Len(BRow) + 1
  BY <1>1, <1>3, SegmentFacts DEF InSegment
<1>6. ASSUME NEW p \in Group
      PROVE  /\ p \in DOMAIN BRow /\ BRow[p].k < ChunkEnd
             /\ Local(p) \in 0 .. ChunkWidth - 1 /\ Local(p) \in Locals
  <2>1. /\ p \in DOMAIN BRow /\ cur + n - 1 \in DOMAIN BRow /\ p >= cur
        /\ p = cur + n - 1 \/ p < cur + n - 1
    BY <1>1, <1>2, <1>5, SegmentFacts
  <2>2. BRow[cur + n - 1].k < ChunkEnd
    BY <1>3 DEF InSegment
  <2>3. BRow[p].k <= BRow[cur + n - 1].k
    BY <2>1, SegmentFacts DEF Canonical
  <2>4. BRow[p].k < ChunkEnd
    BY <2>1, <2>2, <2>3, SegmentFacts
  <2>5. InSegment(BRow, p)
    BY <2>1, <2>4, SegmentFacts DEF InSegment
  <2> QED
    BY <2>1, <2>4, <2>5, SegmentFacts
<1> QED
  BY <1>1, <1>2, <1>4, <1>5, <1>6

\* A dense round raises chunk_max over every number it writes.
LEMMA ScatterDenseStep ==
  ASSUME IInv, ScatterDense
  PROVE  IInv'
<1>1. /\ pc = "scatter" /\ pc' = "scatter" /\ jj' = jj /\ a' = a /\ b' = b /\ dense
      /\ dense' = dense /\ projection' = projection /\ c0' = c0 /\ cursors' = cursors
      /\ next' = next /\ head' = head /\ length' = length /\ touched' = touched
      /\ slot' = slot /\ cur' = cur + Cardinality(Group)
      /\ heap' = heap /\ n_set' = n_set /\ min' = min /\ out' = out
      /\ InSegment(BRow, cur)
  BY DEF ScatterDense, call, row, selection
<1>2. /\ Cardinality(Group) \in Nat \ {0}
      /\ Group = cur .. cur + Cardinality(Group) - 1
      /\ cur + Cardinality(Group) <= Len(BRow) + 1
      /\ \A p \in Group : /\ p \in DOMAIN BRow /\ BRow[p].k < ChunkEnd
                          /\ Local(p) \in 0 .. ChunkWidth - 1 /\ Local(p) \in Locals
  BY <1>1, GroupFacts
<1>3. /\ cur \in Nat \ {0} /\ Len(BRow) \in Nat /\ DOMAIN BRow = 1 .. Len(BRow)
      /\ ChunkWidth \in 1 .. ChunkCols
      /\ \A e \in DOMAIN BRow : IF e < cur THEN BRow[e].k < ChunkEnd ELSE BRow[e].k >= c0
  BY <1>1, SegmentFacts
<1>4. /\ ChunkWidth' = ChunkWidth /\ ChunkEnd' = ChunkEnd /\ BRow' = BRow
  BY <1>1 DEF ChunkWidth, ChunkEnd, BRow
<1>5. sums \in [Locals -> Value] /\ chunk_max \in Int /\ NaN \notin Int
  BY KernelAssumption DEF IInv, TypeOK
<1>6. /\ sums' \in [Locals -> Value]
      /\ \A q \in Locals : (~ \E p \in Group : Local(p) = q) => sums'[q] = sums[q]
  <2> DEFINE new(q) == IF \E p \in Group : Local(p) = q
       THEN FMAdd(Weight, BRow[CHOOSE p \in Group : Local(p) = q].x, sums[q])
       ELSE sums[q]
  <2>1. sums' = [q \in Locals |-> new(q)]
    BY DEF ScatterDense
  <2>2. ASSUME NEW q \in Locals PROVE new(q) \in Value
    <3>1. CASE \E p \in Group : Local(p) = q
      <4>1. (CHOOSE p \in Group : Local(p) = q) \in Group
        BY <3>1
      <4>2. BRow[CHOOSE p \in Group : Local(p) = q].x \in Value
        BY <1>1, <1>2, <4>1, SegmentFacts
      <4>3. Weight \in Value /\ sums[q] \in Value
        BY <1>1, <1>5, SegmentFacts
      <4>4. FMAdd(Weight, BRow[CHOOSE p \in Group : Local(p) = q].x, sums[q]) \in Value
        BY <4>2, <4>3, FMAddType
      <4> QED
        BY <3>1, <4>4
    <3>2. CASE ~ \E p \in Group : Local(p) = q
      BY <1>5, <3>2
    <3> QED
      BY <3>1, <3>2
  <2>3. ASSUME NEW q \in Locals, ~ \E p \in Group : Local(p) = q
        PROVE  new(q) = sums[q]
    BY <2>3
  <2> HIDE DEF new
  <2> QED
    BY <2>1, <2>2, <2>3
<1> DEFINE written == {sums'[Local(p)] : p \in Group} \ {NaN}
<1>7. written \subseteq Int
  BY <1>2, <1>6 DEF Value
<1>8. chunk_max' \in Raised(written)
  BY DEF ScatterDense
<1> HIDE DEF written
<1>9. chunk_max' \in Int /\ chunk_max' >= chunk_max /\ \A m \in written : m <= chunk_max'
  BY <1>5, <1>7, <1>8 DEF Raised, Largest
<1>10. TypeOK'
  <2>1. cur' \in Nat \ {0}
    BY <1>1, <1>2, <1>3
  <2> QED
    BY <1>1, <1>6, <1>9, <2>1 DEF IInv, TypeOK
<1>11. Position'
  BY <1>1, <1>4 DEF IInv, Position, Working
<1>12. Segments'
  <2>1. Working' /\ projection' = "Cursor" => \A p \in DOMAIN cursors' :
          \/ pc' = "scatter" /\ p = jj'
          \/ IsPoint(b'[a'[p].j], cursors'[p], IF p < jj' THEN ChunkEnd' ELSE c0')
    BY <1>1, <1>4 DEF IInv, Segments, Working
  <2>2. \A e \in DOMAIN BRow : IF e < cur' THEN BRow[e].k < ChunkEnd ELSE BRow[e].k >= c0
    <3>1. \A e \in DOMAIN BRow : e < cur' <=> e < cur \/ e \in Group
      BY <1>1, <1>2, <1>3
    <3> QED
      BY <1>2, <1>3, <3>1
  <2>3. cur' <= Len(BRow) + 1
    BY <1>1, <1>2
  <2> QED
    BY <1>1, <1>4, <2>1, <2>2, <2>3 DEF Segments
<1>13. List'
  BY <1>1, <1>4 DEF IInv, List, ListIsTouched, Working
<1>14. Sums'
  <2>1. \A q \in Locals : q >= ChunkWidth => sums'[q] = 0
    <3>1. \A q \in Locals : q >= ChunkWidth => ~ \E p \in Group : Local(p) = q
      BY <1>2, <1>3, KernelAssumption DEF Locals
    <3> QED
      BY <1>1, <1>6, <3>1 DEF IInv, Sums, Working
  <2>2. ASSUME NEW q \in Locals
        PROVE  sums'[q] \in {0, NaN} \/ sums'[q] <= chunk_max'
    <3>1. CASE \E p \in Group : Local(p) = q
      <4>1. sums'[q] \in written \cup {NaN}
        BY <3>1 DEF written
      <4> QED
        BY <1>9, <4>1
    <3>2. CASE ~ \E p \in Group : Local(p) = q
      <4>1. sums[q] \in {0, NaN} \/ sums[q] <= chunk_max
        BY <1>1 DEF IInv, Sums, ChunkMaxBounds
      <4>2. sums[q] \in Int \/ sums[q] = NaN
        BY <1>5 DEF Value
      <4> QED
        BY <1>5, <1>6, <1>9, <3>2, <4>1, <4>2
    <3> QED
      BY <3>1, <3>2
  <2> QED
    BY <1>1, <1>4, <2>1, <2>2 DEF Sums, Working, ChunkMaxBounds
<1> QED
  BY <1>10, <1>11, <1>12, <1>13, <1>14 DEF IInv

\* The closing segment's cursor is past the chunk.
LEMMA ClosesAtPoint ==
  ASSUME IInv, CloseSegment
  PROVE  IsPoint(BRow, cur, ChunkEnd)
<1>1. pc = "scatter" /\ ~ InSegment(BRow, cur)
  BY DEF CloseSegment
<1>2. /\ BRow \in Seq(Cell) /\ Canonical(BRow) /\ Len(BRow) \in Nat
      /\ DOMAIN BRow = 1 .. Len(BRow)
      /\ \A e \in DOMAIN BRow : BRow[e].k \in 0 .. NCols - 1
      /\ cur \in 1 .. Len(BRow) + 1 /\ ChunkEnd \in 0 .. NCols
      /\ \A e \in DOMAIN BRow : e < cur => BRow[e].k < ChunkEnd
  BY <1>1, SegmentFacts
<1>3. ASSUME NEW e \in DOMAIN BRow, e >= cur PROVE BRow[e].k >= ChunkEnd
  <2>1. cur \in DOMAIN BRow /\ BRow[cur].k >= ChunkEnd
    BY <1>1, <1>2, <1>3 DEF InSegment
  <2>2. BRow[cur].k <= BRow[e].k
    <3>1. cur = e \/ cur < e
      BY <1>2, <1>3
    <3> QED
      BY <1>2, <2>1, <3>1 DEF Canonical
  <2> QED
    BY <1>2, <2>1, <2>2
<1> QED
  BY <1>2, <1>3 DEF IsPoint

LEMMA CloseSegmentStep ==
  ASSUME IInv, CloseSegment
  PROVE  IInv'
<1>1. /\ pc = "scatter" /\ pc' = "row" /\ jj' = jj + 1 /\ a' = a /\ b' = b
      /\ dense' = dense /\ projection' = projection /\ c0' = c0 /\ cur' = cur
      /\ sums' = sums /\ next' = next /\ head' = head /\ length' = length
      /\ touched' = touched /\ chunk_max' = chunk_max /\ slot' = slot
      /\ heap' = heap /\ n_set' = n_set /\ min' = min /\ out' = out
      /\ ~ InSegment(BRow, cur)
  BY DEF CloseSegment, call, row, accumulator, selection
<1>2. /\ BRow \in Seq(Cell) /\ Canonical(BRow) /\ Len(BRow) \in Nat
      /\ DOMAIN BRow = 1 .. Len(BRow)
      /\ \A e \in DOMAIN BRow : BRow[e].k \in 0 .. NCols - 1
      /\ jj \in 1 .. Len(a) /\ Len(a) \in Nat /\ DOMAIN a = 1 .. Len(a)
      /\ cur \in 1 .. Len(BRow) + 1 /\ ChunkEnd \in 0 .. NCols
      /\ \A e \in DOMAIN BRow : IF e < cur THEN BRow[e].k < ChunkEnd ELSE BRow[e].k >= c0
  BY <1>1, SegmentFacts
<1>3. /\ ChunkWidth' = ChunkWidth /\ ChunkEnd' = ChunkEnd
  BY <1>1 DEF ChunkWidth, ChunkEnd
<1>4. IsPoint(BRow, cur, ChunkEnd)
  BY ClosesAtPoint
<1>5. /\ cursors' \in Seq(Nat \ {0}) /\ Len(cursors') = Len(cursors)
      /\ DOMAIN cursors' = DOMAIN cursors
      /\ projection = "Cursor" =>
           /\ jj \in DOMAIN cursors => cursors'[jj] = cur
           /\ \A p \in DOMAIN cursors \ {jj} : cursors'[p] = cursors[p]
  <2>1. cursors \in Seq(Nat \ {0}) /\ cur \in Nat \ {0}
    BY DEF IInv, TypeOK
  <2>2. CASE projection = "Cursor"
    <3>1. cursors' = [cursors EXCEPT ![jj] = cur]
      BY <2>2 DEF CloseSegment
    <3>2. /\ Len(cursors) \in Nat /\ cursors \in [1 .. Len(cursors) -> Nat \ {0}]
      BY <2>1
    <3>3. /\ cursors' \in [1 .. Len(cursors) -> Nat \ {0}]
          /\ jj \in DOMAIN cursors => cursors'[jj] = cur
          /\ \A p \in DOMAIN cursors \ {jj} : cursors'[p] = cursors[p]
      BY <2>1, <3>1, <3>2
    <3>4. cursors' \in Seq(Nat \ {0}) /\ Len(cursors') = Len(cursors)
      BY <3>2, <3>3
    <3> QED
      BY <3>2, <3>3, <3>4
  <2>3. CASE projection # "Cursor"
    BY <2>1, <2>3 DEF CloseSegment
  <2> QED
    BY <2>2, <2>3
<1>6. TypeOK'
  BY <1>1, <1>2, <1>5 DEF IInv, TypeOK
<1>7. Position'
  <2>1. jj' <= Len(a') + 1
    BY <1>1, <1>2
  <2>2. projection = "Cursor" => Len(cursors') = Len(a')
    BY <1>1, <1>5 DEF IInv, Position, Working
  <2> QED
    BY <1>1, <1>3, <2>1, <2>2 DEF IInv, Position, Working
<1>8. Segments'
  <2>1. ASSUME projection = "Cursor", NEW p \in DOMAIN cursors
        PROVE  IsPoint(b[a[p].j], cursors'[p], IF p < jj + 1 THEN ChunkEnd ELSE c0)
    <3>1. p \in Nat
      BY DEF IInv, TypeOK
    <3>2. CASE p = jj
      <4>1. cursors'[p] = cur /\ p < jj + 1
        BY <1>2, <1>5, <2>1, <3>2
      <4>2. IsPoint(b[a[jj].j], cur, ChunkEnd)
        BY <1>4 DEF BRow
      <4> QED
        BY <3>2, <4>1, <4>2
    <3>3. CASE p # jj
      <4>1. cursors'[p] = cursors[p] /\ (p < jj + 1 <=> p < jj)
        BY <1>2, <1>5, <2>1, <3>1, <3>3
      <4>2. IsPoint(b[a[p].j], cursors[p], IF p < jj THEN ChunkEnd ELSE c0)
        BY <1>1, <2>1, <3>3 DEF IInv, Segments, Working
      <4> QED
        BY <4>1, <4>2
    <3> QED
      BY <3>2, <3>3
  <2> QED
    BY <1>1, <1>3, <1>5, <2>1 DEF Segments
<1>9. List'
  BY <1>1, <1>3 DEF IInv, List, ListIsTouched, Working
<1>10. Sums'
  BY <1>1, <1>2, <1>3 DEF IInv, Sums, ChunkMaxBounds, Working
<1> QED
  BY <1>6, <1>7, <1>8, <1>9, <1>10 DEF IInv

\* Every entry of A has been scattered.
LEMMA StartDrainStep ==
  ASSUME IInv, StartDrain
  PROVE  IInv'
<1>1. /\ pc = "row" /\ pc' = "drain" /\ jj = Len(a) + 1 /\ jj' = jj /\ a' = a /\ b' = b
      /\ dense' = dense /\ projection' = projection /\ c0' = c0 /\ cur' = cur
      /\ cursors' = cursors /\ sums' = sums /\ next' = next /\ head' = head
      /\ length' = length /\ touched' = touched /\ chunk_max' = chunk_max /\ slot' = slot
      /\ heap' = heap /\ n_set' = n_set /\ min' = min /\ out' = out
  <2>1. Len(a) \in Nat
    BY RowOfA DEF IInv, TypeOK
  <2> QED
    BY <2>1 DEF StartDrain, IInv, TypeOK, Position, call, row, accumulator, selection
<1>2. /\ ChunkWidth' = ChunkWidth /\ ChunkEnd' = ChunkEnd
  BY <1>1 DEF ChunkWidth, ChunkEnd
<1>3. TypeOK'
  BY <1>1 DEF IInv, TypeOK
<1>4. Position'
  BY <1>1, <1>2 DEF IInv, Position, Working
<1>5. Segments'
  BY <1>1, <1>2 DEF IInv, Segments, Working
<1>6. List'
  BY <1>1, <1>2 DEF IInv, List, ListIsTouched, Working
<1>7. Sums'
  BY <1>1, <1>2 DEF IInv, Sums, ChunkMaxBounds, Working
<1> QED
  BY <1>3, <1>4, <1>5, <1>6, <1>7 DEF IInv

\* Unlinking the newest touched column leaves the list of the others.
LEMMA DrainLinkedStep ==
  ASSUME IInv, DrainLinked
  PROVE  IInv'
<1>1. /\ pc = "drain" /\ pc' = pc /\ ~ dense /\ length > 0 /\ jj' = jj /\ a' = a /\ b' = b
      /\ dense' = dense /\ projection' = projection /\ c0' = c0 /\ cur' = cur
      /\ cursors' = cursors /\ touched' = touched /\ chunk_max' = chunk_max
      /\ slot' = slot /\ out' = out
      /\ head' = next[head] /\ next' = [next EXCEPT ![head] = UNVISITED]
      /\ sums' = [sums EXCEPT ![head] = 0] /\ length' = length - 1
  BY DEF DrainLinked, call, row
<1>2. /\ ChunkWidth' = ChunkWidth /\ ChunkEnd' = ChunkEnd
  BY <1>1 DEF ChunkWidth, ChunkEnd
<1>3. /\ sums \in [Locals -> Value] /\ next \in [Locals -> Locals \cup {UNVISITED, HEAD_NIL}]
      /\ length \in Nat /\ length \in 1 .. Len(touched) /\ touched \in Seq(Locals)
      /\ \A p \in 1 .. length : touched[p] \in Locals
  BY <1>1 DEF IInv, TypeOK
<1>4. /\ head = touched[length] /\ head \in Locals /\ head < ChunkWidth
      /\ \A p \in 1 .. length :
           next[touched[p]] = IF p = 1 THEN HEAD_NIL ELSE touched[p - 1]
      /\ \A q \in Locals :
           IF \E p \in 1 .. length : touched[p] = q
           THEN next[q] # UNVISITED
           ELSE next[q] = UNVISITED /\ sums[q] = 0
      /\ \A p \in 1 .. length : touched[p] < ChunkWidth
      /\ \A p, q \in 1 .. length : touched[p] = touched[q] => p = q
  BY <1>1, <1>3 DEF IInv, List, ListIsTouched
<1>5. /\ sums' \in [Locals -> Value] /\ sums'[head] = 0
      /\ next' \in [Locals -> Locals \cup {UNVISITED, HEAD_NIL}] /\ next'[head] = UNVISITED
      /\ \A q \in Locals \ {head} : sums'[q] = sums[q] /\ next'[q] = next[q]
  <2>1. 0 \in Value
    BY DEF Value
  <2> QED
    BY <1>1, <1>3, <1>4, <2>1
<1>6. /\ c0 \in 0 .. NCols - 1 /\ NCols \in Nat
      /\ ChunkWidth \in 1 .. ChunkCols /\ c0 + ChunkWidth <= NCols
  <2>1. c0 \in 0 .. NCols - 1 /\ NCols \in Nat
    BY <1>1, KernelAssumption DEF IInv, TypeOK, Position, Working
  <2> QED
    BY <2>1, ChunkFacts
<1>7. heap' \subseteq Entry /\ IsFiniteSet(heap') /\ n_set' \in Nat /\ min' \in Int
  <2>1. c0 + head \in 0 .. NCols - 1
    BY <1>4, <1>6, KernelAssumption DEF Locals
  <2>2. sums[head] \in Value
    BY <1>3, <1>4
  <2>3. Offer(c0 + head, sums[head]) /\ IsFiniteSet(heap) /\ TypeOK
    BY DEF DrainLinked, IInv, Position
  <2> QED
    BY <2>1, <2>2, <2>3, OfferType
<1>8. head' = IF length' = 0 THEN HEAD_NIL ELSE touched'[length']
  BY <1>1, <1>3, <1>4
<1>9. length' \in 0 .. Len(touched') /\ head' \in Locals \cup {HEAD_NIL}
  BY <1>1, <1>3, <1>8
<1>10. \A p \in 1 .. length' : p \in 1 .. length /\ touched[p] \in Locals \ {head}
  BY <1>1, <1>3, <1>4
<1>11. TypeOK'
  BY <1>1, <1>5, <1>7, <1>9 DEF IInv, TypeOK
<1>12. Position'
  BY <1>1, <1>2, <1>7 DEF IInv, Position, Working
<1>13. Segments'
  BY <1>1, <1>2 DEF IInv, Segments, Working
<1>14. List'
  <2>1. \A p \in 1 .. length' :
          next'[touched'[p]] = IF p = 1 THEN HEAD_NIL ELSE touched'[p - 1]
    BY <1>1, <1>4, <1>5, <1>10
  <2>2. ASSUME NEW q \in Locals
        PROVE  IF \E p \in 1 .. length' : touched'[p] = q
               THEN next'[q] # UNVISITED
               ELSE next'[q] = UNVISITED /\ sums'[q] = 0
    <3>1. CASE q = head
      BY <1>1, <1>5, <1>10, <3>1
    <3>2. CASE q # head
      <4>1. (\E p \in 1 .. length' : touched'[p] = q) <=> (\E p \in 1 .. length : touched[p] = q)
        <5>1. \A p \in 1 .. length : p = length \/ p \in 1 .. length'
          BY <1>1, <1>3
        <5> QED
          BY <1>1, <1>4, <1>10, <3>2, <5>1
      <4>2. next'[q] = next[q] /\ sums'[q] = sums[q]
        BY <1>5, <3>2
      <4> QED
        BY <1>4, <4>1, <4>2
    <3> QED
      BY <3>1, <3>2
  <2>3. /\ \A p \in 1 .. length' : touched'[p] < ChunkWidth
        /\ \A p, q \in 1 .. length' : touched'[p] = touched'[q] => p = q
    BY <1>1, <1>4, <1>10
  <2> QED
    BY <1>1, <1>2, <1>8, <2>1, <2>2, <2>3 DEF List, ListIsTouched, Working
<1>15. Sums'
  <2>1. \A q \in Locals : q >= ChunkWidth => sums'[q] = 0
    BY <1>1, <1>5 DEF IInv, Sums, Working
  <2> QED
    BY <1>1, <1>2, <2>1 DEF Sums, Working, ChunkMaxBounds
<1> QED
  BY <1>11, <1>12, <1>13, <1>14, <1>15 DEF IInv

\* The whole groups of a chunk lie in the chunk.
LEMMA WholeGroups ==
  ASSUME NEW w \in Nat, NEW u \in Nat \ {0}
  PROVE  (w \div u) * u \in Int /\ (w \div u) * u <= w
OBVIOUS

\* A step of the dense scan stays in the chunk.
LEMMA ScanStep ==
  ASSUME IInv, Scanning, slot' \in Nat, slot' <= ChunkWidth,
         UNCHANGED <<call, row, pc, c0, jj, cur, cursors, accumulator, out>>,
         heap' \subseteq Entry, IsFiniteSet(heap'), n_set' \in Nat, min' \in Int
  PROVE  IInv'
<1>1. /\ pc = "drain" /\ pc' = pc /\ dense /\ jj' = jj /\ a' = a /\ b' = b
      /\ dense' = dense /\ projection' = projection /\ c0' = c0 /\ cur' = cur
      /\ cursors' = cursors /\ sums' = sums /\ next' = next /\ head' = head
      /\ length' = length /\ touched' = touched /\ chunk_max' = chunk_max /\ out' = out
  BY DEF Scanning, call, row, accumulator
<1>2. /\ ChunkWidth' = ChunkWidth /\ ChunkEnd' = ChunkEnd /\ slot' \in 0 .. ChunkCols
  <2>1. ChunkWidth \in 0 .. ChunkCols /\ ChunkCols \in Nat
    BY ChunkFacts, KernelAssumption DEF IInv, TypeOK
  <2> QED
    BY <1>1, <2>1 DEF ChunkWidth, ChunkEnd
<1>3. TypeOK'
  BY <1>1, <1>2 DEF IInv, TypeOK
<1>4. Position'
  BY <1>1, <1>2 DEF IInv, Position, Working
<1>5. Segments'
  BY <1>1, <1>2 DEF IInv, Segments, Working
<1>6. List'
  BY <1>1, <1>2 DEF IInv, List, ListIsTouched, Working
<1>7. Sums'
  BY <1>1, <1>2 DEF IInv, Sums, ChunkMaxBounds, Working
<1> QED
  BY <1>3, <1>4, <1>5, <1>6, <1>7 DEF IInv

LEMMA SkipGroupStep ==
  ASSUME IInv, SkipGroup
  PROVE  IInv'
<1>1. ChunkWidth \in Nat /\ Unroll \in Nat \ {0} /\ slot \in Nat
  BY ChunkFacts, KernelAssumption DEF IInv, TypeOK
<1>2. slot' = slot + Unroll /\ slot + Unroll <= (ChunkWidth \div Unroll) * Unroll
  BY DEF SkipGroup, AtGroup, Grouped
<1>3. slot' \in Nat /\ slot' <= ChunkWidth
  BY <1>1, <1>2, WholeGroups
<1>4. heap' \subseteq Entry /\ IsFiniteSet(heap') /\ n_set' \in Nat /\ min' \in Int
  BY DEF SkipGroup, selection, IInv, TypeOK, Position
<1>5. Scanning /\ UNCHANGED <<call, row, pc, c0, jj, cur, cursors, accumulator, out>>
  BY DEF SkipGroup
<1> QED
  BY <1>3, <1>4, <1>5, ScanStep

LEMMA DrainSlotStep ==
  ASSUME IInv, DrainSlot
  PROVE  IInv'
<1>1. /\ ChunkWidth \in 0 .. ChunkCols /\ ChunkCols \in Nat /\ slot \in Nat
      /\ c0 \in 0 .. NCols /\ NCols \in Nat /\ c0 + ChunkWidth <= NCols
  BY ChunkFacts, KernelAssumption DEF IInv, TypeOK
<1>2. slot' = slot + 1 /\ slot < ChunkWidth /\ Scanning
  BY DEF DrainSlot, Scanning
<1>3. slot' \in Nat /\ slot' <= ChunkWidth
  BY <1>1, <1>2
<1>4. heap' \subseteq Entry /\ IsFiniteSet(heap') /\ n_set' \in Nat /\ min' \in Int
  <2>1. c0 + slot \in 0 .. NCols - 1 /\ slot \in Locals
    BY <1>1, <1>2 DEF Locals
  <2>2. sums[slot] \in Value /\ IsFiniteSet(heap) /\ TypeOK
    BY <2>1 DEF IInv, TypeOK, Position
  <2>3. CASE sums[slot] # 0
    <3>1. Offer(c0 + slot, sums[slot])
      BY <2>3 DEF DrainSlot
    <3> QED
      BY <2>1, <2>2, <3>1, OfferType
  <2>4. CASE sums[slot] = 0
    BY <2>2, <2>4 DEF DrainSlot, selection, TypeOK
  <2> QED
    BY <2>3, <2>4
<1>5. UNCHANGED <<call, row, pc, c0, jj, cur, cursors, accumulator, out>>
  BY DEF DrainSlot
<1> QED
  BY <1>2, <1>3, <1>4, <1>5, ScanStep

\* The drained chunk is clean; the next one starts where it ended.
LEMMA EndChunkStep ==
  ASSUME IInv, EndChunk
  PROVE  IInv'
<1>1. /\ pc = "drain" /\ c0' = ChunkEnd /\ jj' = 1 /\ a' = a /\ b' = b
      /\ dense' = dense /\ projection' = projection /\ cur' = cur
      /\ cursors' = cursors /\ next' = next /\ head' = HEAD_NIL /\ length' = 0
      /\ touched' = <<>> /\ chunk_max' = MinValue /\ slot' = 0
      /\ heap' = heap /\ n_set' = n_set /\ min' = min /\ out' = out
      /\ pc' = IF ChunkEnd < NCols THEN "row" ELSE "emit"
      /\ sums' = Cleared
  BY DEF EndChunk, Drained, call, row, selection
<1>2. /\ ChunkWidth \in 0 .. ChunkCols /\ ChunkEnd \in 0 .. NCols /\ NCols \in Nat \ {0}
      /\ ChunkCols \in Nat
  BY ChunkFacts, KernelAssumption DEF IInv, TypeOK
<1>3. sums' \in [Locals -> Value] /\ \A q \in Locals : sums'[q] = 0 /\ next[q] = UNVISITED
  <2>1. 0 \in Value /\ sums \in [Locals -> Value]
    BY DEF Value, IInv, TypeOK
  <2>2. CASE dense
    <3>1. sums' = [q \in Locals |-> IF q < ChunkWidth THEN 0 ELSE sums[q]]
      BY <1>1, <2>2 DEF Cleared
    <3>2. \A q \in Locals : ~ (q < ChunkWidth) => sums[q] = 0
      BY <1>1, <1>2 DEF IInv, Sums, Working, Locals
    <3>3. \A q \in Locals : next[q] = UNVISITED
      BY <2>2 DEF IInv, List
    <3> QED
      BY <2>1, <3>1, <3>2, <3>3
  <2>3. CASE ~ dense
    <3>1. sums' = sums /\ length = 0
      BY <1>1, <2>3 DEF Cleared, EndChunk, Drained
    <3>2. \A q \in Locals : next[q] = UNVISITED /\ sums[q] = 0
      BY <2>3, <3>1 DEF IInv, List, ListIsTouched
    <3> QED
      BY <2>1, <3>1, <3>2
  <2> QED
    BY <2>2, <2>3
<1>4. TypeOK'
  BY <1>1, <1>2, <1>3, KernelAssumption DEF IInv, TypeOK
<1>5. Position'
  <2>1. ChunkWidth' >= 0
    BY <1>1, <1>2 DEF ChunkWidth
  <2>2. Working' => c0' < NCols /\ Working
    BY <1>1 DEF Working
  <2>3. Len(a) \in Nat
    BY RowOfA DEF IInv, TypeOK
  <2> QED
    BY <1>1, <2>1, <2>2, <2>3 DEF IInv, Position
<1>6. Segments'
  <2>1. ASSUME projection = "Cursor", NEW p \in DOMAIN cursors
        PROVE  IsPoint(b[a[p].j], cursors[p], ChunkEnd)
    <3>1. p < jj
      <4>1. Len(cursors) = Len(a) /\ jj = Len(a) + 1 /\ DOMAIN cursors = 1 .. Len(cursors)
        BY <1>1, <2>1 DEF IInv, TypeOK, Position, Working
      <4>2. Len(a) \in Nat
        BY RowOfA DEF IInv, TypeOK
      <4> QED
        BY <4>1, <4>2
    <3> QED
      BY <1>1, <2>1, <3>1 DEF IInv, Segments, Working
  <2>2. \A p \in DOMAIN cursors : ~ (p < 1)
    BY DEF IInv, TypeOK
  <2> QED
    BY <1>1, <2>1, <2>2 DEF Segments
<1>7. List'
  BY <1>1, <1>3 DEF List, ListIsTouched, Working
<1>8. Sums'
  BY <1>1, <1>3 DEF Sums, Clean, ChunkMaxBounds
<1> QED
  BY <1>4, <1>5, <1>6, <1>7, <1>8 DEF IInv

\* A listing of n elements of S.
LEMMA ListingIsSeq ==
  ASSUME NEW S, NEW n \in Nat, NEW f \in [1 .. n -> S]
  PROVE  f \in Seq(S)
OBVIOUS

\* The emitted row lists the columns of the heap; the scratch is not touched.
LEMMA EmitStep ==
  ASSUME IInv, EmitByColumn \/ EmitByValue
  PROVE  IInv'
<1>1. /\ pc = "emit" /\ pc' \in {"byColumn", "byValue"} /\ jj' = jj /\ a' = a /\ b' = b
      /\ dense' = dense /\ projection' = projection /\ c0' = c0 /\ cur' = cur
      /\ cursors' = cursors /\ sums' = sums /\ next' = next /\ head' = head
      /\ length' = length /\ touched' = touched /\ chunk_max' = chunk_max /\ slot' = slot
      /\ heap' = heap /\ n_set' = n_set /\ min' = min
  BY DEF EmitByColumn, EmitByValue, Emit, call, row, accumulator, selection
<1>2. ChunkWidth' = ChunkWidth /\ ChunkEnd' = ChunkEnd
  BY <1>1 DEF ChunkWidth, ChunkEnd
<1>3. out' \in Seq(0 .. NCols - 1)
  <2>1. PICK f \in [1 .. Cardinality(heap) -> heap] : out' = [p \in DOMAIN f |-> f[p].idx]
    BY DEF EmitByColumn, EmitByValue, Emit, Listings
  <2>2. Cardinality(heap) \in Nat
    BY FS_CardinalityType DEF IInv, Position
  <2>3. out' \in [1 .. Cardinality(heap) -> 0 .. NCols - 1]
    BY <2>1 DEF IInv, TypeOK, Entry
  <2> QED
    BY <2>2, <2>3, ListingIsSeq
<1>4. TypeOK'
  BY <1>1, <1>3 DEF IInv, TypeOK
<1>5. Position'
  BY <1>1, <1>2 DEF IInv, Position, Working
<1>6. Segments'
  BY <1>1 DEF Segments, Working
<1>7. List'
  BY <1>1, <1>2 DEF IInv, List, ListIsTouched, Working
<1>8. Sums'
  BY <1>1, <1>2 DEF IInv, Sums, Clean, ChunkMaxBounds, Working
<1> QED
  BY <1>4, <1>5, <1>6, <1>7, <1>8 DEF IInv

\* A step that changes nothing.
LEMMA StutterStep ==
  ASSUME IInv, UNCHANGED vars
  PROVE  IInv'
BY DEF IInv, TypeOK, Position, Segments, List, Sums, ListIsTouched, ChunkMaxBounds, Working,
       Clean, ChunkWidth, ChunkEnd, BRow, vars, call, row, accumulator, selection

-----------------------------------------------------------------------------

\* process_row: IInv holds in every state of the kernel, for every sequence of
\* rows and accumulator modes.
THEOREM KernelInvariant == Spec => []IInv
<1>1. ASSUME IInv, [Next]_vars PROVE IInv'
  <2>1. ASSUME NEW r \in ARows, NEW d \in BOOLEAN, StartRow(r, d) PROVE IInv'
    BY <1>1, <2>1, StartRowStep
  <2>2. CASE OpenSegment
    BY <1>1, <2>2, OpenSegmentStep
  <2>3. CASE ScatterLinked
    BY <1>1, <2>3, ScatterLinkedStep
  <2>4. CASE ScatterDense
    BY <1>1, <2>4, ScatterDenseStep
  <2>5. CASE CloseSegment
    BY <1>1, <2>5, CloseSegmentStep
  <2>6. CASE StartDrain
    BY <1>1, <2>6, StartDrainStep
  <2>7. CASE DrainLinked
    BY <1>1, <2>7, DrainLinkedStep
  <2>8. CASE SkipGroup
    BY <1>1, <2>8, SkipGroupStep
  <2>9. CASE DrainSlot
    BY <1>1, <2>9, DrainSlotStep
  <2>10. CASE EndChunk
    BY <1>1, <2>10, EndChunkStep
  <2>11. CASE EmitByColumn \/ EmitByValue
    BY <1>1, <2>11, EmitStep
  <2>12. CASE UNCHANGED vars
    BY <1>1, <2>12, StutterStep
  <2> QED
    BY <1>1, <2>1, <2>2, <2>3, <2>4, <2>5, <2>6, <2>7, <2>8, <2>9, <2>10, <2>11, <2>12
    DEF Next
<1> QED
  BY <1>1, InitInv, PTL DEF Spec

\* The variables keep their types: every pushed column is a column of B, every
\* selected score a number.
THEOREM TypeCorrect == Spec => []TypeOK
<1>1. IInv => TypeOK
  BY DEF IInv
<1> QED
  BY <1>1, KernelInvariant, PTL

\* Whenever a chunk is opened every sum is zero and every column unvisited:
\* neither drain leaves anything to the next chunk, row or accumulator.
THEOREM ScratchIsClean == Spec => []ScratchClean
<1>1. IInv => ScratchClean
  BY DEF IInv, Sums, Clean, ScratchClean, Working, TypeOK
<1> QED
  BY <1>1, KernelInvariant, PTL

\* The intrusive list is the touched columns still to be drained, newest
\* first, each once.
THEOREM ListIsExact == Spec => []ListIsTouched
<1>1. IInv => ListIsTouched
  BY DEF IInv, List
<1> QED
  BY <1>1, KernelInvariant, PTL

\* Skipping a dense chunk by its running maximum skips nothing to push.
THEOREM ChunkMaxIsBound == Spec => []ChunkMaxBounds
<1>1. IInv => ChunkMaxBounds
  BY DEF IInv, Sums
<1> QED
  BY <1>1, KernelInvariant, PTL

\* Every cursor stands at the partition point of what the chunks consumed, and
\* the scatter never meets an entry of an earlier chunk.
THEOREM CursorsAlwaysResume == Spec => []CursorsResume
<1>1. ASSUME IInv PROVE CursorsResume
  <2>1. ASSUME projection = "Cursor", pc = "row", NEW p \in DOMAIN cursors
        PROVE  cursors[p] = PartitionPoint(b[a[p].j], IF p < jj THEN ChunkEnd ELSE c0)
    <3>1. IsPoint(b[a[p].j], cursors[p], IF p < jj THEN ChunkEnd ELSE c0)
      BY <1>1, <2>1 DEF IInv, Segments, Working
    <3>2. p \in DOMAIN a
      BY <1>1, <2>1, RowOfA DEF IInv, TypeOK, Position, Working
    <3>3. b[a[p].j] \in Seq(Cell)
      BY <1>1, <3>2, RowOfB DEF IInv, TypeOK
    <3>4. (IF p < jj THEN ChunkEnd ELSE c0) \in Int
      BY <1>1, ChunkFacts DEF IInv, TypeOK
    <3> QED
      BY <3>1, <3>3, <3>4, PointIsUnique
  <2>2. ASSUME pc = "scatter", InSegment(BRow, cur)
        PROVE  BRow[cur].k >= c0
    <3>1. cur \in DOMAIN BRow /\ cur \in Int
      BY <1>1, <2>2, SegmentFacts
    <3> QED
      BY <1>1, <2>2, <3>1, SegmentFacts
  <2> QED
    BY <2>1, <2>2 DEF CursorsResume
<1> QED
  BY <1>1, KernelInvariant, PTL

-----------------------------------------------------------------------------
(* The dot product, entry by entry *)

\* The partial sums of column k of the product of u with m.
Partials(u, m, k) ==
  CHOOSE acc : acc = [p \in 0 .. Len(u) |->
    IF p = 0 THEN 0
    ELSE IF Has(m[u[p].j], k) THEN FMAdd(u[p].v, At(m[u[p].j], k), acc[p - 1])
    ELSE acc[p - 1]]

\* An entry of A is in a product with column k.
Seen(u, m, k, n) == \E p \in 1 .. n : Has(m[u[p].j], k)

LEMMA DotIsLastPartial ==
  ASSUME NEW u, NEW m, NEW k
  PROVE  DotProduct(u, m, k) = Partials(u, m, k)[Len(u)]
BY DEF DotProduct, Partials

\* In a canonical row an entry is the one At finds.
LEMMA AtEntry ==
  ASSUME NEW r \in Seq(Cell), Canonical(r), NEW e \in DOMAIN r
  PROVE  Has(r, r[e].k) /\ At(r, r[e].k) = r[e].x
<1>1. DOMAIN r = 1 .. Len(r) /\ Len(r) \in Nat /\ \A p \in DOMAIN r : r[p] \in Cell
  OBVIOUS
<1>2. \A p \in DOMAIN r : r[p].k \in Int
  BY <1>1, KernelAssumption DEF Cell
<1>3. \A p \in DOMAIN r : r[p].k = r[e].k => p = e
  BY <1>1, <1>2 DEF Canonical
<1>4. (CHOOSE p \in DOMAIN r : r[p].k = r[e].k) = e
  BY <1>3
<1> QED
  BY <1>4 DEF Has, At

LEMMA PartialsAre ==
  ASSUME b \in BMatrices, NEW u \in ARows \cup {<<>>}, NEW k \in Int
  PROVE  /\ Partials(u, b, k) \in [0 .. Len(u) -> Value]
         /\ Partials(u, b, k)[0] = 0
         /\ \A p \in 1 .. Len(u) :
              Partials(u, b, k)[p] =
                IF Has(b[u[p].j], k)
                THEN FMAdd(u[p].v, At(b[u[p].j], k), Partials(u, b, k)[p - 1])
                ELSE Partials(u, b, k)[p - 1]
<1> DEFINE Add(p, s) == IF Has(b[u[p].j], k) THEN FMAdd(u[p].v, At(b[u[p].j], k), s) ELSE s
           IsPartials(acc) == acc = [p \in 0 .. Len(u) |->
              IF p = 0 THEN 0
              ELSE IF Has(b[u[p].j], k) THEN FMAdd(u[p].v, At(b[u[p].j], k), acc[p - 1])
              ELSE acc[p - 1]]
           step == [p \in 1 .. Len(u) |-> [s \in Value |-> Add(p, s)]]
<1>1. Len(u) \in Nat /\ DOMAIN u = 1 .. Len(u) /\ 0 \in Value
  BY RowOfA DEF Value
<1>2. ASSUME NEW p \in 1 .. Len(u), NEW s \in Value PROVE Add(p, s) \in Value
  <2>1. b[u[p].j] \in Seq(Cell) /\ u[p].v \in Value
    BY <1>1, RowOfB
  <2>2. CASE Has(b[u[p].j], k)
    <3>1. PICK e \in DOMAIN b[u[p].j] : b[u[p].j][e].k = k
      BY <2>2 DEF Has
    <3>2. Canonical(b[u[p].j])
      BY <1>1, RowOfB
    <3>3. At(b[u[p].j], k) = b[u[p].j][e].x
      BY <2>1, <3>1, <3>2, AtEntry
    <3>4. b[u[p].j][e] \in Cell
      BY <2>1
    <3>5. At(b[u[p].j], k) \in Value
      BY <3>3, <3>4 DEF Cell
    <3> QED
      BY <2>1, <2>2, <3>5, FMAddType
  <2>3. CASE ~ Has(b[u[p].j], k)
    BY <2>3
  <2> QED
    BY <2>2, <2>3
<1>3. step \in [1 .. Len(u) -> [Value -> Value]]
  BY <1>2
<1>4. \A p \in 1 .. Len(u), s \in Value : step[p][s] = Add(p, s)
  OBVIOUS
<1> HIDE DEF step, Add
<1>5. PICK g \in [0 .. Len(u) -> Value] :
        g[0] = 0 /\ \A p \in 1 .. Len(u) : g[p] = step[p][g[p - 1]]
  <2>1. 0 \in Value /\ Len(u) \in Nat
    BY <1>1
  <2>2. \E g : IsRun(g, Value, 0, Len(u), step)
    BY <1>3, <2>1, RecursionExists
  <2> QED
    BY <2>2 DEF IsRun
<1>6. \A p \in 1 .. Len(u) : p - 1 \in 0 .. Len(u) /\ g[p - 1] \in Value
  BY <1>1, <1>5
<1>7. \A p \in 1 .. Len(u) : g[p] = Add(p, g[p - 1])
  BY <1>4, <1>5, <1>6
<1>8. IsPartials(g)
  <2>1. \A p \in 0 .. Len(u) : g[p] = IF p = 0 THEN 0 ELSE Add(p, g[p - 1])
    BY <1>1, <1>5, <1>7
  <2> QED
    BY <1>5, <2>1 DEF Add
<1> DEFINE acc == Partials(u, b, k)
<1>9. IsPartials(acc)
  BY <1>8 DEF Partials
<1> HIDE DEF acc
<1>10. acc[0] = 0 /\ \A p \in 1 .. Len(u) : acc[p] = Add(p, acc[p - 1])
  BY <1>1, <1>9 DEF Add
<1>11. acc = [p \in 0 .. Len(u) |-> acc[p]]
  BY <1>9
<1>12. \A p \in 0 .. Len(u) : acc[p] \in Value
  <2> DEFINE S == {p \in Nat : p <= Len(u) => acc[p] \in Value}
  <2>1. 0 \in S
    BY <1>1, <1>10
  <2>2. ASSUME NEW p \in Nat, p \in S PROVE p + 1 \in S
    <3> SUFFICES ASSUME p + 1 <= Len(u) PROVE acc[p + 1] \in Value
      OBVIOUS
    <3>1. p + 1 \in 1 .. Len(u) /\ (p + 1) - 1 = p /\ acc[p] \in Value
      BY <1>1, <2>2
    <3>2. acc[p + 1] = Add(p + 1, acc[p])
      BY <1>10, <3>1
    <3> QED
      BY <1>2, <3>1, <3>2
  <2> HIDE DEF S
  <2>3. \A p \in Nat : p \in S
    BY <2>1, <2>2, Induction
  <2> QED
    BY <1>1, <2>3 DEF S
<1>13. acc \in [0 .. Len(u) -> Value]
  BY <1>11, <1>12
<1> QED
  BY <1>10, <1>13 DEF acc, Add

-----------------------------------------------------------------------------
(* What a sum is while its chunk is scattered *)

\* How many entries of A have been multiplied into column q of the chunk.
Upto(q) ==
  IF pc = "scatter" /\ \E e \in DOMAIN BRow : e < cur /\ Local(e) = q THEN jj ELSE jj - 1

Column(q, n) ==
  /\ sums[q] = Partials(a, b, c0 + q)[n]
  /\ Seen(a, b, c0 + q, n) \/ sums[q] = 0

\* What column q of the chunk holds; a linked column that is being drained and
\* is off the list holds nothing any more.
Told(q) ==
  /\ pc # "drain" \/ dense \/ next[q] # UNVISITED => Column(q, Upto(q))
  /\ ~ dense /\ next[q] # UNVISITED => Seen(a, b, c0 + q, Upto(q))
  /\ ~ dense /\ pc # "drain" /\ Seen(a, b, c0 + q, Upto(q)) => next[q] # UNVISITED

Content ==
  /\ dense => IsFloat
  /\ Working => \A q \in Locals : q < ChunkWidth => Told(q)

\* Seen, one entry further.
LEMMA SeenNext ==
  ASSUME NEW u, NEW m, NEW k, NEW n \in Nat \ {0}
  PROVE  /\ Seen(u, m, k, n) <=> Seen(u, m, k, n - 1) \/ Has(m[u[n].j], k)
         /\ ~ Seen(u, m, k, 0)
<1>1. \A p : p \in 1 .. n <=> p \in 1 .. n - 1 \/ p = n
  OBVIOUS
<1>2. 1 .. 0 = {}
  OBVIOUS
<1> QED
  BY <1>1, <1>2 DEF Seen

\* The columns of a chunk that is being worked on.
LEMMA ColumnFacts ==
  ASSUME IInv, NEW q \in Locals
  PROVE  /\ b \in BMatrices /\ a \in ARows \cup {<<>>} /\ c0 \in Nat /\ q \in Nat
         /\ c0 + q \in Int /\ c0 + q \in Nat /\ Len(a) \in Nat
         /\ Partials(a, b, c0 + q) \in [0 .. Len(a) -> Value]
         /\ Partials(a, b, c0 + q)[0] = 0
         /\ \A p \in 1 .. Len(a) :
              Partials(a, b, c0 + q)[p] =
                IF Has(b[a[p].j], c0 + q)
                THEN FMAdd(a[p].v, At(b[a[p].j], c0 + q), Partials(a, b, c0 + q)[p - 1])
                ELSE Partials(a, b, c0 + q)[p - 1]
         /\ sums[q] \in Value
<1>1. b \in BMatrices /\ a \in ARows \cup {<<>>} /\ c0 \in Nat /\ sums[q] \in Value
  BY KernelAssumption DEF IInv, TypeOK
<1>2. q \in Nat /\ c0 + q \in Int /\ c0 + q \in Nat
  BY <1>1 DEF Locals
<1>3. Len(a) \in Nat
  BY <1>1, RowOfA
<1> QED
  BY <1>1, <1>2, <1>3, PartialsAre

\* A step that leaves column q alone.
LEMMA ToldStays ==
  ASSUME NEW q, Told(q), UNCHANGED <<a, b, c0, dense>>, pc # "drain" /\ pc' # "drain",
         sums'[q] = sums[q], next'[q] = next[q], Upto(q)' = Upto(q)
  PROVE  Told(q)'
BY DEF Told, Column

\* A chunk that is opened with clean scratch.
LEMMA ContentOpens ==
  ASSUME IInv, Clean, pc = "row", jj = 1, dense => IsFloat
  PROVE  Content
<1> SUFFICES ASSUME NEW q \in Locals
             PROVE  Column(q, Upto(q)) /\ ~ Seen(a, b, c0 + q, Upto(q)) /\ next[q] = UNVISITED
  BY DEF Content, Told
<1>1. Upto(q) = 0
  BY DEF Upto
<1>2. ~ Seen(a, b, c0 + q, 0)
  BY DEF Seen
<1>3. Partials(a, b, c0 + q)[0] = 0
  BY ColumnFacts
<1> QED
  BY <1>1, <1>2, <1>3 DEF Column, Clean

\* Before its segment is scattered, no column of the chunk has the entry.
LEMMA OpenSegmentContent ==
  ASSUME IInv, Content, OpenSegment
  PROVE  Content'
<1>1. /\ pc = "row" /\ pc' = "scatter" /\ jj' = jj /\ a' = a /\ b' = b /\ dense' = dense
      /\ c0' = c0 /\ sums' = sums /\ next' = next
  BY DEF OpenSegment, call, row, accumulator
<1>2. ChunkWidth' = ChunkWidth /\ BRow' = BRow
  BY <1>1 DEF ChunkWidth, BRow
<1>3. ASSUME NEW q \in Locals PROVE Upto(q)' = Upto(q)
  <2>1. Upto(q) = jj - 1
    BY <1>1 DEF Upto
  <2>2. ASSUME NEW e \in DOMAIN BRow, e < cur' PROVE BRow[e].k - c0 # q
    <3>1. BRow[e].k < c0
      BY <2>2, OpensAtPoint DEF IsPoint
    <3>2. jj \in 1 .. Len(a) /\ DOMAIN a = 1 .. Len(a)
      BY <1>1, RowOfA DEF OpenSegment, IInv, TypeOK
    <3>3. BRow \in Seq(Cell)
      BY <3>2, RowOfB DEF IInv, TypeOK, BRow
    <3>4. BRow[e] \in Cell
      BY <3>3
    <3>5. BRow[e].k \in Int /\ c0 \in Int /\ q \in Nat
      BY <3>4, ColumnFacts DEF Cell
    <3> QED
      BY <3>1, <3>5
  <2>3. Upto(q)' = jj - 1
    BY <1>1, <1>2, <2>2 DEF Upto, Local
  <2> QED
    BY <2>1, <2>3
<1> QED
  BY <1>1, <1>2, <1>3, ToldStays DEF Content, Working

\* A product is added to its column.
LEMMA ScatterLinkedContent ==
  ASSUME IInv, Content, ScatterLinked
  PROVE  Content'
<1>0. PICK k : k = Local(cur)
  OBVIOUS
<1>1. /\ pc = "scatter" /\ pc' = "scatter" /\ jj' = jj /\ a' = a /\ b' = b /\ ~ dense
      /\ dense' = dense /\ c0' = c0 /\ cur' = cur + 1
      /\ sums' = [sums EXCEPT ![k] = FMAdd(Weight, BRow[cur].x, @)]
      /\ InSegment(BRow, cur)
  BY <1>0 DEF ScatterLinked, call, row
<1>2. /\ cur \in DOMAIN BRow /\ k \in 0 .. ChunkWidth - 1 /\ k \in Locals
      /\ BRow \in Seq(Cell) /\ Canonical(BRow) /\ DOMAIN BRow = 1 .. Len(BRow)
      /\ cur \in 1 .. Len(BRow) /\ Len(BRow) \in Nat
      /\ \A e \in DOMAIN BRow : BRow[e].k \in Int
      /\ c0 \in Int /\ jj \in 1 .. Len(a) /\ Len(a) \in Nat
  BY <1>0, <1>1, SegmentFacts
<1>3. ChunkWidth' = ChunkWidth /\ BRow' = BRow /\ \A e : Local(e)' = Local(e)
  BY <1>1 DEF ChunkWidth, BRow, Local
<1>4. \A e \in DOMAIN BRow : e < cur' <=> e < cur \/ e = cur
  BY <1>1, <1>2
<1>5. c0 + k = BRow[cur].k
  <2>1. BRow[cur].k \in Int /\ c0 \in Int
    BY <1>2
  <2> QED
    BY <1>0, <2>1 DEF Local
<1>6. ASSUME NEW e \in DOMAIN BRow, e < cur PROVE Local(e) # k
  <2>1. BRow[e].k < BRow[cur].k /\ BRow[e].k \in Int
    BY <1>2, <1>6 DEF Canonical
  <2>2. BRow[cur].k \in Int /\ c0 \in Int
    BY <1>2
  <2> QED
    BY <1>0, <2>1, <2>2 DEF Local
<1>7. Upto(k) = jj - 1 /\ Upto(k)' = jj
  BY <1>0, <1>1, <1>2, <1>3, <1>4, <1>6 DEF Upto
<1>8. \A q \in Locals \ {k} : Upto(q)' = Upto(q)
  BY <1>0, <1>1, <1>3, <1>4 DEF Upto
<1>9. /\ sums'[k] = FMAdd(Weight, BRow[cur].x, sums[k])
      /\ \A q \in Locals \ {k} : sums'[q] = sums[q]
  BY <1>1, <1>2 DEF IInv, TypeOK
<1>10. next'[k] # UNVISITED /\ \A q \in Locals \ {k} : next'[q] = next[q]
  <2>1. head # UNVISITED
    BY KernelAssumption DEF IInv, TypeOK, UNVISITED, HEAD_NIL, Locals
  <2>2. next \in [Locals -> Locals \cup {UNVISITED, HEAD_NIL}]
    BY DEF IInv, TypeOK
  <2>3. \/ next[k] = UNVISITED /\ next' = [next EXCEPT ![k] = head]
        \/ next[k] # UNVISITED /\ next' = next
    BY <1>0 DEF ScatterLinked
  <2> QED
    BY <1>2, <2>1, <2>2, <2>3
<1>11. Has(BRow, c0 + k) /\ At(BRow, c0 + k) = BRow[cur].x
  BY <1>2, <1>5, AtEntry
<1>12. Told(k)'
  <2>1. Column(k, jj - 1)
    <3>1. k < ChunkWidth
      BY <1>1, <1>2, SegmentFacts
    <3>2. Told(k)
      BY <1>1, <1>2, <3>1 DEF Content, Working
    <3> QED
      BY <1>1, <1>7, <3>2 DEF Told
  <2>2. Partials(a, b, c0 + k)[jj]
          = FMAdd(Weight, BRow[cur].x, Partials(a, b, c0 + k)[jj - 1])
    BY <1>2, <1>11, ColumnFacts DEF BRow, Weight
  <2>3. Seen(a, b, c0 + k, jj)
    <3>1. jj \in 1 .. jj
      BY <1>2
    <3> QED
      BY <1>11, <3>1 DEF Seen, BRow
  <2>4. sums'[k] = Partials(a, b, c0 + k)[jj]
    BY <1>9, <2>1, <2>2 DEF Column
  <2> QED
    BY <1>1, <1>7, <1>10, <2>3, <2>4 DEF Told, Column
<1>13. ASSUME NEW q \in Locals \ {k}, q < ChunkWidth PROVE Told(q)'
  <2>1. Told(q)
    BY <1>1, <1>13 DEF Content, Working
  <2> QED
    BY <1>1, <1>8, <1>9, <1>10, <1>13, <2>1, ToldStays
<1> QED
  BY <1>1, <1>3, <1>12, <1>13 DEF Content, Working

\* Every product of a round is added to its column.
LEMMA ScatterDenseContent ==
  ASSUME IInv, Content, ScatterDense
  PROVE  Content'
<1>1. /\ pc = "scatter" /\ pc' = "scatter" /\ jj' = jj /\ a' = a /\ b' = b /\ dense
      /\ dense' = dense /\ c0' = c0 /\ cur' = cur + Cardinality(Group) /\ next' = next
      /\ InSegment(BRow, cur)
  BY DEF ScatterDense, call, row
<1>2. /\ BRow \in Seq(Cell) /\ Canonical(BRow) /\ DOMAIN BRow = 1 .. Len(BRow)
      /\ \A e \in DOMAIN BRow : BRow[e].k \in Int
      /\ cur \in 1 .. Len(BRow) + 1 /\ Len(BRow) \in Nat /\ c0 \in Int
      /\ jj \in 1 .. Len(a) /\ Len(a) \in Nat
  BY <1>1, SegmentFacts
<1>3. /\ Cardinality(Group) \in Nat \ {0}
      /\ Group = cur .. cur + Cardinality(Group) - 1
      /\ \A p \in Group : p \in DOMAIN BRow
  BY <1>1, GroupFacts
<1>4. ChunkWidth' = ChunkWidth /\ BRow' = BRow /\ \A e : Local(e)' = Local(e)
  BY <1>1 DEF ChunkWidth, BRow, Local
<1>5. \A e \in DOMAIN BRow : e < cur' <=> e < cur \/ e \in Group
  BY <1>1, <1>2, <1>3
<1>6. \A q \in Locals : sums'[q] = IF \E p \in Group : Local(p) = q
                                   THEN FMAdd(Weight, BRow[CHOOSE p \in Group : Local(p) = q].x, sums[q])
                                   ELSE sums[q]
  BY DEF ScatterDense
<1>7. ASSUME NEW q \in Locals, q < ChunkWidth, NEW e \in Group, Local(e) = q
      PROVE  Told(q)'
  <2>1. e \in DOMAIN BRow /\ BRow[e].k \in Int /\ q \in Int /\ c0 \in Int
    BY <1>2, <1>3, ColumnFacts
  <2>2. c0 + q = BRow[e].k
    BY <1>7, <2>1 DEF Local
  <2>3. Has(BRow, c0 + q) /\ At(BRow, c0 + q) = BRow[e].x
    BY <1>2, <2>1, <2>2, AtEntry
  <2>4. ASSUME NEW d \in DOMAIN BRow, Local(d) = q PROVE d = e
    <3>1. BRow[d].k \in Int
      BY <1>2
    <3>2. BRow[d].k = BRow[e].k
      BY <2>1, <2>2, <2>4, <3>1 DEF Local
    <3>3. ~ (d < e) /\ ~ (e < d)
      BY <1>2, <2>1, <3>1, <3>2 DEF Canonical
    <3> QED
      BY <1>2, <2>1, <3>3
  <2>5. (CHOOSE p \in Group : Local(p) = q) = e
    BY <1>3, <1>7, <2>4
  <2>6. sums'[q] = FMAdd(Weight, BRow[e].x, sums[q])
    BY <1>6, <1>7, <2>5
  <2>7. Upto(q) = jj - 1
    <3>1. ~ (e < cur)
      BY <1>2, <1>3
    <3> QED
      BY <2>4, <3>1 DEF Upto
  <2>8. Upto(q)' = jj
    BY <1>1, <1>4, <1>5, <1>7, <2>1 DEF Upto
  <2>9. sums[q] = Partials(a, b, c0 + q)[jj - 1]
    BY <1>1, <1>7, <2>7 DEF Content, Working, Told, Column
  <2>10. Partials(a, b, c0 + q)[jj]
           = FMAdd(Weight, BRow[e].x, Partials(a, b, c0 + q)[jj - 1])
    BY <1>2, <2>3, ColumnFacts DEF BRow, Weight
  <2>11. Seen(a, b, c0 + q, jj)
    <3>1. jj \in 1 .. jj
      BY <1>2
    <3> QED
      BY <2>3, <3>1 DEF Seen, BRow
  <2>12. sums'[q] = Partials(a, b, c0 + q)[jj]
    BY <2>6, <2>9, <2>10
  <2> QED
    BY <1>1, <2>8, <2>11, <2>12 DEF Told, Column
<1>8. ASSUME NEW q \in Locals, q < ChunkWidth, ~ \E e \in Group : Local(e) = q
      PROVE  Told(q)'
  <2>1. sums'[q] = sums[q]
    BY <1>6, <1>8
  <2>2. Upto(q)' = Upto(q)
    BY <1>1, <1>4, <1>5, <1>8 DEF Upto
  <2>3. Told(q)
    BY <1>1, <1>8 DEF Content, Working
  <2> QED
    BY <1>1, <2>1, <2>2, <2>3, ToldStays
<1> QED
  BY <1>1, <1>4, <1>7, <1>8 DEF Content, Working

\* When its segment is closed, every column of the chunk that has an entry in
\* the row of B has been given it.
LEMMA CloseSegmentContent ==
  ASSUME IInv, Content, CloseSegment
  PROVE  Content'
<1>1. /\ pc = "scatter" /\ pc' = "row" /\ jj' = jj + 1 /\ a' = a /\ b' = b
      /\ dense' = dense /\ c0' = c0 /\ sums' = sums /\ next' = next
  BY DEF CloseSegment, call, row, accumulator
<1>2. /\ BRow \in Seq(Cell) /\ DOMAIN BRow = 1 .. Len(BRow)
      /\ \A e \in DOMAIN BRow : BRow[e].k \in Int
      /\ c0 \in Int /\ ChunkWidth \in Int /\ ChunkEnd = c0 + ChunkWidth
      /\ jj \in 1 .. Len(a) /\ Len(a) \in Nat
  BY <1>1, SegmentFacts
<1>3. ChunkWidth' = ChunkWidth
  BY <1>1 DEF ChunkWidth
<1>4. ASSUME NEW q \in Locals, q < ChunkWidth PROVE Told(q)'
  <2>1. Told(q) /\ q \in Int /\ c0 + q \in Int
    BY <1>1, <1>4, ColumnFacts DEF Content, Working
  <2>2. Upto(q)' = jj
    BY <1>1, <1>2 DEF Upto
  <2>3. CASE \E e \in DOMAIN BRow : e < cur /\ Local(e) = q
    <3>1. Upto(q) = jj
      BY <1>1, <2>3 DEF Upto
    <3> QED
      BY <1>1, <2>1, <2>2, <3>1, ToldStays
  <2>4. CASE ~ \E e \in DOMAIN BRow : e < cur /\ Local(e) = q
    <3>1. Upto(q) = jj - 1
      BY <2>4 DEF Upto
    <3>2. ~ Has(BRow, c0 + q)
      <4> SUFFICES ASSUME NEW e \in DOMAIN BRow, BRow[e].k = c0 + q PROVE FALSE
        BY DEF Has
      <4>1. BRow[e].k \in Int
        BY <1>2
      <4>2. BRow[e].k < ChunkEnd
        BY <1>2, <1>4, <2>1, <4>1
      <4>3. e < cur
        BY <4>2, ClosesAtPoint DEF IsPoint
      <4>4. Local(e) = q
        BY <1>2, <2>1, <4>1 DEF Local
      <4> QED
        BY <2>4, <4>3, <4>4
    <3>3. Partials(a, b, c0 + q)[jj] = Partials(a, b, c0 + q)[jj - 1]
      BY <1>2, <3>2, ColumnFacts DEF BRow
    <3>4. Seen(a, b, c0 + q, jj) <=> Seen(a, b, c0 + q, jj - 1)
      <4>1. jj \in Nat \ {0}
        BY <1>2
      <4> QED
        BY <3>2, <4>1, SeenNext DEF BRow
    <3> QED
      BY <1>1, <2>1, <2>2, <3>1, <3>3, <3>4 DEF Told, Column
  <2> QED
    BY <2>3, <2>4
<1> QED
  BY <1>1, <1>3, <1>4 DEF Content, Working

\* The drains take a column off the list, or leave the chunk's sums alone.
LEMMA DrainContent ==
  ASSUME IInv, Content, StartDrain \/ DrainLinked \/ SkipGroup \/ DrainSlot
  PROVE  Content'
<1>1. /\ Working /\ pc' = "drain" /\ jj' = jj /\ a' = a /\ b' = b
      /\ dense' = dense /\ c0' = c0 /\ pc # "scatter"
  BY DEF StartDrain, DrainLinked, SkipGroup, DrainSlot, Scanning, call, row, Working
<1>2. ChunkWidth' = ChunkWidth /\ \A q \in Locals : Upto(q) = jj - 1 /\ Upto(q)' = jj - 1
  BY <1>1 DEF ChunkWidth, Upto
<1>3. \A q \in Locals : \/ sums'[q] = sums[q] /\ next'[q] = next[q]
                        \/ ~ dense /\ next'[q] = UNVISITED
  <2>1. CASE DrainLinked
    <3>1. next' = [next EXCEPT ![head] = UNVISITED] /\ sums' = [sums EXCEPT ![head] = 0] /\ ~ dense
      BY <2>1 DEF DrainLinked
    <3>2. DOMAIN next = Locals /\ DOMAIN sums = Locals
      BY DEF IInv, TypeOK
    <3> QED
      BY <3>1, <3>2
  <2>2. CASE StartDrain \/ SkipGroup \/ DrainSlot
    BY <2>2 DEF StartDrain, SkipGroup, DrainSlot, accumulator
  <2> QED
    BY <2>1, <2>2
<1>4. ASSUME NEW q \in Locals, q < ChunkWidth PROVE Told(q)'
  <2>1. Told(q)
    BY <1>1, <1>4 DEF Content
  <2>2. CASE sums'[q] = sums[q] /\ next'[q] = next[q]
    BY <1>1, <1>2, <2>1, <2>2 DEF Told, Column
  <2>3. CASE ~ dense /\ next'[q] = UNVISITED
    BY <1>1, <2>3 DEF Told
  <2> QED
    BY <1>3, <2>2, <2>3
<1> QED
  BY <1>1, <1>2, <1>4 DEF Content

LEMMA ContentInit == Init => Content
BY DEF Init, Content, Working

LEMMA ContentOpensNext == (IInv /\ Clean /\ pc = "row" /\ jj = 1 /\ (dense => IsFloat) => Content)'
BY ContentOpens, PTL

LEMMA ContentStep ==
  ASSUME IInv, IInv', Content, [Next]_vars
  PROVE  Content'
<1>1. ASSUME NEW r \in ARows, NEW d \in BOOLEAN, StartRow(r, d) PROVE Content'
  <2>1. pc' = "row" /\ jj' = 1 /\ (dense' => IsFloat)
    BY <1>1 DEF StartRow, MayBeDense
  <2>2. Clean'
    BY <2>1 DEF IInv, Sums
  <2> QED
    BY <2>1, <2>2, ContentOpensNext
<1>2. CASE EndChunk
  <2>1. pc' = (IF ChunkEnd < NCols THEN "row" ELSE "emit") /\ jj' = 1 /\ dense' = dense
    BY <1>2 DEF EndChunk, row
  <2>2. CASE pc' = "row"
    <3>1. Clean'
      BY <2>1, <2>2 DEF IInv, Sums
    <3> QED
      BY <2>1, <2>2, <3>1, ContentOpensNext DEF Content
  <2>3. CASE pc' # "row"
    BY <2>1, <2>3 DEF Content, Working
  <2> QED
    BY <2>2, <2>3
<1>3. CASE EmitByColumn \/ EmitByValue
  BY <1>3 DEF EmitByColumn, EmitByValue, Emit, Content, Working, row
<1>4. CASE UNCHANGED vars
  BY <1>4 DEF vars, call, row, accumulator, Content, Working, Told, Column, Upto, BRow, Local, ChunkWidth
<1> QED
  BY <1>1, <1>2, <1>3, <1>4, OpenSegmentContent, ScatterLinkedContent, ScatterDenseContent,
     CloseSegmentContent, DrainContent DEF Next

\* While a chunk is scattered every sum is the dot product of the entries of A
\* done so far; when it is drained, the whole one (process_row).
THEOREM SumsAreProducts == Spec => []Content
<1>1. IInv /\ IInv' /\ Content /\ [Next]_vars => Content'
  BY ContentStep
<1> QED
  BY <1>1, ContentInit, KernelInvariant, PTL DEF Spec

-----------------------------------------------------------------------------
(* What the heap holds *)

Columns == 0 .. NCols - 1

Selected ==
  /\ \A e \in heap : /\ e.val > Threshold /\ e.order < n_set
                     /\ Passed(e.idx) /\ IsResult(e.idx) /\ e.val = Dot(e.idx)
  /\ \A e, f \in heap : e.idx = f.idx \/ e.order = f.order => e = f
  /\ Cardinality(heap) <= Capacity /\ min \in Root(heap)
  /\ \A k \in Columns : Passed(k) /\ IsResult(k) /\ Dot(k) > min => \E e \in heap : e.idx = k

\* Within a row: what has been drained stays so, and what the heap takes up is
\* drained in this very step.
Advance ==
  /\ \A k \in Columns : Passed(k) => Passed(k)'
  /\ \A e \in heap' : e \in heap \/ ~ Passed(e.idx)

LEMMA DotFacts ==
  ASSUME IInv, NEW k \in Columns
  PROVE  /\ Dot(k) = Partials(a, b, k)[Len(a)] /\ Dot(k) \in Value
         /\ IsResult(k) <=> /\ Seen(a, b, k, Len(a)) /\ Dot(k) # NaN
                            /\ IsFloat /\ dense => Dot(k) # 0
         /\ IsResult(k) => Dot(k) \in Int
<1>1. b \in BMatrices /\ a \in ARows \cup {<<>>} /\ k \in Int
  BY KernelAssumption DEF IInv, TypeOK, Columns
<1>2. DOMAIN a = 1 .. Len(a) /\ Len(a) \in Nat
  BY <1>1, RowOfA
<1>3. Dot(k) = Partials(a, b, k)[Len(a)]
  BY DotIsLastPartial DEF Dot
<1>4. Partials(a, b, k) \in [0 .. Len(a) -> Value]
  BY <1>1, PartialsAre
<1>5. Dot(k) \in Value
  BY <1>2, <1>3, <1>4
<1>6. IsResult(k) <=> /\ Seen(a, b, k, Len(a)) /\ Dot(k) # NaN
                      /\ IsFloat /\ dense => Dot(k) # 0
  BY <1>2 DEF IsResult, Seen
<1>7. IsResult(k) => Dot(k) \in Int
  BY <1>5, <1>6 DEF Value
<1> QED
  BY <1>3, <1>5, <1>6, <1>7

\* A column of the chunk under way that is still to be drained holds its result.
LEMMA DrainedColumn ==
  ASSUME IInv, Content, pc = "drain", NEW q \in Locals, q < ChunkWidth,
         dense \/ next[q] # UNVISITED
  PROVE  /\ c0 + q \in Columns /\ sums[q] \in Value /\ sums[q] = Dot(c0 + q)
         /\ IsResult(c0 + q) <=> sums[q] # NaN /\ (dense => sums[q] # 0)
<1>1. jj - 1 = Len(a) /\ Upto(q) = jj - 1
  <2>1. jj = Len(a) + 1 /\ Len(a) \in Nat
    BY RowOfA DEF IInv, Position, TypeOK
  <2> QED
    BY <2>1 DEF Upto
<1>2. c0 + q \in Columns
  <2>1. c0 \in Nat /\ NCols \in Nat /\ q \in Nat /\ ChunkWidth \in Int /\ c0 + ChunkWidth <= NCols
    BY ChunkFacts, KernelAssumption DEF IInv, TypeOK, Locals
  <2> QED
    BY <2>1 DEF Columns
<1>3. /\ sums[q] = Partials(a, b, c0 + q)[Len(a)]
      /\ Seen(a, b, c0 + q, Len(a)) \/ (dense /\ sums[q] = 0)
      /\ dense => IsFloat
  BY <1>1 DEF Content, Working, Told, Column
<1> QED
  BY <1>2, <1>3, ColumnFacts, DotFacts

\* The running threshold.
LEMMA RootFacts ==
  ASSUME IInv, Selected
  PROVE  /\ min \in Int /\ Threshold \in Int /\ Capacity \in Nat \ {0} /\ min >= Threshold
         /\ Cardinality(heap) \in Nat
         /\ \A e \in heap : e.val \in Int /\ e.val >= min
         /\ Cardinality(heap) < Capacity => min = Threshold
         /\ Cardinality(heap) = Capacity => \A f \in Lowest(heap) : f.val = min
<1>1. /\ IsFiniteSet(heap) /\ heap \subseteq Entry /\ min \in Int
      /\ Threshold \in Int /\ Capacity \in Nat \ {0}
  BY KernelAssumption DEF IInv, Position, TypeOK
<1>2. Cardinality(heap) \in Nat
  BY <1>1, FS_CardinalityType
<1>3. \A e \in heap : e.val \in Int /\ e.val > Threshold
  BY <1>1 DEF Selected, Entry
<1>4. CASE Cardinality(heap) < Capacity
  <2>1. min = Threshold
    BY <1>4 DEF Selected, Root
  <2> QED
    BY <1>1, <1>2, <1>3, <1>4, <2>1
<1>5. CASE ~ (Cardinality(heap) < Capacity)
  <2>1. PICK e \in Lowest(heap) : min = e.val
    BY <1>5 DEF Selected, Root
  <2>2. e \in heap /\ \A f \in heap : e.val <= f.val
    BY <2>1 DEF Lowest
  <2>3. \A f \in Lowest(heap) : f \in heap /\ f.val <= e.val
    BY <2>2 DEF Lowest
  <2> QED
    BY <1>1, <1>2, <1>3, <1>5, <2>1, <2>2, <2>3
<1> QED
  BY <1>4, <1>5

\* Columns that do not beat the threshold are drained and dropped.
LEMMA DropKeeps ==
  ASSUME IInv, Selected, UNCHANGED <<a, b, dense, heap, n_set, min>>,
         \A k \in Columns : Passed(k) => Passed(k)',
         \A k \in Columns : Passed(k)' /\ ~ Passed(k) /\ IsResult(k) => ~ (Dot(k) > min)
  PROVE  Selected' /\ Advance
<1>1. \A k \in Columns : (IsResult(k)' <=> IsResult(k)) /\ Dot(k)' = Dot(k)
  BY DEF IsResult, Dot
<1>2. \A e \in heap : e.idx \in Columns
  BY DEF IInv, TypeOK, Entry, Columns
<1>3. \A e \in heap' : /\ e.val > Threshold /\ e.order < n_set'
                       /\ Passed(e.idx)' /\ IsResult(e.idx)' /\ e.val = Dot(e.idx)'
  BY <1>1, <1>2 DEF Selected
<1>4. \A k \in Columns : Passed(k)' /\ IsResult(k)' /\ Dot(k)' > min' => \E e \in heap' : e.idx = k
  BY <1>1 DEF Selected
<1> QED
  BY <1>3, <1>4 DEF Selected, Advance

\* A column that beats it is drained and pushed.
LEMMA PushKeeps ==
  ASSUME IInv, IInv', Selected, UNCHANGED <<a, b, dense>>,
         NEW k \in Columns, NEW v \in Int, v > min, PushPop(k, v),
         ~ Passed(k), IsResult(k), v = Dot(k),
         \A j \in Columns : Passed(j)' <=> Passed(j) \/ j = k
  PROVE  Selected' /\ Advance
<1> DEFINE new == [order |-> n_set, idx |-> k, val |-> v]
<1>1. \A j \in Columns : (IsResult(j)' <=> IsResult(j)) /\ Dot(j)' = Dot(j)
  BY DEF IsResult, Dot
<1>2. \A e \in heap : e.idx \in Columns /\ e.order \in Nat /\ e.idx # k /\ e.order < n_set
  BY DEF IInv, TypeOK, Entry, Columns, Selected
<1>3. /\ IsFiniteSet(heap) /\ IsFiniteSet(heap') /\ Cardinality(heap) <= Capacity
      /\ n_set \in Nat /\ n_set' = n_set + 1
  BY DEF IInv, Position, Selected, PushPop, TypeOK
<1>4. PICK evicted : /\ \/ Cardinality(heap) < Capacity /\ evicted = {}
                        \/ Cardinality(heap) = Capacity /\ \E f \in Lowest(heap) : evicted = {f}
                     /\ heap' = (heap \ evicted) \cup {new}
                     /\ min' \in Root(heap')
  <2>1. ~ (Cardinality(heap) < Capacity) => Cardinality(heap) = Capacity
    BY <1>3, RootFacts
  <2>2. PICK evicted \in IF Cardinality(heap) < Capacity THEN {{}} ELSE {{f} : f \in Lowest(heap)} :
          heap' = (heap \ evicted) \cup {new}
    BY DEF PushPop, Pushed
  <2>3. min' \in Root(heap')
    BY DEF PushPop
  <2>4. \/ Cardinality(heap) < Capacity /\ evicted = {}
        \/ Cardinality(heap) = Capacity /\ \E f \in Lowest(heap) : evicted = {f}
    BY <2>1, <2>2
  <2> QED
    BY <2>2, <2>3, <2>4
<1>5. new.order = n_set /\ new.idx = k /\ new.val = v /\ new \notin heap
  BY <1>2
<1> HIDE DEF new
<1>6. \A e \in heap' : e = new \/ e \in heap
  BY <1>4
<1>7. \A e \in heap' : e.val \in Int /\ e.val >= min
  BY <1>5, <1>6, RootFacts
<1>8. /\ Cardinality(heap) < Capacity => Cardinality(heap') = Cardinality(heap) + 1
      /\ Cardinality(heap) = Capacity => Cardinality(heap') = Capacity
  <2>1. CASE evicted = {}
    <3>1. heap' = heap \cup {new} /\ Cardinality(heap) < Capacity
      BY <1>4, <2>1
    <3>2. Cardinality(heap') = Cardinality(heap) + 1
      BY <1>3, <1>5, <3>1, FS_AddElement
    <3> QED
      BY <3>1, <3>2, RootFacts
  <2>2. CASE evicted # {}
    <3>1. PICK f \in heap : heap' = (heap \ {f}) \cup {new}
      BY <1>4, <2>2 DEF Lowest
    <3>2. IsFiniteSet(heap \ {f}) /\ Cardinality(heap \ {f}) = Cardinality(heap) - 1
      BY <1>3, <3>1, FS_RemoveElement
    <3>3. Cardinality(heap') = (Cardinality(heap) - 1) + 1
      BY <1>5, <3>1, <3>2, FS_AddElement
    <3>4. Cardinality(heap) = Capacity
      BY <1>4, <2>2
    <3> QED
      BY <3>3, <3>4, RootFacts
  <2> QED
    BY <2>1, <2>2
<1>9. Cardinality(heap') <= Capacity
  BY <1>3, <1>8, RootFacts
<1>10. min' >= min /\ min' \in Int
  <2>1. CASE Cardinality(heap') < Capacity
    <3>1. min' = Threshold
      BY <1>4, <2>1 DEF Root
    <3>2. Cardinality(heap) < Capacity
      BY <1>3, <1>8, <2>1, RootFacts
    <3> QED
      BY <3>1, <3>2, RootFacts
  <2>2. CASE ~ (Cardinality(heap') < Capacity)
    <3>1. PICK e \in heap' : min' = e.val
      BY <1>4, <2>2 DEF Root, Lowest
    <3> QED
      BY <1>7, <3>1
  <2> QED
    BY <2>1, <2>2
<1>11. ASSUME NEW e \in heap'
       PROVE  /\ e.val > Threshold /\ e.order < n_set'
              /\ Passed(e.idx)' /\ IsResult(e.idx)' /\ e.val = Dot(e.idx)'
  <2>1. CASE e = new
    BY <1>1, <1>3, <1>5, <2>1, RootFacts
  <2>2. CASE e # new
    <3>1. e \in heap
      BY <1>6, <2>2
    <3>2. /\ e.val > Threshold /\ e.order < n_set /\ e.idx \in Columns /\ e.order \in Nat
          /\ Passed(e.idx) /\ IsResult(e.idx) /\ e.val = Dot(e.idx)
      BY <1>2, <3>1 DEF Selected
    <3>3. e.order < n_set'
      BY <1>3, <3>2
    <3> QED
      BY <1>1, <3>2, <3>3
  <2> QED
    BY <2>1, <2>2
<1>12. \A e, f \in heap' : e.idx = f.idx \/ e.order = f.order => e = f
  <2>1. \A e, f \in heap : e.idx = f.idx \/ e.order = f.order => e = f
    BY DEF Selected
  <2>2. \A e \in heap : e.idx # new.idx /\ e.order # new.order
    BY <1>2, <1>3, <1>5
  <2> QED
    BY <1>6, <2>1, <2>2
<1>13. ASSUME NEW j \in Columns, Passed(j)', IsResult(j)', Dot(j)' > min'
       PROVE  \E e \in heap' : e.idx = j
  <2>1. CASE j = k
    BY <1>4, <1>5, <2>1
  <2>2. CASE j # k
    <3>1. Passed(j) /\ IsResult(j) /\ Dot(j) > min' /\ Dot(j) \in Int
      BY <1>1, <1>13, <2>2, DotFacts
    <3>2. Dot(j) > min
      BY <1>10, <3>1, RootFacts
    <3>3. PICK e \in heap : e.idx = j
      BY <3>1, <3>2 DEF Selected
    <3>4. e.val > min
      BY <3>2, <3>3 DEF Selected
    <3>5. e \notin evicted
      BY <1>4, <3>4, RootFacts
    <3> QED
      BY <1>4, <3>3, <3>5
  <2> QED
    BY <2>1, <2>2
<1>14. Advance
  BY <1>5, <1>6 DEF Advance
<1> QED
  BY <1>4, <1>9, <1>11, <1>12, <1>13, <1>14 DEF Selected

\* Before a chunk is drained the columns before it are, and no other.
LEMMA PassedBefore ==
  ASSUME pc # "drain"
  PROVE  \A k : Passed(k) <=> k < c0
BY DEF Passed

LEMMA StartRowSelected ==
  ASSUME NEW r \in ARows, NEW d \in BOOLEAN, StartRow(r, d)
  PROVE  Selected'
<1>1. heap' = {} /\ min' = Threshold /\ pc' = "row" /\ c0' = 0
  BY DEF StartRow
<1>2. Cardinality(heap') = 0 /\ Capacity \in Nat \ {0}
  BY <1>1, FS_EmptySet, KernelAssumption
<1>3. \A k \in Columns : ~ Passed(k)'
  BY <1>1, KernelAssumption DEF Passed, Columns
<1> QED
  BY <1>1, <1>2, <1>3 DEF Selected, Root

\* When the drain begins, the columns of the chunk that were not touched are
\* as good as drained: they have no result.
LEMMA StartDrainSelected ==
  ASSUME IInv, Content, Selected, StartDrain
  PROVE  Selected' /\ Advance
<1>1. /\ pc = "row" /\ pc' = "drain" /\ jj' = jj /\ a' = a /\ b' = b /\ dense' = dense
      /\ c0' = c0 /\ next' = next /\ slot' = slot
      /\ heap' = heap /\ n_set' = n_set /\ min' = min /\ jj > Len(a)
  BY DEF StartDrain, call, row, accumulator, selection
<1>2. ChunkEnd' = ChunkEnd /\ slot = 0 /\ c0 \in Nat /\ NCols \in Nat
  BY <1>1, KernelAssumption DEF ChunkEnd, ChunkWidth, IInv, Position, TypeOK
<1>3. \A k \in Columns : Passed(k) => Passed(k)'
  BY <1>1 DEF Passed
<1>4. ASSUME NEW k \in Columns, Passed(k)', ~ Passed(k), IsResult(k) PROVE FALSE
  <2>1. ~ (k < c0) /\ k \in Nat
    BY <1>1, <1>4, PassedBefore DEF Columns
  <2>2. k < ChunkEnd /\ (IF dense THEN k - c0 < 0 ELSE next[k - c0] = UNVISITED)
    BY <1>1, <1>2, <1>4, <2>1 DEF Passed
  <2>3. ~ dense /\ next[k - c0] = UNVISITED
    BY <1>2, <2>1, <2>2
  <2> DEFINE q == k - c0
  <2>4. q \in Locals /\ q < ChunkWidth /\ c0 + q = k
    <3>1. ChunkWidth \in 0 .. ChunkCols /\ ChunkEnd = c0 + ChunkWidth /\ ChunkCols \in Nat
      BY ChunkFacts, KernelAssumption DEF IInv, TypeOK
    <3> QED
      BY <1>2, <2>1, <2>2, <3>1 DEF Locals
  <2>5. Upto(q) = Len(a)
    <3>1. jj = Len(a) + 1 /\ Len(a) \in Nat
      BY <1>1, RowOfA DEF IInv, Position, TypeOK
    <3> QED
      BY <1>1, <3>1 DEF Upto
  <2>6. Seen(a, b, k, Len(a))
    BY <1>4, DotFacts
  <2> HIDE DEF q
  <2>7. next[q] # UNVISITED
    BY <1>1, <2>3, <2>4, <2>5, <2>6 DEF Content, Working, Told
  <2> QED
    BY <2>3, <2>7 DEF q
<1> QED
  BY <1>1, <1>3, <1>4, DropKeeps

\* drain_linked_chunk offers the column at the head of the list.
LEMMA DrainLinkedSelected ==
  ASSUME IInv, IInv', Content, Selected, DrainLinked
  PROVE  Selected' /\ Advance
<1>0. PICK q : q = head
  OBVIOUS
<1>1. /\ pc = "drain" /\ pc' = pc /\ ~ dense /\ a' = a /\ b' = b /\ dense' = dense
      /\ c0' = c0 /\ next' = [next EXCEPT ![q] = UNVISITED] /\ Offer(c0 + q, sums[q])
  BY <1>0 DEF DrainLinked, call, row
<1>2. ChunkEnd' = ChunkEnd
  BY <1>1 DEF ChunkEnd, ChunkWidth
<1>3. q \in Locals /\ q < ChunkWidth /\ next[q] # UNVISITED
  <2>1. length \in 1 .. Len(touched) /\ touched \in Seq(Locals) /\ length \in 1 .. length
    BY DEF DrainLinked, IInv, TypeOK
  <2>2. q = touched[length] /\ touched[length] \in Locals
    BY <1>0, <1>1, <2>1 DEF IInv, List, ListIsTouched
  <2> QED
    BY <1>1, <2>1, <2>2 DEF IInv, List, ListIsTouched
<1>4. /\ c0 + q \in Columns /\ sums[q] \in Value /\ sums[q] = Dot(c0 + q)
      /\ IsResult(c0 + q) <=> sums[q] # NaN
  BY <1>1, <1>3, DrainedColumn
<1>5. c0 \in Int /\ q \in Nat /\ ChunkEnd = c0 + ChunkWidth /\ ChunkWidth \in Int
  BY <1>3, ChunkFacts, KernelAssumption DEF IInv, TypeOK, Locals
<1>6. ASSUME NEW k \in Columns PROVE Passed(k)' <=> Passed(k) \/ k = c0 + q
  <2>1. k \in Int
    BY KernelAssumption DEF Columns
  <2>2. Passed(k)' <=> k < c0 \/ (k < ChunkEnd /\ next'[k - c0] = UNVISITED)
    BY <1>1, <1>2 DEF Passed
  <2>3. Passed(k) <=> k < c0 \/ (k < ChunkEnd /\ next[k - c0] = UNVISITED)
    BY <1>1 DEF Passed
  <2>4. ~ (k < c0) /\ k < ChunkEnd => k - c0 \in Locals
    BY <1>5, <2>1, ChunkFacts, KernelAssumption DEF IInv, TypeOK, Locals
  <2>5. \A p \in Locals : next'[p] = IF p = q THEN UNVISITED ELSE next[p]
    BY <1>1, <1>3 DEF IInv, TypeOK
  <2>6. k - c0 = q <=> k = c0 + q
    BY <1>5, <2>1
  <2>7. k = c0 + q => ~ (k < c0) /\ k < ChunkEnd
    BY <1>3, <1>5, <2>1
  <2> QED
    BY <2>2, <2>3, <2>4, <2>5, <2>6, <2>7
<1>7. ~ Passed(c0 + q)
  <2>1. ~ (c0 + q < c0) /\ (c0 + q) - c0 = q
    BY <1>5
  <2> QED
    BY <1>1, <1>3, <2>1 DEF Passed
<1>8. CASE Gt(sums[q], min)
  <2>1. sums[q] \in Int /\ sums[q] > min /\ sums[q] # NaN
    BY <1>4, <1>8 DEF Gt, Value
  <2>2. PushPop(c0 + q, sums[q])
    BY <1>1, <1>8 DEF Offer
  <2> QED
    BY <1>1, <1>4, <1>6, <1>7, <2>1, <2>2, PushKeeps
<1>9. CASE ~ Gt(sums[q], min)
  <2>1. heap' = heap /\ n_set' = n_set /\ min' = min
    BY <1>1, <1>9 DEF Offer, selection
  <2>2. IsResult(c0 + q) => ~ (Dot(c0 + q) > min)
    BY <1>4, <1>9, RootFacts, KernelAssumption DEF Gt
  <2> QED
    BY <1>1, <1>6, <2>1, <2>2, DropKeeps
<1> QED
  BY <1>8, <1>9

\* A group none of whose sums beats the threshold.
LEMMA SkipGroupSelected ==
  ASSUME IInv, Content, Selected, SkipGroup
  PROVE  Selected' /\ Advance
<1>1. /\ pc = "drain" /\ pc' = pc /\ dense /\ a' = a /\ b' = b /\ dense' = dense
      /\ c0' = c0 /\ slot' = slot + Unroll
      /\ heap' = heap /\ n_set' = n_set /\ min' = min
      /\ \A q \in slot .. slot + Unroll - 1 : ~ Gt(sums[q], min)
      /\ slot + Unroll <= (ChunkWidth \div Unroll) * Unroll
  BY DEF SkipGroup, Scanning, AtGroup, Grouped, GroupBeats, call, row, selection
<1>2. ChunkEnd' = ChunkEnd
  BY <1>1 DEF ChunkEnd, ChunkWidth
<1>3. /\ c0 \in Int /\ slot \in Nat /\ Unroll \in Nat \ {0}
      /\ ChunkWidth \in 0 .. ChunkCols /\ ChunkCols \in Nat /\ slot + Unroll <= ChunkWidth
  <2>1. /\ c0 \in Int /\ slot \in Nat /\ Unroll \in Nat \ {0}
        /\ ChunkWidth \in 0 .. ChunkCols /\ ChunkCols \in Nat
    BY ChunkFacts, KernelAssumption DEF IInv, TypeOK
  <2> QED
    BY <1>1, <2>1, WholeGroups
<1>4. \A k \in Columns : /\ Passed(k) <=> k < c0 \/ (k < ChunkEnd /\ k - c0 < slot)
                         /\ Passed(k)' <=> k < c0 \/ (k < ChunkEnd /\ k - c0 < slot + Unroll)
                         /\ k \in Int
  BY <1>1, <1>2, KernelAssumption DEF Passed, Columns
<1>5. \A k \in Columns : Passed(k) => Passed(k)'
  BY <1>3, <1>4
<1>6. ASSUME NEW k \in Columns, Passed(k)', ~ Passed(k), IsResult(k) PROVE ~ (Dot(k) > min)
  <2> DEFINE q == k - c0
  <2>1. q \in slot .. slot + Unroll - 1 /\ q \in Locals /\ q < ChunkWidth /\ c0 + q = k
    BY <1>3, <1>4, <1>6 DEF Locals
  <2> HIDE DEF q
  <2>2. sums[q] = Dot(k) /\ sums[q] # NaN
    BY <1>1, <1>6, <2>1, DrainedColumn
  <2>3. ~ Gt(sums[q], min)
    BY <1>1, <2>1
  <2> QED
    BY <2>2, <2>3, RootFacts, KernelAssumption DEF Gt
<1> QED
  BY <1>1, <1>5, <1>6, DropKeeps

\* drain_dense_chunk offers a slot, unless its sum is zero.
LEMMA DrainSlotSelected ==
  ASSUME IInv, IInv', Content, Selected, DrainSlot
  PROVE  Selected' /\ Advance
<1>0. PICK q : q = slot
  OBVIOUS
<1>1. /\ pc = "drain" /\ pc' = pc /\ dense /\ a' = a /\ b' = b /\ dense' = dense
      /\ c0' = c0 /\ slot' = q + 1 /\ q < ChunkWidth
      /\ IF sums[q] # 0 THEN Offer(c0 + q, sums[q]) ELSE UNCHANGED selection
  BY <1>0 DEF DrainSlot, Scanning, call, row
<1>2. ChunkEnd' = ChunkEnd
  BY <1>1 DEF ChunkEnd, ChunkWidth
<1>3. /\ c0 \in Int /\ q \in Nat /\ q \in Locals
      /\ ChunkWidth \in Int /\ ChunkEnd = c0 + ChunkWidth
  <2>1. c0 \in Int /\ q \in Nat /\ ChunkWidth \in 0 .. ChunkCols /\ ChunkCols \in Nat
    BY <1>0, ChunkFacts, KernelAssumption DEF IInv, TypeOK
  <2> QED
    BY <1>1, <2>1, ChunkFacts DEF Locals, ChunkEnd
<1>4. /\ c0 + q \in Columns /\ sums[q] \in Value /\ sums[q] = Dot(c0 + q)
      /\ IsResult(c0 + q) <=> sums[q] # NaN /\ sums[q] # 0
  BY <1>1, <1>3, DrainedColumn
<1>5. ASSUME NEW k \in Columns PROVE Passed(k)' <=> Passed(k) \/ k = c0 + q
  <2>1. k \in Int
    BY KernelAssumption DEF Columns
  <2>2. /\ Passed(k) <=> k < c0 \/ (k < ChunkEnd /\ k - c0 < q)
        /\ Passed(k)' <=> k < c0 \/ (k < ChunkEnd /\ k - c0 < q + 1)
    BY <1>0, <1>1, <1>2 DEF Passed
  <2> QED
    BY <1>1, <1>3, <2>1, <2>2
<1>6. ~ Passed(c0 + q)
  <2>1. ~ (c0 + q < c0) /\ ~ ((c0 + q) - c0 < q)
    BY <1>3
  <2> QED
    BY <1>0, <1>1, <2>1 DEF Passed
<1>7. CASE sums[q] # 0 /\ Gt(sums[q], min)
  <2>1. sums[q] \in Int /\ sums[q] > min /\ sums[q] # NaN
    BY <1>4, <1>7 DEF Gt, Value
  <2>2. PushPop(c0 + q, sums[q])
    BY <1>1, <1>7 DEF Offer
  <2> QED
    BY <1>1, <1>4, <1>5, <1>6, <1>7, <2>1, <2>2, PushKeeps
<1>8. CASE ~ (sums[q] # 0 /\ Gt(sums[q], min))
  <2>1. heap' = heap /\ n_set' = n_set /\ min' = min
    BY <1>1, <1>8 DEF Offer, selection
  <2>2. IsResult(c0 + q) => ~ (Dot(c0 + q) > min)
    BY <1>4, <1>8, RootFacts, KernelAssumption DEF Gt
  <2> QED
    BY <1>1, <1>5, <2>1, <2>2, DropKeeps
<1> QED
  BY <1>7, <1>8

\* At the end of a chunk every column of it is drained: those a dense drain
\* did not scan do not beat the threshold.
LEMMA EndChunkSelected ==
  ASSUME IInv, Content, Selected, EndChunk
  PROVE  Selected' /\ Advance
<1>1. /\ pc = "drain" /\ pc' # "drain" /\ a' = a /\ b' = b /\ dense' = dense
      /\ c0' = ChunkEnd /\ heap' = heap /\ n_set' = n_set /\ min' = min /\ Drained
  BY DEF EndChunk, Drained, call, row, selection
<1>2. /\ c0 \in Int /\ ChunkWidth \in 0 .. ChunkCols /\ ChunkEnd = c0 + ChunkWidth
      /\ ChunkCols \in Nat /\ chunk_max \in Int
  BY ChunkFacts, KernelAssumption DEF IInv, TypeOK
<1>3. \A k \in Columns : k \in Int /\ (Passed(k)' <=> k < ChunkEnd)
  BY <1>1, KernelAssumption DEF Passed, Columns
<1>4. \A k \in Columns : Passed(k) => Passed(k)'
  BY <1>1, <1>2, <1>3 DEF Passed
<1>5. ASSUME NEW k \in Columns, Passed(k)', ~ Passed(k), IsResult(k) PROVE ~ (Dot(k) > min)
  <2> DEFINE q == k - c0
  <2>1. ~ (k < c0) /\ k < ChunkEnd
    BY <1>1, <1>3, <1>5 DEF Passed
  <2>2. q \in Locals /\ q < ChunkWidth /\ c0 + q = k
    BY <1>2, <1>3, <2>1 DEF Locals
  <2>3. IF dense THEN ~ (q < slot) ELSE next[q] # UNVISITED
    BY <1>1, <1>5, <2>1 DEF Passed
  <2> HIDE DEF q
  <2>4. dense /\ slot = 0 /\ ~ Gt(chunk_max, min)
    <3>1. CASE ~ dense
      <4>1. length = 0
        BY <1>1, <3>1 DEF Drained
      <4>2. next[q] = UNVISITED
        BY <2>2, <3>1, <4>1 DEF IInv, List, ListIsTouched
      <4> QED
        BY <2>3, <3>1, <4>2
    <3>2. CASE dense /\ slot = ChunkWidth
      BY <2>2, <2>3, <3>2
    <3> QED
      BY <1>1, <3>1, <3>2 DEF Drained
  <2>5. sums[q] = Dot(k) /\ sums[q] # NaN /\ sums[q] # 0
    BY <1>1, <1>5, <2>2, <2>4, DrainedColumn
  <2>6. sums[q] <= chunk_max
    BY <2>2, <2>4, <2>5 DEF IInv, Sums, ChunkMaxBounds
  <2>7. ~ (chunk_max > min) /\ min \in Int /\ Dot(k) \in Int
    BY <1>2, <1>5, <2>4, RootFacts, DotFacts, KernelAssumption DEF Gt
  <2> QED
    BY <1>2, <2>5, <2>6, <2>7
<1> QED
  BY <1>1, <1>4, <1>5, DropKeeps

LEMMA SelectedInit == Init => Selected
<1> SUFFICES ASSUME Init PROVE Selected
  OBVIOUS
<1>1. Cardinality({}) = 0 /\ Capacity \in Nat \ {0}
  BY FS_EmptySet, KernelAssumption
<1>2. \A k \in Columns : ~ Passed(k)
  BY KernelAssumption DEF Init, Passed, Columns
<1> QED
  BY <1>1, <1>2 DEF Init, Selected, Root

LEMMA SelectedStep ==
  ASSUME IInv, IInv', Content, Selected, [Next]_vars
  PROVE  Selected' /\ (Advance \/ \E r \in ARows, d \in BOOLEAN : StartRow(r, d))
<1>1. CASE OpenSegment \/ ScatterLinked \/ ScatterDense \/ CloseSegment \/ EmitByColumn \/ EmitByValue
  <2>1. /\ UNCHANGED <<a, b, dense, heap, n_set, min, c0>>
        /\ pc # "drain" /\ pc' # "drain"
    BY <1>1 DEF OpenSegment, ScatterLinked, ScatterDense, CloseSegment, EmitByColumn, EmitByValue,
                Emit, call, row, selection
  <2>2. \A k \in Columns : Passed(k)' <=> Passed(k)
    BY <2>1 DEF Passed
  <2> QED
    BY <2>1, <2>2, DropKeeps
<1>2. CASE UNCHANGED vars
  <2>1. \A k \in Columns : Passed(k)' <=> Passed(k)
    BY <1>2 DEF vars, call, row, accumulator, Passed, ChunkEnd, ChunkWidth
  <2>2. UNCHANGED <<a, b, dense, heap, n_set, min>>
    BY <1>2 DEF vars, call, row, selection
  <2> QED
    BY <2>1, <2>2, DropKeeps
<1> QED
  BY <1>1, <1>2, StartRowSelected, StartDrainSelected, DrainLinkedSelected, SkipGroupSelected,
     DrainSlotSelected, EndChunkSelected DEF Next

\* The heap holds results of columns already drained, each with its whole dot
\* product, and of those results every one above the running threshold, which
\* is the smallest score the heap holds once it is full.
THEOREM HeapHoldsBest == Spec => [](IInv /\ Content /\ Selected)
<1>1. IInv /\ IInv' /\ Content /\ Selected /\ [Next]_vars => Selected'
  BY SelectedStep
<1> QED
  BY <1>1, SelectedInit, SumsAreProducts, KernelInvariant, PTL DEF Spec

-----------------------------------------------------------------------------
(* A row is a selection of its best results *)

Best == Selection!IsTopN(Kept, Offered)

LEMMA SelectedIsBest == IInv /\ Selected => Best
<1> SUFFICES ASSUME IInv, Selected PROVE Best
  OBVIOUS
<1> DEFINE Result(k) == [idx |-> k, val |-> Dot(k)]
           f == [e \in heap |-> Result(e.idx)]
<1>1. /\ IsFiniteSet(heap) /\ Cardinality(heap) <= Capacity
      /\ \A e \in heap : /\ e.idx \in Columns /\ Passed(e.idx) /\ IsResult(e.idx)
                         /\ e.val = Dot(e.idx) /\ e.val > Threshold /\ e.val \in Int
      /\ \A e, g \in heap : e.idx = g.idx => e = g
  BY RootFacts DEF IInv, Position, TypeOK, Entry, Columns, Selected
<1>2. Offered = {Result(k) : k \in {q \in Columns : Passed(q) /\ IsResult(q)}}
  BY DEF Offered, Columns
<1>3. Kept = {Result(e.idx) : e \in heap}
  BY <1>1 DEF Kept
<1>4. Kept \subseteq Selection!Eligible(Offered)
  <2> SUFFICES ASSUME NEW e \in heap PROVE Result(e.idx) \in Selection!Eligible(Offered)
    BY <1>3
  <2>1. Result(e.idx) \in Offered
    BY <1>1, <1>2
  <2> QED
    BY <1>1, <2>1 DEF Selection!Eligible
<1>5. ASSUME NEW o \in Selection!Eligible(Offered) \ Kept
      PROVE  o.val \in Int /\ o.val <= min /\ o.val > Threshold
  <2>1. PICK k \in Columns : o = Result(k) /\ Passed(k) /\ IsResult(k)
    BY <1>2 DEF Selection!Eligible
  <2>2. Dot(k) \in Int /\ Dot(k) > Threshold
    BY <2>1, DotFacts DEF Selection!Eligible
  <2>3. \A e \in heap : e.idx # k
    BY <1>3, <2>1
  <2>4. ~ (Dot(k) > min)
    BY <2>1, <2>3 DEF Selected
  <2> QED
    BY <2>1, <2>2, <2>4, RootFacts
<1>6. Cardinality(Kept) = Cardinality(heap)
  <2>1. f \in [heap -> Kept]
    BY <1>3
  <2>2. \A e, g \in heap : f[e] = f[g] => e = g
    BY <1>1
  <2>3. \A o \in Kept : \E e \in heap : f[e] = o
    BY <1>3
  <2> HIDE DEF f
  <2>4. f \in Bijection(heap, Kept)
    BY <2>1, <2>2, <2>3 DEF Bijection, Injection, Surjection, IsInjective
  <2> QED
    BY <1>1, <2>4, FS_Bijection DEF ExistsBijection
<1>7. Kept = Selection!Eligible(Offered) \/ Cardinality(Kept) = Capacity
  <2>1. CASE Cardinality(heap) = Capacity
    BY <1>6, <2>1
  <2>2. CASE Cardinality(heap) # Capacity
    <3>1. min = Threshold
      BY <1>1, <2>2, RootFacts
    <3>2. \A o \in Selection!Eligible(Offered) : o \in Kept
      BY <1>5, <3>1, RootFacts
    <3> QED
      BY <1>4, <3>2
  <2> QED
    BY <2>1, <2>2
<1>8. \A o \in Kept, p \in Selection!Eligible(Offered) \ Kept : o.val >= p.val
  <2> SUFFICES ASSUME NEW e \in heap, NEW p \in Selection!Eligible(Offered) \ Kept
               PROVE  Dot(e.idx) >= p.val
    BY <1>3
  <2>1. e.val >= min /\ e.val \in Int /\ min \in Int
    BY RootFacts
  <2> QED
    BY <1>1, <1>5, <2>1
<1>9. Selection!Cardinality(Kept) = Cardinality(Kept)
  BY DEF Selection!Cardinality, Cardinality
<1> QED
  BY <1>1, <1>4, <1>6, <1>7, <1>8, <1>9 DEF Best, Selection!IsTopN

\* A step starts the next row or advances in this one.
LEMMA RowStep ==
  ASSUME IInv', Selected', Best', [Next]_vars,
         Advance \/ \E r \in ARows, d \in BOOLEAN : StartRow(r, d)
  PROVE  Selection!Next \/ UNCHANGED <<Offered, Kept>>
<1>1. ASSUME NEW r \in ARows, NEW d \in BOOLEAN, StartRow(r, d) PROVE Selection!Next
  <2>1. heap' = {} /\ pc' = "row" /\ c0' = 0
    BY <1>1 DEF StartRow
  <2>2. \A k \in Columns : ~ Passed(k)'
    BY <2>1, KernelAssumption DEF Passed, Columns
  <2>3. Kept' = {} /\ Offered' = {}
    BY <2>1, <2>2 DEF Kept, Offered, Columns
  <2> QED
    BY <2>3 DEF Selection!Next, Selection!Reset
<1>2. CASE UNCHANGED vars
  BY <1>2 DEF vars, call, row, accumulator, selection, Offered, Kept, Passed, IsResult, Dot,
              ChunkEnd, ChunkWidth
<1>3. CASE Advance /\ Next /\ ~ \E r \in ARows, d \in BOOLEAN : StartRow(r, d)
  <2>1. UNCHANGED <<a, b, dense>>
    BY <1>3 DEF Next, OpenSegment, ScatterLinked, ScatterDense, CloseSegment, StartDrain,
       DrainLinked, SkipGroup, DrainSlot, EndChunk, EmitByColumn, EmitByValue, Emit, call, row
  <2>2. \A k \in Columns : (IsResult(k)' <=> IsResult(k)) /\ Dot(k)' = Dot(k)
    BY <2>1 DEF IsResult, Dot
  <2>3. Offered \subseteq Offered'
    BY <1>3, <2>2 DEF Advance, Offered, Columns
  <2>4. ASSUME NEW e \in heap', e \notin heap
        PROVE  [idx |-> e.idx, val |-> e.val] \in Offered' \ Offered
    <3>1. ~ Passed(e.idx)
      BY <1>3, <2>4 DEF Advance
    <3>2. /\ e.idx \in Columns /\ Passed(e.idx)' /\ IsResult(e.idx)' /\ e.val = Dot(e.idx)'
      BY <2>4 DEF Selected, IInv, TypeOK, Entry, Columns
    <3>3. [idx |-> e.idx, val |-> e.val] \in Offered'
      BY <3>2 DEF Offered, Columns
    <3>4. [idx |-> e.idx, val |-> e.val] \notin Offered
      BY <3>1 DEF Offered
    <3> QED
      BY <3>3, <3>4
  <2>5. Kept' \subseteq Kept \cup (Offered' \ Offered)
    BY <2>4 DEF Kept
  <2> QED
    BY <2>3, <2>5 DEF Best, Selection!Next, Selection!Offer
<1> QED
  BY <1>1, <1>2, <1>3

\* For every matrix, row, chunk width, unrolling and accumulator, the row's
\* selection is a top-n of the dot products of the columns drained so far
\* (process_row).
THEOREM RowIsTopN == Spec => ImplementsTopN
<1>1. Init => Selection!Init
  <2> SUFFICES ASSUME Init PROVE Selection!Init
    OBVIOUS
  <2>1. \A k \in Columns : ~ Passed(k)
    BY KernelAssumption DEF Init, Passed, Columns
  <2> QED
    BY <2>1 DEF Init, Kept, Offered, Columns, Selection!Init
<1>2. /\ IInv /\ IInv' /\ Content /\ Selected /\ Selected' /\ Best' /\ [Next]_vars
      => [Selection!Next]_(Selection!vars)
  BY SelectedStep, RowStep DEF Selection!vars
<1> QED
  BY <1>1, <1>2, SelectedIsBest, HeapHoldsBest, PTL DEF Spec, ImplementsTopN, Selection!Spec

-----------------------------------------------------------------------------
(* The order of the emitted row *)

Below(i, k) == IF dense THEN i < k ELSE i \div ChunkCols <= k \div ChunkCols

Ordered ==
  /\ c0 = NCols \/ \E m \in Nat : c0 = m * ChunkCols
  /\ \A e, f \in heap : e.order < f.order => Below(e.idx, f.idx)
  /\ RowOrder

\* Chunks are compared by their number.
LEMMA ChunkNumbers ==
  ASSUME NEW w \in Nat \ {0}, NEW m \in Nat, NEW i \in Nat, NEW k \in Nat,
         i < m * w + w, m * w <= k
  PROVE  i \div w <= k \div w
<1> DEFINE x == i \div w
           y == k \div w
<1>1. x \in Int /\ y \in Int /\ x * w <= i /\ k < y * w + w
  OBVIOUS
<1> HIDE DEF x, y
<1>2. ASSUME x > y PROVE FALSE
  <2>1. y + 1 <= x /\ (y + 1) * w = y * w + w
    BY <1>1, <1>2
  <2>2. (y + 1) * w <= x * w
    BY <1>1, <2>1
  <2>3. m * w < y * w + w /\ x * w < m * w + w
    BY <1>1
  <2>4. m < y + 1
    BY <1>1, <2>1, <2>3
  <2>5. m * w + w <= (y + 1) * w
    <3>1. m + 1 <= y + 1 /\ (m + 1) * w = m * w + w
      BY <1>1, <2>4
    <3> QED
      BY <1>1, <3>1
  <2> QED
    BY <1>1, <2>2, <2>3, <2>5
<1> QED
  BY <1>1, <1>2 DEF x, y

\* While a chunk is drained c0 is where it starts.
LEMMA ChunkStart ==
  ASSUME IInv, Ordered, pc = "drain"
  PROVE  \E m \in Nat : c0 = m * ChunkCols
<1>1. c0 < NCols
  BY DEF IInv, Position, Working
<1>2. c0 \in Int /\ NCols \in Int
  BY KernelAssumption DEF IInv, TypeOK
<1>3. c0 # NCols
  BY <1>1, <1>2
<1> QED
  BY <1>3 DEF Ordered

\* What the heap takes up stands above all it holds.
LEMMA PushOrdered ==
  ASSUME IInv, Selected, Ordered, pc = "drain", pc' # "byColumn", UNCHANGED <<c0, dense>>,
         NEW k \in Columns, NEW v, PushPop(k, v), c0 <= k,
         \A e \in heap : dense => e.idx < k
  PROVE  Ordered'
<1> DEFINE new == [order |-> n_set, idx |-> k, val |-> v]
<1>1. \A e \in heap' : e \in heap \/ e = new
  BY DEF PushPop, Pushed
<1>2. \A e \in heap : /\ e.order < n_set /\ e.order \in Nat /\ e.idx \in Nat /\ Passed(e.idx)
  BY KernelAssumption DEF Selected, IInv, TypeOK, Entry
<1>3. n_set \in Nat /\ k \in Nat
  BY KernelAssumption DEF IInv, TypeOK, Columns
<1>4. new.order = n_set /\ new.idx = k
  OBVIOUS
<1> HIDE DEF new
<1>5. ASSUME NEW e \in heap PROVE Below(e.idx, k)
  <2>1. CASE dense
    BY <2>1 DEF Below
  <2>2. CASE ~ dense
    <3>1. PICK m \in Nat : c0 = m * ChunkCols
      BY ChunkStart
    <3>2. /\ e.idx \in Nat /\ ChunkCols \in Nat \ {0} /\ c0 \in Nat /\ ChunkWidth \in 0 .. ChunkCols
          /\ ChunkEnd = c0 + ChunkWidth
      BY <1>2, ChunkFacts, KernelAssumption DEF IInv, TypeOK
    <3>3. e.idx < ChunkEnd
      BY <1>2, <3>2 DEF Passed
    <3>4. e.idx < m * ChunkCols + ChunkCols /\ m * ChunkCols <= k
      BY <1>3, <3>1, <3>2, <3>3
    <3>5. e.idx \div ChunkCols <= k \div ChunkCols
      BY <1>3, <3>2, <3>4, ChunkNumbers
    <3> QED
      BY <2>2, <3>5 DEF Below
  <2> QED
    BY <2>1, <2>2
<1>6. ASSUME NEW e \in heap', NEW f \in heap', e.order < f.order PROVE Below(e.idx, f.idx)
  <2>1. e # new
    BY <1>1, <1>2, <1>3, <1>4, <1>6
  <2>2. e \in heap
    BY <1>1, <2>1
  <2> QED
    BY <1>1, <1>4, <1>5, <1>6, <2>2 DEF Ordered
<1>7. \A i, k1 : Below(i, k1)' <=> Below(i, k1)
  BY DEF Below
<1> QED
  BY <1>6, <1>7 DEF Ordered, RowOrder

\* ByColumn lists the heap in the order its entries came.
LEMMA EmitOrdered ==
  ASSUME IInv, Selected, Ordered, EmitByColumn
  PROVE  Ordered'
<1>1. UNCHANGED <<c0, dense, heap>>
  BY DEF EmitByColumn, Emit, row, selection
<1>2. PICK f \in Listings(heap, ByOrder) : out' = [p \in DOMAIN f |-> f[p].idx]
  BY DEF EmitByColumn, Emit
<1>3. /\ f \in [1 .. Cardinality(heap) -> heap] /\ {f[p] : p \in DOMAIN f} = heap
      /\ \A p, q \in DOMAIN f : p < q => ~ (f[q].order < f[p].order)
  BY <1>2 DEF Listings, ByOrder
<1>4. IsFiniteSet(heap) /\ Cardinality(heap) \in Nat
  BY FS_CardinalityType DEF IInv, Position
<1>5. \A p, q \in DOMAIN f : f[p] = f[q] => p = q
  <2> DEFINE D == 1 .. Cardinality(heap)
  <2>1. IsFiniteSet(D) /\ Cardinality(D) = Cardinality(heap)
    BY <1>4, FS_Interval
  <2>2. f \in [D -> heap] /\ \A e \in heap : \E p \in D : f[p] = e
    BY <1>3
  <2> HIDE DEF D
  <2>3. f \in Surjection(D, heap)
    BY <2>2 DEF Surjection
  <2>4. f \in Injection(D, heap)
    BY <2>1, <2>3, FS_Surjection
  <2> QED
    BY <2>2, <2>4 DEF Injection, IsInjective
<1>6. ASSUME NEW p \in DOMAIN out', NEW q \in DOMAIN out', p < q
      PROVE  Below(out'[p], out'[q])
  <2>1. p \in DOMAIN f /\ q \in DOMAIN f /\ out'[p] = f[p].idx /\ out'[q] = f[q].idx
    BY <1>2
  <2>2. f[p] \in heap /\ f[q] \in heap /\ p # q
    BY <1>3, <1>6, <2>1
  <2>3. f[p] # f[q] /\ ~ (f[q].order < f[p].order)
    BY <1>3, <1>5, <1>6, <2>1, <2>2
  <2>4. f[p].order # f[q].order
    BY <2>2, <2>3 DEF Selected
  <2>5. f[p].order \in Nat /\ f[q].order \in Nat
    BY <2>2 DEF IInv, TypeOK, Entry
  <2>6. f[p].order < f[q].order
    BY <2>3, <2>4, <2>5
  <2> QED
    BY <2>1, <2>2, <2>6 DEF Ordered
<1>7. RowOrder'
  BY <1>1, <1>6 DEF RowOrder, Below
<1> QED
  BY <1>1, <1>7 DEF Ordered, Below

LEMMA OrderedStep ==
  ASSUME IInv, Content, Selected, Ordered, [Next]_vars
  PROVE  Ordered'
<1>1. ASSUME NEW r \in ARows, NEW d \in BOOLEAN, StartRow(r, d) PROVE Ordered'
  <2>1. heap' = {} /\ c0' = 0 * ChunkCols /\ pc' = "row"
    BY <1>1, KernelAssumption DEF StartRow
  <2> QED
    BY <2>1 DEF Ordered, RowOrder
<1>2. ASSUME UNCHANGED <<c0, dense, heap>>, pc' # "byColumn" PROVE Ordered'
  BY <1>2 DEF Ordered, RowOrder, Below
<1>3. CASE OpenSegment \/ ScatterLinked \/ ScatterDense \/ CloseSegment \/ StartDrain \/ SkipGroup
           \/ EmitByValue
  BY <1>2, <1>3 DEF OpenSegment, ScatterLinked, ScatterDense, CloseSegment, StartDrain, SkipGroup,
                    Scanning, EmitByValue, Emit, row, selection
<1>4. CASE DrainLinked
  <2>1. /\ pc = "drain" /\ pc' = pc /\ ~ dense /\ UNCHANGED <<c0, dense>> /\ Offer(c0 + head, sums[head])
    BY <1>4 DEF DrainLinked, row
  <2>2. head \in Locals
    <3>1. length \in 1 .. Len(touched) /\ touched \in Seq(Locals)
      BY <1>4 DEF DrainLinked, IInv, TypeOK
    <3> QED
      BY <2>1, <3>1 DEF IInv, List, ListIsTouched
  <2>3. CASE Gt(sums[head], min)
    <3>1. head < ChunkWidth /\ next[head] # UNVISITED
      <4>1. length \in 1 .. Len(touched) /\ touched \in Seq(Locals) /\ length \in 1 .. length
        BY <1>4 DEF DrainLinked, IInv, TypeOK
      <4>2. head = touched[length]
        BY <2>1, <4>1 DEF IInv, List, ListIsTouched
      <4> QED
        BY <2>1, <2>2, <4>1, <4>2 DEF IInv, List, ListIsTouched
    <3>2. c0 + head \in Columns /\ c0 <= c0 + head
      <4>1. c0 + head \in Columns
        BY <2>1, <2>2, <3>1, DrainedColumn
      <4>2. c0 \in Int /\ head \in Nat
        BY <2>2, KernelAssumption DEF IInv, TypeOK, Locals
      <4> QED
        BY <4>1, <4>2
    <3>3. PushPop(c0 + head, sums[head])
      BY <2>1, <2>3 DEF Offer
    <3> QED
      BY <2>1, <3>2, <3>3, PushOrdered
  <2>4. CASE ~ Gt(sums[head], min)
    BY <1>2, <2>1, <2>4 DEF Offer, selection
  <2> QED
    BY <2>3, <2>4
<1>5. CASE DrainSlot
  <2>1. /\ pc = "drain" /\ pc' = pc /\ dense /\ slot < ChunkWidth /\ UNCHANGED <<c0, dense>>
        /\ Offer(c0 + slot, sums[slot]) \/ UNCHANGED selection
    BY <1>5 DEF DrainSlot, Scanning, row
  <2>2. c0 \in Int /\ slot \in Nat /\ slot \in Locals
    BY <2>1, ChunkFacts, KernelAssumption DEF IInv, TypeOK, Locals
  <2>3. CASE PushPop(c0 + slot, sums[slot])
    <3>1. c0 + slot \in Columns /\ c0 <= c0 + slot
      BY <2>1, <2>2, DrainedColumn
    <3>2. \A e \in heap : e.idx < c0 + slot
      <4> SUFFICES ASSUME NEW e \in heap PROVE e.idx < c0 + slot
        OBVIOUS
      <4>1. e.idx \in Int /\ (e.idx < c0 \/ e.idx - c0 < slot)
        BY <2>1, KernelAssumption DEF Selected, Passed, IInv, TypeOK, Entry
      <4> QED
        BY <2>2, <4>1
    <3> QED
      BY <2>1, <2>3, <3>1, <3>2, PushOrdered
  <2>4. CASE UNCHANGED selection
    BY <1>2, <2>1, <2>4 DEF selection
  <2> QED
    BY <2>1, <2>3, <2>4 DEF Offer
<1>6. CASE EndChunk
  <2>1. UNCHANGED <<dense, heap>> /\ c0' = ChunkEnd /\ pc' # "byColumn" /\ pc = "drain"
    BY <1>6 DEF EndChunk, Drained, row, selection
  <2>2. PICK m \in Nat : c0 = m * ChunkCols
    BY <2>1, ChunkStart
  <2>3. ChunkEnd = NCols \/ ChunkEnd = (m + 1) * ChunkCols
    <3>1. NCols \in Int /\ ChunkCols \in Int /\ c0 \in Int
      BY KernelAssumption DEF IInv, TypeOK
    <3>2. c0 + ChunkCols = (m + 1) * ChunkCols
      BY <2>2, <3>1
    <3> QED
      BY <3>1, <3>2 DEF ChunkEnd, ChunkWidth
  <2> QED
    BY <2>1, <2>3 DEF Ordered, RowOrder, Below
<1>7. CASE UNCHANGED vars
  BY <1>7 DEF vars, row, selection, Ordered, RowOrder, Below
<1> QED
  BY <1>1, <1>3, <1>4, <1>5, <1>6, <1>7, EmitOrdered DEF Next

\* ByColumn emits a row chunk by chunk, a dense row column by column, although
\* within a chunk the list is drained newest first and the heap moves entries.
THEOREM RowInOrder == Spec => []RowOrder
<1>1. Init => Ordered
  <2>1. Init => c0 = 0 * ChunkCols /\ heap = {} /\ pc = "idle"
    BY KernelAssumption DEF Init
  <2> QED
    BY <2>1 DEF Ordered, RowOrder
<1>2. IInv /\ Content /\ Selected /\ Ordered /\ [Next]_vars => Ordered'
  BY OrderedStep
<1>3. Ordered => RowOrder
  BY DEF Ordered
<1> QED
  BY <1>1, <1>2, <1>3, HeapHoldsBest, PTL DEF Spec

=============================================================================
