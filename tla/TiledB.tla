------------------------------- MODULE TiledB -------------------------------
(***************************************************************************)
(* The tiled representation of B (src/src/tiled.rs): a counting sort of    *)
(* the entries of B, in CSR order, by segment.  There is a segment for     *)
(* each chunk of columns and row of B, chunk-major; an entry keeps its     *)
(* column relative to the chunk, narrowed to u16, and offsets are u32.     *)
(* Rows of B may be in any column order and repeat a column: the kernels   *)
(* add the entries of a segment in the order they find them.               *)
(***************************************************************************)
EXTENDS Integers, Sequences, FiniteSets

CONSTANTS
  NRows, NCols,     \* shape of B
  U16Max, U32Max,   \* u16::MAX and u32::MAX
  ChunkWidths,      \* chunk widths the driver may resolve to
  Matrices          \* matrices B: sequences of [j, k], by row

ASSUME TiledAssumption ==
  /\ NRows \in Nat /\ NCols \in Nat /\ U16Max \in Nat /\ U32Max \in Nat
  /\ ChunkWidths \subseteq Nat \ {0}
  /\ \A m \in Matrices :
       /\ m \in Seq([j : 0 .. NRows - 1, k : 0 .. NCols - 1])
       /\ \A p, q \in DOMAIN m : p < q => m[p].j <= m[q].j

VARIABLES
  b, chunk_cols,    \* the call; an entry's value is its position in b
  pc,               \* "start", "count", "place", "done"; "csr": plain kernel
  at,               \* position of the running loop
  seg_ptr, cur, idx, data

call == <<b, chunk_cols>>
vars == <<call, pc, at, seg_ptr, cur, idx, data>>

-----------------------------------------------------------------------------

CeilDiv(x, y) == (x + y - 1) \div y
NChunks == IF NCols = 0 THEN 1 ELSE CeilDiv(NCols, chunk_cols)
NSeg == NChunks * NRows

Chunk(e) == e.k \div chunk_cols
SegOf(c, j) == c * NRows + j
Slot(e) == SegOf(Chunk(e), e.j)

\* Mutant: the count of a segment is kept at its own place, not at its end.
CounterAtSlot(e) == Slot(e)

Counter(e) == Slot(e) + 1

Narrow16(x) == x % (U16Max + 1)
Narrow32(x) == x % (U32Max + 1)

\* Mutant: the column is not made relative to its chunk.
GlobalColumn(e) == Narrow16(e.k)

LocalColumn(e) == Narrow16(e.k - Chunk(e) * chunk_cols)

\* Mutant: a chunk may be one column wider than u16 can number.
SupportsOneMore == chunk_cols <= U16Max + 2 /\ Len(b) <= U32Max

Supports == chunk_cols <= U16Max + 1 /\ Len(b) <= U32Max

-----------------------------------------------------------------------------

Init ==
  /\ b \in Matrices /\ chunk_cols \in ChunkWidths
  /\ pc = "start" /\ at = 0
  /\ seg_ptr = <<>> /\ cur = <<>> /\ idx = <<>> /\ data = <<>>

\* Shapes that do not fit keep the CSR kernel.
FallBack ==
  /\ pc = "start" /\ ~ Supports
  /\ pc' = "csr"
  /\ UNCHANGED <<call, at, seg_ptr, cur, idx, data>>

Build ==
  /\ pc = "start" /\ Supports
  /\ pc' = "count" /\ at' = 1
  /\ seg_ptr' = [s \in 0 .. NSeg |-> 0]
  /\ UNCHANGED <<call, cur, idx, data>>

Count ==
  /\ pc = "count" /\ at <= Len(b)
  /\ seg_ptr' = [seg_ptr EXCEPT ![Counter(b[at])] = Narrow32(@ + 1)]
  /\ at' = at + 1
  /\ UNCHANGED <<call, pc, cur, idx, data>>

\* The prefix sum of the counts, kept in u32.
Starts ==
  LET f[s \in 0 .. NSeg] == IF s = 0 THEN seg_ptr[0] ELSE Narrow32(f[s - 1] + seg_ptr[s])
  IN  f

\* The counts become segment starts, and these the write positions; the arrays
\* are zeroed.
Prefix ==
  /\ pc = "count" /\ at > Len(b)
  /\ pc' = "place" /\ at' = 1
  /\ seg_ptr' = Starts
  /\ cur' = [s \in 0 .. NSeg - 1 |-> Starts[s]]
  /\ idx' = [p \in 0 .. Len(b) - 1 |-> 0]
  /\ data' = [p \in 0 .. Len(b) - 1 |-> 0]
  /\ UNCHANGED call

Place ==
  /\ pc = "place" /\ at <= Len(b)
  /\ LET slot == Slot(b[at]) IN
       /\ cur' = [cur EXCEPT ![slot] = Narrow32(@ + 1)]
       /\ idx' = [idx EXCEPT ![cur[slot]] = LocalColumn(b[at])]
       /\ data' = [data EXCEPT ![cur[slot]] = at]
  /\ at' = at + 1
  /\ UNCHANGED <<call, pc, seg_ptr>>

Finish ==
  /\ pc = "place" /\ at > Len(b)
  /\ pc' = "done"
  /\ UNCHANGED <<call, at, seg_ptr, cur, idx, data>>

Next == FallBack \/ Build \/ Count \/ Prefix \/ Place \/ Finish

Spec == Init /\ [][Next]_vars

\* The segment of row j in chunk c: its columns and values.
Segment(c, j) ==
  [p \in 1 .. seg_ptr[SegOf(c, j) + 1] - seg_ptr[SegOf(c, j)] |->
     LET pos == seg_ptr[SegOf(c, j)] + p - 1 IN [k |-> idx[pos], x |-> data[pos]]]

-----------------------------------------------------------------------------
(* Properties *)

TypeOK ==
  /\ pc \in {"start", "count", "place", "done", "csr"}
  /\ at \in Nat
  /\ \A s \in DOMAIN seg_ptr : seg_ptr[s] \in 0 .. U32Max
  /\ \A s \in DOMAIN cur : cur[s] \in 0 .. U32Max
  /\ \A p \in DOMAIN idx : idx[p] < chunk_cols /\ idx[p] \in 0 .. U16Max
  /\ \A p \in DOMAIN data : data[p] \in 0 .. Len(b)

\* How many of the first n entries of b belong in segment s.
Placed(s, n) == Cardinality({p \in 1 .. n : Slot(b[p]) = s})

\* The write position of a segment stays inside it and has passed exactly the
\* entries placed there, so no entry lands in another segment or on another.
CursorsStay ==
  pc = "place" =>
    \A s \in DOMAIN cur :
      /\ cur[s] = seg_ptr[s] + Placed(s, at - 1)
      /\ cur[s] <= seg_ptr[s + 1]

\* Read back, segment (c, j) holds the entries of row j whose columns lie in
\* chunk c, all of them and no other, in the order of the row, columns counted
\* from the chunk's start: what the block kernel reads is what it would have
\* found in the CSR row.
SegmentsAreRows ==
  pc = "done" =>
    \A c \in 0 .. NChunks - 1, j \in 0 .. NRows - 1 :
      LET seg == Segment(c, j)
      IN  /\ {seg[q].x : q \in DOMAIN seg} =
               {p \in DOMAIN b : /\ b[p].j = j
                                 /\ b[p].k >= c * chunk_cols
                                 /\ b[p].k < (c + 1) * chunk_cols}
          /\ \A q \in DOMAIN seg : seg[q].k = b[seg[q].x].k - c * chunk_cols
          /\ \A q, r \in DOMAIN seg : q < r => seg[q].x < seg[r].x
=============================================================================
