---------------------------- MODULE ColumnProofs ----------------------------
(***************************************************************************)
(* Theorems about cutting a matrix by columns and putting it together      *)
(* again: TiledB, which sorts the entries of B into segments, and ZipTopN, *)
(* which merges the results of chunks of columns.                          *)
(*                                                                         *)
(* The counting sort is right because the place of an entry is known       *)
(* before any entry is moved: the entries of the segments before its own,  *)
(* plus the entries of its own segment that come before it in B (Goal).    *)
(* The counts, their prefix sum and the write positions are the            *)
(* cardinalities of the corresponding sets of positions, and different     *)
(* entries have different places, which are all places of their segments.  *)
(*                                                                         *)
(* The zip is right because the offset of a chunk is the sum of the widths *)
(* before it, so cells of different chunks never share a column            *)
(* (CellsApart), because the heap holds of the cells walked every one      *)
(* above its root (Holds), and because a cell a chunk dropped is beaten by *)
(* as many cells as the result keeps (MissingIsBeaten).                    *)
(***************************************************************************)
EXTENDS TiledB, ZipTopN, SequenceLemmas, FiniteSetTheorems

-----------------------------------------------------------------------------
(* The inductive invariant *)

\* How many entries of b belong in segments before s.
Below(s) == Cardinality({p \in 1 .. Len(b) : Slot(b[p]) < s})

\* The place of entry p in the tiles.
Goal(p) == Below(Slot(b[p])) + Placed(Slot(b[p]), p - 1)

CallOK ==
  /\ b \in Matrices /\ chunk_cols \in ChunkWidths
  /\ pc \in {"start", "count", "place", "done", "csr"} /\ at \in Nat
  /\ pc \in {"count", "place", "done"} => Supports /\ at \in 1 .. Len(b) + 1

\* Before the build, and when there is none, there are no tiles.
NothingBuilt ==
  /\ pc \in {"start", "csr"} => seg_ptr = <<>>
  /\ pc \in {"start", "csr", "count"} => cur = <<>> /\ idx = <<>> /\ data = <<>>

\* The counts so far, each at the end of its segment.
CountsOK ==
  pc = "count" =>
    /\ seg_ptr \in [0 .. NSeg -> 0 .. U32Max]
    /\ seg_ptr[0] = 0
    /\ \A s \in 0 .. NSeg - 1 : seg_ptr[s + 1] = Placed(s, at - 1)

\* The segments and the write positions.
PositionsOK ==
  pc \in {"place", "done"} =>
    /\ seg_ptr = [s \in 0 .. NSeg |-> Below(s)]
    /\ cur = [s \in 0 .. NSeg - 1 |-> Below(s) + Placed(s, at - 1)]

\* The entries placed so far are at their places.
PlacesOK ==
  pc \in {"place", "done"} =>
    /\ idx \in [0 .. Len(b) - 1 -> 0 .. U16Max]
    /\ \A q \in 0 .. Len(b) - 1 : idx[q] < chunk_cols
    /\ data \in [0 .. Len(b) - 1 -> 0 .. Len(b)]
    /\ \A p \in 1 .. at - 1 :
         data[Goal(p)] = p /\ idx[Goal(p)] = b[p].k - Chunk(b[p]) * chunk_cols

Ends == pc = "done" => at = Len(b) + 1

TInv == CallOK /\ NothingBuilt /\ CountsOK /\ PositionsOK /\ PlacesOK /\ Ends

-----------------------------------------------------------------------------
(* Arithmetic *)

LEMMA Division ==
  ASSUME NEW x \in Nat, NEW w \in Nat \ {0}
  PROVE  /\ x \div w \in Nat
         /\ (x \div w) * w <= x
         /\ x < (x \div w + 1) * w
OBVIOUS

\* Multiples of w do not lie within w of each other.
LEMMA Multiples ==
  ASSUME NEW w \in Nat, NEW c \in Int, NEW d \in Int, c < d
  PROVE  c * w + w <= d * w
<1>1. PICK e \in Nat : d = c + 1 + e
  <2>1. d - c - 1 \in Nat /\ d = c + 1 + (d - c - 1)
    OBVIOUS
  <2> QED
    BY <2>1
<1>2. e * w \in Nat
  OBVIOUS
<1>3. d * w = c * w + w + e * w
  BY <1>1
<1> QED
  BY <1>2, <1>3

\* The quotient is the only multiple with which x differs by less than w.
LEMMA QuotientIsUnique ==
  ASSUME NEW x \in Nat, NEW w \in Nat \ {0}, NEW c \in Int
  PROVE  c = x \div w <=> c * w <= x /\ x < (c + 1) * w
<1> DEFINE d == x \div w
<1>1. d \in Nat /\ d * w <= x /\ x < (d + 1) * w
  BY Division
<1> HIDE DEF d
<1>2. (c + 1) * w = c * w + w /\ (d + 1) * w = d * w + w /\ c * w \in Int /\ d * w \in Int
  BY <1>1
<1>3. CASE c < d
  <2>1. c * w + w <= d * w
    BY <1>1, <1>3, Multiples
  <2> QED
    BY <1>1, <1>2, <1>3, <2>1
<1>4. CASE d < c
  <2>1. d * w + w <= c * w
    BY <1>1, <1>4, Multiples
  <2> QED
    BY <1>1, <1>2, <1>4, <2>1
<1>5. CASE c = d
  BY <1>1, <1>5
<1>6. c = d <=> c * w <= x /\ x < (c + 1) * w
  BY <1>1, <1>3, <1>4, <1>5
<1> QED
  BY <1>6 DEF d

-----------------------------------------------------------------------------
(* Segments *)

LEMMA Entries ==
  ASSUME CallOK
  PROVE  /\ Len(b) \in Nat /\ DOMAIN b = 1 .. Len(b)
         /\ chunk_cols \in Nat \ {0}
         /\ NRows \in Nat /\ NCols \in Nat /\ U16Max \in Nat /\ U32Max \in Nat
         /\ \A p \in 1 .. Len(b) : /\ b[p].j \in 0 .. NRows - 1
                                   /\ b[p].k \in 0 .. NCols - 1
<1>1. b \in Seq([j : 0 .. NRows - 1, k : 0 .. NCols - 1])
  BY TiledAssumption DEF CallOK
<1>2. Len(b) \in Nat /\ DOMAIN b = 1 .. Len(b)
  BY <1>1
<1>3. ASSUME NEW p \in 1 .. Len(b)
      PROVE  b[p] \in [j : 0 .. NRows - 1, k : 0 .. NCols - 1]
  BY <1>1, <1>3, ElementOfSeq
<1>4. chunk_cols \in Nat \ {0}
  BY TiledAssumption DEF CallOK
<1> QED
  BY <1>2, <1>3, <1>4, TiledAssumption

LEMMA ChunkCount ==
  ASSUME CallOK
  PROVE  NChunks \in Nat /\ NSeg \in Nat /\ NCols <= NChunks * chunk_cols
<1>1. chunk_cols \in Nat \ {0} /\ NCols \in Nat /\ NRows \in Nat
  BY Entries
<1>2. CASE NCols = 0
  <2>1. NChunks = 1
    BY <1>2 DEF NChunks
  <2> QED
    BY <1>1, <1>2, <2>1 DEF NSeg
<1>3. CASE NCols # 0
  <2>1. NChunks = (NCols + chunk_cols - 1) \div chunk_cols
    BY <1>3 DEF NChunks, CeilDiv
  <2>2. NCols + chunk_cols - 1 \in Nat
    BY <1>1
  <2>3. NChunks \in Nat /\ NCols + chunk_cols - 1 < (NChunks + 1) * chunk_cols
    BY <1>1, <2>1, <2>2, Division
  <2>4. (NChunks + 1) * chunk_cols = NChunks * chunk_cols + chunk_cols /\ NChunks * chunk_cols \in Nat
    BY <1>1, <2>3
  <2>5. NChunks * NRows \in Nat
    BY <1>1, <2>3
  <2> QED
    BY <1>1, <2>3, <2>4, <2>5 DEF NSeg
<1> QED
  BY <1>2, <1>3

\* The segment of a chunk and a row, numbered as the code does.
LEMMA SegmentNumber ==
  ASSUME CallOK, NEW c \in 0 .. NChunks - 1, NEW j \in 0 .. NRows - 1
  PROVE  SegOf(c, j) \in 0 .. NSeg - 1
<1>1. NChunks \in Nat /\ NSeg = NChunks * NRows /\ NRows \in Nat /\ NSeg \in Nat
  BY ChunkCount, Entries DEF NSeg
<1>2. c * NRows + NRows <= NChunks * NRows
  BY <1>1, Multiples
<1>3. c * NRows \in Nat
  BY <1>1
<1> QED
  BY <1>1, <1>2, <1>3 DEF SegOf

LEMMA SegmentIsUnique ==
  ASSUME CallOK, NEW c \in Nat, NEW d \in Nat, NEW j \in 0 .. NRows - 1, NEW i \in 0 .. NRows - 1
  PROVE  SegOf(c, j) = SegOf(d, i) <=> c = d /\ j = i
<1>1. NRows \in Nat /\ c * NRows \in Nat /\ d * NRows \in Nat
  BY Entries
<1>2. CASE c < d
  BY <1>1, <1>2, Multiples DEF SegOf
<1>3. CASE d < c
  BY <1>1, <1>3, Multiples DEF SegOf
<1>4. CASE c = d
  BY <1>1, <1>4 DEF SegOf
<1> QED
  BY <1>2, <1>3, <1>4

LEMMA ChunkOfEntry ==
  ASSUME CallOK, NEW p \in 1 .. Len(b)
  PROVE  /\ Chunk(b[p]) \in 0 .. NChunks - 1
         /\ \A c \in Nat : Chunk(b[p]) = c <=> /\ b[p].k >= c * chunk_cols
                                              /\ b[p].k < (c + 1) * chunk_cols
         /\ b[p].k - Chunk(b[p]) * chunk_cols \in 0 .. chunk_cols - 1
<1>1. /\ chunk_cols \in Nat \ {0} /\ NCols \in Nat
      /\ b[p].k \in 0 .. NCols - 1 /\ b[p].k \in Nat
  BY Entries
<1>2. PICK k : k = b[p].k
  OBVIOUS
<1>3. PICK q : q = Chunk(b[p])
  OBVIOUS
<1>4. q = k \div chunk_cols
  BY <1>2, <1>3 DEF Chunk
<1>5. q \in Nat /\ q * chunk_cols <= k /\ k < (q + 1) * chunk_cols
  BY <1>1, <1>2, <1>4, Division
<1>6. (q + 1) * chunk_cols = q * chunk_cols + chunk_cols /\ q * chunk_cols \in Nat
  BY <1>1, <1>5
<1>7. q <= NChunks - 1
  <2>1. NChunks \in Nat /\ NCols <= NChunks * chunk_cols
    BY ChunkCount
  <2>2. SUFFICES ASSUME NChunks <= q PROVE FALSE
    BY <1>5, <2>1
  <2>3. NChunks * chunk_cols <= q * chunk_cols
    <3>1. CASE NChunks = q
      BY <1>6, <3>1
    <3>2. CASE NChunks < q
      <4>1. NChunks * chunk_cols + chunk_cols <= q * chunk_cols
        BY <1>1, <1>5, <2>1, <3>2, Multiples
      <4>2. NChunks * chunk_cols \in Nat
        BY <1>1, <2>1
      <4> QED
        BY <1>1, <1>6, <4>1, <4>2
    <3> QED
      BY <1>5, <2>1, <2>2, <3>1, <3>2
  <2>4. NChunks * chunk_cols \in Nat
    BY <1>1, <2>1
  <2> QED
    BY <1>1, <1>2, <1>5, <1>6, <2>1, <2>3, <2>4
<1>8. \A c \in Nat : q = c <=> k >= c * chunk_cols /\ k < (c + 1) * chunk_cols
  <2> SUFFICES ASSUME NEW c \in Nat
               PROVE  q = c <=> k >= c * chunk_cols /\ k < (c + 1) * chunk_cols
    OBVIOUS
  <2>1. k \in Nat /\ c \in Int
    BY <1>1, <1>2
  <2>2. c = k \div chunk_cols <=> c * chunk_cols <= k /\ k < (c + 1) * chunk_cols
    BY <1>1, <2>1, QuotientIsUnique
  <2>3. c * chunk_cols \in Nat
    BY <1>1
  <2> QED
    BY <1>4, <2>1, <2>2, <2>3
<1>9. k - q * chunk_cols \in 0 .. chunk_cols - 1
  BY <1>1, <1>2, <1>5, <1>6
<1> QED
  BY <1>2, <1>3, <1>5, <1>7, <1>8, <1>9, ChunkCount

LEMMA SlotOfEntry ==
  ASSUME CallOK, NEW p \in 1 .. Len(b)
  PROVE  Slot(b[p]) \in 0 .. NSeg - 1
BY ChunkOfEntry, SegmentNumber, Entries DEF Slot

\* The cast to u16 keeps the column.
LEMMA NarrowColumn ==
  ASSUME CallOK, Supports, NEW p \in 1 .. Len(b)
  PROVE  /\ LocalColumn(b[p]) = b[p].k - Chunk(b[p]) * chunk_cols
         /\ LocalColumn(b[p]) \in 0 .. U16Max /\ LocalColumn(b[p]) < chunk_cols
<1>1. PICK x : x = b[p].k - Chunk(b[p]) * chunk_cols
  OBVIOUS
<1>2. x \in 0 .. chunk_cols - 1
  BY <1>1, ChunkOfEntry
<1>3. chunk_cols \in Nat \ {0} /\ U16Max \in Nat
  BY Entries
<1>4. x \in 0 .. U16Max /\ x < chunk_cols
  BY <1>2, <1>3 DEF Supports
<1>5. x % (U16Max + 1) = x
  BY <1>3, <1>4
<1> QED
  BY <1>1, <1>4, <1>5 DEF LocalColumn, Narrow16

-----------------------------------------------------------------------------
(* Counting *)

LEMMA PlacedSteps ==
  ASSUME CallOK, NEW s \in Int
  PROVE  /\ Placed(s, 0) = 0
         /\ \A n \in 0 .. Len(b) : Placed(s, n) \in 0 .. n
         /\ \A n \in 1 .. Len(b) :
              Placed(s, n) = IF Slot(b[n]) = s THEN Placed(s, n - 1) + 1 ELSE Placed(s, n - 1)
<1> DEFINE T(n) == {p \in 1 .. n : Slot(b[p]) = s}
<1>1. Len(b) \in Nat
  BY Entries
<1>2. T(0) = {}
  OBVIOUS
<1>3. Placed(s, 0) = 0
  BY <1>2, FS_EmptySet DEF Placed
<1>4. ASSUME NEW n \in 0 .. Len(b)
      PROVE  IsFiniteSet(T(n)) /\ Placed(s, n) \in 0 .. n
  <2>1. IsFiniteSet(1 .. n) /\ Cardinality(1 .. n) = n
    BY <1>1, FS_Interval
  <2>2. T(n) \in SUBSET (1 .. n)
    OBVIOUS
  <2> HIDE DEF T
  <2>3. IsFiniteSet(T(n)) /\ Cardinality(T(n)) <= n
    BY <2>1, <2>2, FS_Subset
  <2>4. Cardinality(T(n)) \in Nat
    BY <2>3, FS_CardinalityType
  <2> QED
    BY <1>1, <2>3, <2>4 DEF Placed, T
<1>5. ASSUME NEW n \in 1 .. Len(b)
      PROVE  Placed(s, n) = IF Slot(b[n]) = s THEN Placed(s, n - 1) + 1 ELSE Placed(s, n - 1)
  <2>1. IsFiniteSet(T(n - 1))
    BY <1>1, <1>4
  <2>2. T(n) = IF Slot(b[n]) = s THEN T(n - 1) \cup {n} ELSE T(n - 1)
    BY <1>1
  <2>3. n \notin T(n - 1)
    BY <1>1
  <2> HIDE DEF T
  <2>4. Cardinality(T(n - 1) \cup {n}) = Cardinality(T(n - 1)) + 1
    BY <2>1, <2>3, FS_AddElement
  <2>5. Placed(s, n) = Cardinality(T(n)) /\ Placed(s, n - 1) = Cardinality(T(n - 1))
    BY DEF Placed, T
  <2> QED
    BY <2>2, <2>4, <2>5
<1> QED
  BY <1>3, <1>4, <1>5

LEMMA PlacedGrows ==
  ASSUME CallOK, NEW s \in Int, NEW m \in 0 .. Len(b), NEW n \in 0 .. Len(b), m <= n
  PROVE  Placed(s, m) <= Placed(s, n)
<1>1. Len(b) \in Nat
  BY Entries
<1>2. \A i \in 0 .. Len(b) : Placed(s, i) \in Int
  BY PlacedSteps
<1> DEFINE S == {i \in Nat : i \in m .. Len(b) => Placed(s, m) <= Placed(s, i)}
<1>3. 0 \in S
  BY <1>2
<1>4. ASSUME NEW i \in Nat, i \in S PROVE i + 1 \in S
  <2> SUFFICES ASSUME i + 1 \in m .. Len(b) PROVE Placed(s, m) <= Placed(s, i + 1)
    OBVIOUS
  <2>1. CASE m = i + 1
    BY <1>2, <2>1
  <2>2. CASE m # i + 1
    <3>1. i \in m .. Len(b) /\ i + 1 \in 1 .. Len(b) /\ (i + 1) - 1 = i
      BY <1>1, <2>2
    <3>2. Placed(s, m) <= Placed(s, i)
      BY <1>4, <3>1
    <3>3. Placed(s, i + 1) = Placed(s, i) \/ Placed(s, i + 1) = Placed(s, i) + 1
      BY <3>1, PlacedSteps
    <3>4. Placed(s, i) \in Int /\ Placed(s, m) \in Int
      BY <1>1, <1>2, <3>1
    <3> QED
      BY <3>2, <3>3, <3>4
  <2> QED
    BY <2>1, <2>2
<1> HIDE DEF S
<1>5. n \in S
  BY <1>1, <1>3, <1>4, Induction
<1> QED
  BY <1>1, <1>5 DEF S

\* Every count up to the last is the count before some entry of the segment.
LEMMA CountsAreMet ==
  ASSUME CallOK, NEW s \in Int, NEW q \in Nat, q < Placed(s, Len(b))
  PROVE  \E p \in 1 .. Len(b) : Slot(b[p]) = s /\ Placed(s, p - 1) = q
<1>1. Len(b) \in Nat
  BY Entries
<1> DEFINE S == {n \in Nat : n <= Len(b) /\ q < Placed(s, n) =>
                               \E p \in 1 .. n : Slot(b[p]) = s /\ Placed(s, p - 1) = q}
<1>2. 0 \in S
  BY PlacedSteps
<1>3. ASSUME NEW n \in Nat, n \in S PROVE n + 1 \in S
  <2> SUFFICES ASSUME n + 1 <= Len(b), q < Placed(s, n + 1)
               PROVE  \E p \in 1 .. n + 1 : Slot(b[p]) = s /\ Placed(s, p - 1) = q
    OBVIOUS
  <2>1. n + 1 \in 1 .. Len(b) /\ (n + 1) - 1 = n /\ n \in 0 .. Len(b)
    BY <1>1
  <2>2. Placed(s, n) \in Int
    BY <2>1, PlacedSteps
  <2>3. CASE q < Placed(s, n)
    BY <1>3, <2>1, <2>3
  <2>4. CASE ~ (q < Placed(s, n))
    <3>1. Slot(b[n + 1]) = s /\ Placed(s, n + 1) = Placed(s, n) + 1
      BY <2>1, <2>4, PlacedSteps
    <3>2. Placed(s, n) = q
      BY <2>2, <2>4, <3>1
    <3> QED
      BY <2>1, <3>1, <3>2
  <2> QED
    BY <2>3, <2>4
<1> HIDE DEF S
<1>4. Len(b) \in S
  BY <1>1, <1>2, <1>3, Induction
<1> QED
  BY <1>1, <1>4 DEF S

LEMMA BelowSteps ==
  ASSUME CallOK
  PROVE  /\ Below(0) = 0
         /\ Below(NSeg) = Len(b)
         /\ \A s \in 0 .. NSeg : Below(s) \in 0 .. Len(b)
         /\ \A s \in 0 .. NSeg - 1 : Below(s + 1) = Below(s) + Placed(s, Len(b))
<1> DEFINE All == 1 .. Len(b)
           Low(s) == {p \in All : Slot(b[p]) < s}
           Held(s) == {p \in All : Slot(b[p]) = s}
<1>1. Len(b) \in Nat /\ NSeg \in Nat
  BY Entries, ChunkCount
<1>2. \A p \in All : Slot(b[p]) \in 0 .. NSeg - 1
  BY SlotOfEntry
<1>3. IsFiniteSet(All) /\ Cardinality(All) = Len(b)
  <2>1. PICK n \in Nat : n = Len(b)
    BY <1>1
  <2>2. IsFiniteSet(1 .. n) /\ Cardinality(1 .. n) = n
    BY FS_Interval
  <2> QED
    BY <2>1, <2>2
<1>4. Low(0) = {} /\ Low(NSeg) = All
  BY <1>1, <1>2
<1>5. \A s : Below(s) = Cardinality(Low(s)) /\ Placed(s, Len(b)) = Cardinality(Held(s))
  BY DEF Below, Placed
<1>6. \A s : Low(s) \in SUBSET All /\ Held(s) \in SUBSET All
  OBVIOUS
<1>7. \A s \in 0 .. NSeg - 1 : Low(s + 1) = Low(s) \cup Held(s) /\ Low(s) \cap Held(s) = {}
  BY <1>1, <1>2
<1> HIDE DEF All, Low, Held
<1>8. Below(0) = 0 /\ Below(NSeg) = Len(b)
  BY <1>3, <1>4, <1>5, FS_EmptySet
<1>9. \A s : IsFiniteSet(Low(s)) /\ IsFiniteSet(Held(s)) /\ Cardinality(Low(s)) \in 0 .. Len(b)
             /\ Cardinality(Held(s)) \in Nat
  <2> SUFFICES ASSUME NEW s
               PROVE  IsFiniteSet(Low(s)) /\ IsFiniteSet(Held(s)) /\ Cardinality(Low(s)) \in 0 .. Len(b)
                      /\ Cardinality(Held(s)) \in Nat
    OBVIOUS
  <2>1. IsFiniteSet(Low(s)) /\ Cardinality(Low(s)) <= Len(b) /\ IsFiniteSet(Held(s))
    BY <1>3, <1>6, FS_Subset
  <2>2. Cardinality(Low(s)) \in Nat /\ Cardinality(Held(s)) \in Nat
    BY <2>1, FS_CardinalityType
  <2> QED
    BY <1>1, <2>1, <2>2
<1>10. ASSUME NEW s \in 0 .. NSeg - 1
       PROVE  Below(s + 1) = Below(s) + Placed(s, Len(b))
  <2>1. Cardinality(Low(s) \cup Held(s)) = Cardinality(Low(s)) + Cardinality(Held(s)) - Cardinality(Low(s) \cap Held(s))
    BY <1>9, FS_Union
  <2>2. Cardinality(Low(s) \cap Held(s)) = 0
    BY <1>7, FS_EmptySet
  <2>3. Cardinality(Low(s)) \in Int /\ Cardinality(Held(s)) \in Int
    BY <1>9
  <2>4. Cardinality(Low(s) \cup Held(s)) = Cardinality(Low(s)) + Cardinality(Held(s))
    BY <2>1, <2>2, <2>3
  <2>5. Low(s + 1) = Low(s) \cup Held(s)
    BY <1>7
  <2>6. Below(s + 1) = Cardinality(Low(s + 1)) /\ Below(s) = Cardinality(Low(s))
        /\ Placed(s, Len(b)) = Cardinality(Held(s))
    BY <1>5
  <2> QED
    BY <2>4, <2>5, <2>6
<1> QED
  BY <1>5, <1>8, <1>9, <1>10

LEMMA BelowGrows ==
  ASSUME CallOK, NEW s \in 0 .. NSeg, NEW t \in 0 .. NSeg, s <= t
  PROVE  Below(s) <= Below(t)
<1>1. Len(b) \in Nat /\ NSeg \in Nat
  BY Entries, ChunkCount
<1>2. {p \in 1 .. Len(b) : Slot(b[p]) < s} \in SUBSET {p \in 1 .. Len(b) : Slot(b[p]) < t}
  BY SlotOfEntry, <1>1
<1>3. IsFiniteSet(1 .. Len(b))
  BY <1>1, FS_Interval
<1>4. IsFiniteSet({p \in 1 .. Len(b) : Slot(b[p]) < t})
  BY <1>3, FS_Subset
<1> QED
  BY <1>2, <1>4, FS_Subset DEF Below

-----------------------------------------------------------------------------
(* Places *)

\* The place of an entry lies in its segment.
LEMMA GoalInSegment ==
  ASSUME CallOK, NEW p \in 1 .. Len(b)
  PROVE  /\ Below(Slot(b[p])) <= Goal(p) /\ Goal(p) < Below(Slot(b[p]) + 1)
         /\ Goal(p) \in 0 .. Len(b) - 1
<1>1. PICK s : s = Slot(b[p])
  OBVIOUS
<1>2. Len(b) \in Nat /\ NSeg \in Nat /\ s \in 0 .. NSeg - 1 /\ s \in Int
  BY <1>1, Entries, ChunkCount, SlotOfEntry
<1>3. PICK before, after, all : before = Placed(s, p - 1) /\ after = Placed(s, p)
                                /\ all = Placed(s, Len(b))
  OBVIOUS
<1>4. PICK lo, hi : lo = Below(s) /\ hi = Below(s + 1)
  OBVIOUS
<1>5. p - 1 \in 0 .. Len(b) /\ p \in 0 .. Len(b) /\ Len(b) \in 0 .. Len(b)
  BY <1>2
<1>6. before \in Nat /\ all \in Nat
  <2>1. Placed(s, p - 1) \in 0 .. p - 1 /\ Placed(s, Len(b)) \in 0 .. Len(b)
    BY <1>2, <1>5, PlacedSteps
  <2> QED
    BY <1>3, <2>1
<1>7. after = before + 1
  BY <1>1, <1>2, <1>3, PlacedSteps
<1>8. after <= all
  BY <1>2, <1>3, <1>5, PlacedGrows
<1>9. hi = lo + all
  BY <1>2, <1>3, <1>4, BelowSteps
<1>10. lo \in 0 .. Len(b) /\ hi \in 0 .. Len(b)
  <2>1. s \in 0 .. NSeg /\ s + 1 \in 0 .. NSeg
    BY <1>2
  <2> QED
    BY <1>4, <2>1, BelowSteps
<1>11. PICK goal : goal = Goal(p)
  OBVIOUS
<1>12. goal = lo + before
  BY <1>1, <1>3, <1>4, <1>11 DEF Goal
<1>13. lo <= goal /\ goal < hi /\ goal \in 0 .. Len(b) - 1
  BY <1>2, <1>6, <1>7, <1>8, <1>9, <1>10, <1>12
<1> QED
  BY <1>1, <1>4, <1>11, <1>13

\* Different entries have different places.
LEMMA GoalsDiffer ==
  ASSUME CallOK, NEW p \in 1 .. Len(b), NEW q \in 1 .. Len(b), p < q
  PROVE  /\ Goal(p) # Goal(q)
         /\ Slot(b[p]) = Slot(b[q]) => Goal(p) < Goal(q)
<1>1. PICK s, t : s = Slot(b[p]) /\ t = Slot(b[q])
  OBVIOUS
<1>2. PICK gp, gq : gp = Goal(p) /\ gq = Goal(q)
  OBVIOUS
<1>3. /\ Len(b) \in Nat /\ NSeg \in Nat /\ s \in 0 .. NSeg - 1 /\ t \in 0 .. NSeg - 1
      /\ s \in Int /\ t \in Int
  <2>1. Len(b) \in Nat /\ NSeg \in Nat
    BY Entries, ChunkCount
  <2>2. Slot(b[p]) \in 0 .. NSeg - 1
    BY SlotOfEntry
  <2>3. Slot(b[q]) \in 0 .. NSeg - 1
    BY SlotOfEntry
  <2> QED
    BY <1>1, <2>1, <2>2, <2>3
<1>4. PICK slo, shi, tlo, thi : /\ slo = Below(s) /\ shi = Below(s + 1)
                                /\ tlo = Below(t) /\ thi = Below(t + 1)
  OBVIOUS
<1>5. gp \in 0 .. Len(b) - 1 /\ slo <= gp /\ gp < shi
  BY <1>1, <1>2, <1>4, GoalInSegment
<1>6. gq \in 0 .. Len(b) - 1 /\ tlo <= gq /\ gq < thi
  BY <1>1, <1>2, <1>4, GoalInSegment
<1>7. slo \in Int /\ shi \in Int /\ tlo \in Int /\ thi \in Int
  <2>1. s \in 0 .. NSeg /\ s + 1 \in 0 .. NSeg /\ t \in 0 .. NSeg /\ t + 1 \in 0 .. NSeg
    BY <1>3
  <2>2. \A r \in 0 .. NSeg : Below(r) \in 0 .. Len(b)
    BY BelowSteps
  <2> QED
    BY <1>4, <2>1, <2>2
<1>8. CASE s < t
  <2>1. shi <= tlo
    BY <1>3, <1>4, <1>8, BelowGrows
  <2>2. gp < gq
    BY <1>3, <1>5, <1>6, <1>7, <2>1
  <2> QED
    BY <1>2, <1>3, <1>5, <1>6, <2>2
<1>9. CASE t < s
  <2>1. thi <= slo
    BY <1>3, <1>4, <1>9, BelowGrows
  <2>2. gq < gp
    BY <1>3, <1>5, <1>6, <1>7, <2>1
  <2>3. s # t
    BY <1>3, <1>9
  <2> QED
    BY <1>1, <1>2, <1>3, <1>5, <1>6, <2>2, <2>3
<1>10. CASE s = t
  <2>1. PICK before, upto, until : before = Placed(s, p - 1) /\ upto = Placed(s, p)
                                   /\ until = Placed(s, q - 1)
    OBVIOUS
  <2>2. p \in 0 .. Len(b) /\ p - 1 \in 0 .. Len(b) /\ q - 1 \in 0 .. Len(b) /\ p <= q - 1
    BY <1>3
  <2>3. upto <= until
    BY <1>3, <2>1, <2>2, PlacedGrows
  <2>4. upto = before + 1
    BY <1>1, <1>3, <2>1, PlacedSteps
  <2>5. before \in Int /\ until \in Int
    <3>1. Placed(s, p - 1) \in 0 .. p - 1 /\ Placed(s, q - 1) \in 0 .. q - 1
      BY <1>3, <2>2, PlacedSteps
    <3> QED
      BY <2>1, <3>1
  <2>6. gp = slo + before /\ gq = slo + until
    BY <1>1, <1>2, <1>4, <1>10, <2>1 DEF Goal
  <2>7. gp < gq
    BY <1>7, <2>3, <2>4, <2>5, <2>6
  <2> QED
    BY <1>2, <1>3, <1>5, <1>6, <2>7
<1> QED
  BY <1>3, <1>8, <1>9, <1>10

\* Every position of a segment is the place of an entry of it.
LEMMA PositionsAreGoals ==
  ASSUME CallOK, NEW s \in 0 .. NSeg - 1, NEW pos \in Int,
         Below(s) <= pos, pos < Below(s + 1)
  PROVE  \E p \in 1 .. Len(b) : Slot(b[p]) = s /\ Goal(p) = pos
<1>1. Len(b) \in Nat /\ NSeg \in Nat
  BY Entries, ChunkCount
<1>2. Below(s) \in Int /\ Below(s + 1) = Below(s) + Placed(s, Len(b)) /\ Placed(s, Len(b)) \in Int
  BY <1>1, BelowSteps, PlacedSteps
<1>3. PICK q : q = pos - Below(s)
  OBVIOUS
<1>4. q \in Nat /\ q < Placed(s, Len(b))
  BY <1>2, <1>3
<1>5. PICK p \in 1 .. Len(b) : Slot(b[p]) = s /\ Placed(s, p - 1) = q
  BY <1>4, CountsAreMet
<1>6. Goal(p) = pos
  BY <1>2, <1>3, <1>5 DEF Goal
<1> QED
  BY <1>5, <1>6

\* A write position lies in its segment, or just behind it.
LEMMA PositionInSegment ==
  ASSUME CallOK, NEW s \in 0 .. NSeg - 1, NEW n \in 0 .. Len(b)
  PROVE  /\ Below(s) + Placed(s, n) <= Below(s + 1)
         /\ Below(s) + Placed(s, n) \in 0 .. Len(b)
<1>1. Len(b) \in Nat /\ NSeg \in Nat /\ s \in Int /\ s \in 0 .. NSeg /\ s + 1 \in 0 .. NSeg
      /\ Len(b) \in 0 .. Len(b) /\ n <= Len(b)
  BY Entries, ChunkCount
<1>2. PICK lo, hi, upto, all : /\ lo = Below(s) /\ hi = Below(s + 1)
                               /\ upto = Placed(s, n) /\ all = Placed(s, Len(b))
  OBVIOUS
<1>3. upto <= all
  BY <1>1, <1>2, PlacedGrows
<1>4. upto \in 0 .. n /\ all \in 0 .. Len(b)
  BY <1>1, <1>2, PlacedSteps
<1>5. lo \in 0 .. Len(b) /\ hi \in 0 .. Len(b)
  BY <1>1, <1>2, BelowSteps
<1>6. hi = lo + all
  BY <1>2, BelowSteps
<1>7. lo + upto <= hi /\ lo + upto \in 0 .. Len(b)
  BY <1>1, <1>3, <1>4, <1>5, <1>6
<1> QED
  BY <1>2, <1>7

-----------------------------------------------------------------------------
(* The prefix sum *)

LEMMA StartsAreBelow ==
  ASSUME CallOK, Supports, pc = "count", at = Len(b) + 1, CountsOK
  PROVE  Starts = [s \in 0 .. NSeg |-> Below(s)]
<1> DEFINE Sums(f) == f = [s \in 0 .. NSeg |-> IF s = 0 THEN seg_ptr[0]
                                               ELSE Narrow32(f[s - 1] + seg_ptr[s])]
           starts == CHOOSE f : Sums(f)
           below == [s \in 0 .. NSeg |-> Below(s)]
<1>1. Len(b) \in Nat /\ NSeg \in Nat /\ U32Max \in Nat /\ Len(b) <= U32Max
  BY Entries, ChunkCount DEF Supports
<1>2. seg_ptr[0] = 0 /\ \A s \in 0 .. NSeg - 1 : seg_ptr[s + 1] = Placed(s, Len(b))
  <2>1. at - 1 = Len(b)
    BY <1>1
  <2> QED
    BY <2>1 DEF CountsOK
<1>3. ASSUME NEW s \in 1 .. NSeg
      PROVE  Below(s) = Narrow32(Below(s - 1) + seg_ptr[s])
  <2>1. s - 1 \in 0 .. NSeg - 1 /\ (s - 1) + 1 = s /\ s \in 0 .. NSeg
    BY <1>1
  <2>2. Below(s) = Below(s - 1) + Placed(s - 1, Len(b))
    BY <2>1, BelowSteps
  <2>3. seg_ptr[s] = Placed(s - 1, Len(b))
    BY <1>2, <2>1
  <2>4. Below(s) \in 0 .. Len(b)
    BY <2>1, BelowSteps
  <2>5. PICK x : x = Below(s)
    OBVIOUS
  <2>6. x % (U32Max + 1) = x
    BY <1>1, <2>4, <2>5
  <2> QED
    BY <2>2, <2>3, <2>5, <2>6 DEF Narrow32
<1>4. Sums(below)
  <2>1. ASSUME NEW s \in 0 .. NSeg
        PROVE  Below(s) = IF s = 0 THEN seg_ptr[0] ELSE Narrow32(below[s - 1] + seg_ptr[s])
    <3>1. CASE s = 0
      BY <1>2, <3>1, BelowSteps
    <3>2. CASE s # 0
      <4>1. s \in 1 .. NSeg /\ s - 1 \in 0 .. NSeg
        BY <1>1, <3>2
      <4>2. below[s - 1] = Below(s - 1)
        BY <4>1
      <4> HIDE DEF below
      <4> QED
        BY <1>3, <3>2, <4>1, <4>2
    <3> QED
      BY <3>1, <3>2
  <2> QED
    BY <2>1
<1>5. Sums(starts)
  BY <1>4
<1>6. Starts = starts
  BY DEF Starts
<1> HIDE DEF starts, below
<1>7. DOMAIN starts = 0 .. NSeg /\ DOMAIN below = 0 .. NSeg
  BY <1>4, <1>5
<1>8. \A s \in 0 .. NSeg : starts[s] = below[s]
  <2> DEFINE S == {s \in Nat : s <= NSeg => starts[s] = below[s]}
  <2>1. 0 \in S
    BY <1>1, <1>4, <1>5
  <2>2. ASSUME NEW s \in Nat, s \in S PROVE s + 1 \in S
    <3> SUFFICES ASSUME s + 1 <= NSeg PROVE starts[s + 1] = below[s + 1]
      OBVIOUS
    <3>1. s + 1 \in 0 .. NSeg /\ s + 1 # 0 /\ (s + 1) - 1 = s /\ starts[s] = below[s]
      BY <1>1, <2>2
    <3>2. PICK n : n = s + 1
      OBVIOUS
    <3>3. starts[n] = Narrow32(starts[n - 1] + seg_ptr[n])
      BY <1>5, <3>1, <3>2
    <3>4. below[n] = Narrow32(below[n - 1] + seg_ptr[n])
      BY <1>4, <3>1, <3>2
    <3> QED
      BY <3>1, <3>2, <3>3, <3>4
  <2> HIDE DEF S
  <2>3. \A s \in Nat : s \in S
    BY <2>1, <2>2, Induction
  <2> QED
    BY <1>1, <2>3 DEF S
<1>9. starts = below
  BY <1>4, <1>5, <1>7, <1>8
<1> QED
  BY <1>6, <1>9 DEF below

-----------------------------------------------------------------------------
(* The invariant *)

LEMMA CallStays ==
  ASSUME UNCHANGED call
  PROVE  /\ NSeg' = NSeg /\ Supports' = Supports
         /\ \A s, n : Placed(s, n)' = Placed(s, n)
         /\ \A s : Below(s)' = Below(s)
         /\ \A p : Goal(p)' = Goal(p)
         /\ \A p : Chunk(b[p])' = Chunk(b[p]) /\ (b[p].k)' = b[p].k
BY DEF call, NSeg, NChunks, Supports, Placed, Below, Goal, Slot, SegOf, Chunk, CeilDiv

LEMMA InitInv == Init => TInv
BY DEF Init, TInv, CallOK, NothingBuilt, CountsOK, PositionsOK, PlacesOK, Ends

LEMMA FallBackInv == TInv /\ FallBack => TInv'
<1> SUFFICES ASSUME TInv, FallBack PROVE TInv'
  OBVIOUS
<1> QED
  BY DEF FallBack, call, TInv, CallOK, NothingBuilt, CountsOK, PositionsOK, PlacesOK, Ends

LEMMA BuildInv == TInv /\ Build => TInv'
<1> SUFFICES ASSUME TInv, Build PROVE TInv'
  OBVIOUS
<1> USE DEF TInv
<1>1. UNCHANGED call /\ CallOK /\ Supports /\ Len(b) \in Nat /\ U32Max \in Nat
  BY Entries DEF Build
<1>2. CallOK'
  BY <1>1, CallStays DEF Build, CallOK, call
<1>3. NothingBuilt'
  BY DEF Build, NothingBuilt
<1>4. CountsOK'
  <2>1. \A s \in 0 .. NSeg - 1 : Placed(s, 0) = 0
    BY <1>1, PlacedSteps
  <2>2. NSeg \in Nat /\ seg_ptr' = [s \in 0 .. NSeg |-> 0] /\ at' = 1
    BY <1>1, ChunkCount DEF Build
  <2>3. \A s \in 0 .. NSeg - 1 : seg_ptr'[s + 1] = Placed(s, at' - 1)
    BY <2>1, <2>2
  <2> QED
    BY <1>1, <2>2, <2>3, CallStays DEF CountsOK
<1> QED
  BY <1>2, <1>3, <1>4 DEF Build, PositionsOK, PlacesOK, Ends

LEMMA CountInv == TInv /\ Count => TInv'
<1> SUFFICES ASSUME TInv, Count PROVE TInv'
  OBVIOUS
<1> USE DEF TInv
<1>1. /\ UNCHANGED call /\ CallOK /\ Supports /\ Len(b) \in Nat /\ NSeg \in Nat /\ U32Max \in Nat
      /\ Len(b) <= U32Max /\ at \in 1 .. Len(b) /\ pc = "count" /\ pc' = "count" /\ at' = at + 1
  BY Entries, ChunkCount DEF Count, CallOK, Supports
<1>2. CallOK'
  BY <1>1, CallStays DEF CallOK, call
<1>3. NothingBuilt'
  BY <1>1 DEF Count, NothingBuilt
<1>4. CountsOK'
  <2>1. PICK n : n = Slot(b[at])
    OBVIOUS
  <2>2. n \in 0 .. NSeg - 1 /\ n \in Int
    BY <1>1, <2>1, SlotOfEntry
  <2>3. seg_ptr' = [seg_ptr EXCEPT ![n + 1] = Narrow32(seg_ptr[n + 1] + 1)]
    BY <2>1 DEF Count, Counter
  <2>4. /\ seg_ptr \in [0 .. NSeg -> 0 .. U32Max] /\ seg_ptr[0] = 0
        /\ \A s \in 0 .. NSeg - 1 : seg_ptr[s + 1] = Placed(s, at - 1)
    BY <1>1 DEF CountsOK
  <2>5. ASSUME NEW s \in 0 .. NSeg - 1
        PROVE  Placed(s, at) = IF s = n THEN Placed(s, at - 1) + 1 ELSE Placed(s, at - 1)
    BY <1>1, <2>1, PlacedSteps
  <2>6. ASSUME NEW s \in 0 .. NSeg - 1
        PROVE  seg_ptr'[s + 1] = Placed(s, at)
    <3>1. s + 1 \in 0 .. NSeg
      BY <1>1
    <3>2. CASE s # n
      BY <2>2, <2>3, <2>4, <2>5, <3>1, <3>2
    <3>3. CASE s = n
      <4>1. PICK x : x = seg_ptr[s + 1]
        OBVIOUS
      <4>2. x = Placed(s, at - 1)
        BY <2>4, <4>1
      <4>3. x \in 0 .. at - 1
        <5>1. at - 1 \in 0 .. Len(b) /\ s \in Int
          BY <1>1
        <5> QED
          BY <4>2, <5>1, <1>1, PlacedSteps
      <4>4. (x + 1) % (U32Max + 1) = x + 1
        BY <1>1, <4>3
      <4>5. seg_ptr'[s + 1] = x + 1
        BY <2>3, <2>4, <3>1, <3>3, <4>1, <4>4 DEF Narrow32
      <4> QED
        BY <2>5, <3>3, <4>2, <4>5
    <3> QED
      BY <3>2, <3>3
  <2>7. seg_ptr' \in [0 .. NSeg -> 0 .. U32Max]
    <3>1. \A x \in Nat : Narrow32(x) \in 0 .. U32Max
      BY <1>1 DEF Narrow32
    <3>2. seg_ptr[n + 1] + 1 \in Nat
      BY <1>1, <2>2, <2>4
    <3> QED
      BY <2>3, <2>4, <3>1, <3>2
  <2>8. seg_ptr'[0] = 0
    BY <1>1, <2>2, <2>3, <2>4
  <2>9. at' - 1 = at
    BY <1>1
  <2> QED
    BY <1>1, <2>6, <2>7, <2>8, <2>9, CallStays DEF CountsOK
<1> QED
  BY <1>1, <1>2, <1>3, <1>4 DEF PositionsOK, PlacesOK, Ends

LEMMA PrefixInv == TInv /\ Prefix => TInv'
<1> SUFFICES ASSUME TInv, Prefix PROVE TInv'
  OBVIOUS
<1> USE DEF TInv
<1>1. /\ UNCHANGED call /\ CallOK /\ Supports /\ Len(b) \in Nat /\ NSeg \in Nat /\ U32Max \in Nat
      /\ at = Len(b) + 1 /\ pc = "count" /\ pc' = "place" /\ at' = 1
      /\ chunk_cols \in Nat \ {0} /\ U16Max \in Nat
  <2>1. CallOK /\ Len(b) \in Nat /\ NSeg \in Nat /\ U32Max \in Nat
        /\ chunk_cols \in Nat \ {0} /\ U16Max \in Nat
    BY Entries, ChunkCount
  <2>2. UNCHANGED call /\ pc = "count" /\ pc' = "place" /\ at' = 1 /\ at > Len(b)
    BY DEF Prefix
  <2>3. Supports /\ at \in 1 .. Len(b) + 1
    BY <2>1, <2>2 DEF CallOK
  <2> QED
    BY <2>1, <2>2, <2>3
<1>2. CallOK'
  BY <1>1, CallStays DEF CallOK, call
<1>3. NothingBuilt'
  BY <1>1 DEF NothingBuilt
<1>4. Starts = [s \in 0 .. NSeg |-> Below(s)]
  BY <1>1, StartsAreBelow
<1>5. PositionsOK'
  <2>1. seg_ptr' = [s \in 0 .. NSeg |-> Below(s)]
    BY <1>4 DEF Prefix
  <2>2. cur' = [s \in 0 .. NSeg - 1 |-> Below(s) + Placed(s, at' - 1)]
    <3>1. cur' = [s \in 0 .. NSeg - 1 |-> Starts[s]] /\ at' - 1 = 0
      BY <1>1 DEF Prefix
    <3>2. ASSUME NEW s \in 0 .. NSeg - 1
          PROVE  Starts[s] = Below(s) + Placed(s, 0)
      <4>1. s \in 0 .. NSeg /\ s \in Int
        BY <1>1
      <4>2. Placed(s, 0) = 0 /\ Below(s) \in 0 .. Len(b)
        BY <1>1, <4>1, PlacedSteps, BelowSteps
      <4> QED
        BY <1>4, <4>1, <4>2
    <3> QED
      BY <3>1, <3>2
  <2> QED
    BY <1>1, <2>1, <2>2, CallStays DEF PositionsOK
<1>6. PlacesOK'
  <2>1. idx' \in [0 .. Len(b) - 1 -> 0 .. U16Max] /\ data' \in [0 .. Len(b) - 1 -> 0 .. Len(b)]
        /\ \A q \in 0 .. Len(b) - 1 : idx'[q] < chunk_cols
    BY <1>1 DEF Prefix
  <2>2. 1 .. at' - 1 = {}
    BY <1>1
  <2> QED
    BY <1>1, <2>1, <2>2 DEF PlacesOK, call
<1> QED
  BY <1>1, <1>2, <1>3, <1>5, <1>6 DEF CountsOK, Ends

LEMMA PlaceInv == TInv /\ Place => TInv'
<1> SUFFICES ASSUME TInv, Place PROVE TInv'
  OBVIOUS
<1> USE DEF TInv
<1>1. /\ UNCHANGED call /\ CallOK /\ Supports /\ Len(b) \in Nat /\ NSeg \in Nat /\ U32Max \in Nat
      /\ Len(b) <= U32Max /\ U16Max \in Nat /\ chunk_cols \in Nat \ {0}
      /\ at \in 1 .. Len(b) /\ pc = "place" /\ pc' = "place" /\ at' = at + 1
  BY Entries, ChunkCount DEF Place, CallOK, Supports
<1>2. CallOK'
  BY <1>1, CallStays DEF CallOK, call
<1>3. PICK n : n = Slot(b[at])
  OBVIOUS
<1>4. n \in 0 .. NSeg - 1 /\ n \in Int
  BY <1>1, <1>3, SlotOfEntry
<1>5. cur = [s \in 0 .. NSeg - 1 |-> Below(s) + Placed(s, at - 1)]
  BY <1>1 DEF PositionsOK
<1>6. cur[n] = Goal(at)
  BY <1>3, <1>4, <1>5 DEF Goal
<1>7. Goal(at) \in 0 .. Len(b) - 1
  BY <1>1, GoalInSegment
<1>8. PositionsOK'
  <2>1. seg_ptr' = [s \in 0 .. NSeg |-> Below(s)]
    BY <1>1 DEF PositionsOK, Place
  <2>2. cur' = [cur EXCEPT ![n] = Narrow32(Goal(at) + 1)]
    BY <1>3, <1>6 DEF Place
  <2>3. Narrow32(Goal(at) + 1) = Goal(at) + 1
    <3>1. PICK x : x = Goal(at)
      OBVIOUS
    <3>2. (x + 1) % (U32Max + 1) = x + 1
      BY <1>1, <1>7, <3>1
    <3> QED
      BY <3>1, <3>2 DEF Narrow32
  <2>4. ASSUME NEW s \in 0 .. NSeg - 1
        PROVE  cur'[s] = Below(s) + Placed(s, at)
    <3>1. s \in Int /\ s \in 0 .. NSeg /\ at - 1 \in 0 .. Len(b)
      BY <1>1
    <3>2. Placed(s, at) = IF n = s THEN Placed(s, at - 1) + 1 ELSE Placed(s, at - 1)
      BY <1>1, <1>3, <3>1, PlacedSteps
    <3>3. CASE s # n
      BY <1>5, <2>2, <3>2, <3>3
    <3>4. CASE s = n
      <4>1. PICK x, y : x = Below(s) /\ y = Placed(s, at - 1)
        OBVIOUS
      <4>2. x \in Int /\ y \in Int
        <5>1. Below(s) \in 0 .. Len(b) /\ Placed(s, at - 1) \in 0 .. at - 1
          BY <3>1, <1>1, PlacedSteps, BelowSteps
        <5> QED
          BY <1>1, <4>1, <5>1
      <4>3. cur'[s] = (x + y) + 1
        BY <1>5, <1>6, <2>2, <2>3, <3>4, <4>1
      <4> QED
        BY <3>2, <3>4, <4>1, <4>2, <4>3
    <3> QED
      BY <3>3, <3>4
  <2>5. cur' = [s \in 0 .. NSeg - 1 |-> Below(s) + Placed(s, at' - 1)]
    <3>1. at' - 1 = at
      BY <1>1
    <3>2. cur' = [s \in 0 .. NSeg - 1 |-> cur'[s]]
      BY <1>5, <2>2
    <3> QED
      BY <2>4, <3>1, <3>2
  <2> QED
    BY <1>1, <2>1, <2>5, CallStays DEF PositionsOK
<1>9. PlacesOK'
  <2>1. /\ idx \in [0 .. Len(b) - 1 -> 0 .. U16Max]
        /\ \A q \in 0 .. Len(b) - 1 : idx[q] < chunk_cols
        /\ data \in [0 .. Len(b) - 1 -> 0 .. Len(b)]
        /\ \A p \in 1 .. at - 1 :
             data[Goal(p)] = p /\ idx[Goal(p)] = b[p].k - Chunk(b[p]) * chunk_cols
    BY <1>1 DEF PlacesOK
  <2>2. /\ idx' = [idx EXCEPT ![Goal(at)] = LocalColumn(b[at])]
        /\ data' = [data EXCEPT ![Goal(at)] = at]
    BY <1>3, <1>6 DEF Place
  <2>3. /\ LocalColumn(b[at]) = b[at].k - Chunk(b[at]) * chunk_cols
        /\ LocalColumn(b[at]) \in 0 .. U16Max /\ LocalColumn(b[at]) < chunk_cols
    BY <1>1, NarrowColumn
  <2>4. idx' \in [0 .. Len(b) - 1 -> 0 .. U16Max] /\ data' \in [0 .. Len(b) - 1 -> 0 .. Len(b)]
    <3>1. PICK g, x : g = Goal(at) /\ x = LocalColumn(b[at])
      OBVIOUS
    <3>2. x \in 0 .. U16Max /\ at \in 0 .. Len(b)
      BY <1>1, <2>3, <3>1
    <3>3. idx' = [idx EXCEPT ![g] = x] /\ data' = [data EXCEPT ![g] = at]
      BY <2>2, <3>1
    <3>4. idx' \in [0 .. Len(b) - 1 -> 0 .. U16Max]
      BY <2>1, <3>2, <3>3
    <3>5. data' \in [0 .. Len(b) - 1 -> 0 .. Len(b)]
      BY <2>1, <3>2, <3>3
    <3> QED
      BY <3>4, <3>5
  <2>5. \A q \in 0 .. Len(b) - 1 : idx'[q] < chunk_cols
    BY <2>1, <2>2, <2>3
  <2>6. ASSUME NEW p \in 1 .. at' - 1
        PROVE  data'[Goal(p)] = p /\ idx'[Goal(p)] = b[p].k - Chunk(b[p]) * chunk_cols
    <3>1. CASE p = at
      BY <1>7, <2>1, <2>2, <2>3, <3>1
    <3>2. CASE p # at
      <4>1. p \in 1 .. at - 1 /\ p \in 1 .. Len(b) /\ p < at
        BY <1>1, <3>2
      <4>2. Goal(p) # Goal(at) /\ Goal(p) \in 0 .. Len(b) - 1
        BY <1>1, <4>1, GoalsDiffer, GoalInSegment
      <4> QED
        BY <2>1, <2>2, <4>1, <4>2
    <3> QED
      BY <3>1, <3>2
  <2>7. b' = b /\ chunk_cols' = chunk_cols
    BY <1>1 DEF call
  <2>8. \A p : Goal(p)' = Goal(p) /\ Chunk(b[p])' = Chunk(b[p])
    BY <1>1, CallStays
  <2> QED
    BY <1>1, <2>4, <2>5, <2>6, <2>7, <2>8 DEF PlacesOK
<1> QED
  BY <1>1, <1>2, <1>8, <1>9 DEF NothingBuilt, CountsOK, Ends

LEMMA FinishInv == TInv /\ Finish => TInv'
<1> SUFFICES ASSUME TInv, Finish PROVE TInv'
  OBVIOUS
<1> USE DEF TInv
<1>1. /\ UNCHANGED call /\ CallOK /\ Len(b) \in Nat
      /\ UNCHANGED <<at, seg_ptr, cur, idx, data>> /\ pc = "place" /\ pc' = "done"
      /\ at = Len(b) + 1
  BY Entries DEF Finish, CallOK
<1>2. CallOK'
  BY <1>1, CallStays DEF CallOK, call
<1>3. PositionsOK'
  BY <1>1, CallStays DEF PositionsOK
<1>4. PlacesOK'
  <2>1. b' = b /\ chunk_cols' = chunk_cols
    BY <1>1 DEF call
  <2>2. \A p : Goal(p)' = Goal(p) /\ Chunk(b[p])' = Chunk(b[p])
    BY <1>1, CallStays
  <2> QED
    BY <1>1, <2>1, <2>2 DEF PlacesOK
<1>5. NothingBuilt' /\ CountsOK' /\ Ends'
  BY <1>1 DEF NothingBuilt, CountsOK, Ends, call
<1> QED
  BY <1>2, <1>3, <1>4, <1>5

LEMMA StutterInv == TInv /\ UNCHANGED vars => TInv'
<1> SUFFICES ASSUME TInv, UNCHANGED vars PROVE TInv'
  OBVIOUS
<1>1. UNCHANGED call /\ UNCHANGED <<b, chunk_cols, pc, at, seg_ptr, cur, idx, data>>
  BY DEF vars, call
<1>2. CallOK' /\ NothingBuilt' /\ CountsOK' /\ PositionsOK' /\ Ends'
  BY <1>1, CallStays DEF TInv, CallOK, NothingBuilt, CountsOK, PositionsOK, Ends
<1>3. PlacesOK'
  <2>1. \A p : Goal(p)' = Goal(p) /\ Chunk(b[p])' = Chunk(b[p])
    BY <1>1, CallStays
  <2> QED
    BY <1>1, <2>1 DEF TInv, PlacesOK
<1> QED
  BY <1>2, <1>3 DEF TInv

LEMMA StepInv == TInv /\ [Next]_vars => TInv'
BY FallBackInv, BuildInv, CountInv, PrefixInv, PlaceInv, FinishInv, StutterInv DEF Next

\* The counts, the write positions and the tiles are what Goal says of them, at
\* every step of both passes, for every shape, chunk width and matrix.
THEOREM TiledInvariant == Spec => []TInv
BY InitInv, StepInv, PTL DEF Spec

-----------------------------------------------------------------------------
(* The properties *)

\* The build stays within its types: no offset leaves u32, no column leaves the
\* chunk or u16.
THEOREM TypesHold == Spec => []TypeOK
<1>1. TInv => TypeOK
  <2> SUFFICES ASSUME TInv PROVE TypeOK
    OBVIOUS
  <2> USE DEF TInv
  <2>1. CallOK /\ Len(b) \in Nat /\ NSeg \in Nat /\ U32Max \in Nat
    BY Entries, ChunkCount
  <2>2. \A s \in DOMAIN seg_ptr : seg_ptr[s] \in 0 .. U32Max
    <3>1. CASE pc \in {"start", "csr"}
      BY <3>1 DEF NothingBuilt
    <3>2. CASE pc = "count"
      BY <3>2 DEF CountsOK
    <3>3. CASE pc \in {"place", "done"}
      <4>1. Len(b) <= U32Max
        BY <2>1, <3>3 DEF CallOK, Supports
      <4>2. \A s \in 0 .. NSeg : Below(s) \in 0 .. Len(b)
        BY BelowSteps
      <4> QED
        BY <2>1, <3>3, <4>1, <4>2 DEF PositionsOK
    <3> QED
      BY <2>1, <3>1, <3>2, <3>3 DEF CallOK
  <2>3. \A s \in DOMAIN cur : cur[s] \in 0 .. U32Max
    <3>1. CASE pc \in {"start", "csr", "count"}
      BY <3>1 DEF NothingBuilt
    <3>2. CASE pc \in {"place", "done"}
      <4>1. Len(b) <= U32Max /\ at \in 1 .. Len(b) + 1
        BY <2>1, <3>2 DEF CallOK, Supports
      <4>2. cur = [s \in 0 .. NSeg - 1 |-> Below(s) + Placed(s, at - 1)]
        BY <3>2 DEF PositionsOK
      <4>3. ASSUME NEW s \in 0 .. NSeg - 1
            PROVE  Below(s) + Placed(s, at - 1) \in 0 .. Len(b)
        BY <2>1, <4>1, PositionInSegment
      <4> QED
        BY <2>1, <4>1, <4>2, <4>3
    <3> QED
      BY <2>1, <3>1, <3>2 DEF CallOK
  <2>4. /\ \A p \in DOMAIN idx : idx[p] < chunk_cols /\ idx[p] \in 0 .. U16Max
        /\ \A p \in DOMAIN data : data[p] \in 0 .. Len(b)
    <3>1. CASE pc \in {"start", "csr", "count"}
      BY <3>1 DEF NothingBuilt
    <3>2. CASE pc \in {"place", "done"}
      BY <3>2 DEF PlacesOK
    <3> QED
      BY <2>1, <3>1, <3>2 DEF CallOK
  <2> QED
    BY <2>1, <2>2, <2>3, <2>4 DEF TypeOK, CallOK
<1> QED
  BY <1>1, TiledInvariant, PTL

\* A write position never leaves its segment.
THEOREM WritesStayInSegment == Spec => []CursorsStay
<1>1. TInv => CursorsStay
  <2> SUFFICES ASSUME TInv, pc = "place", NEW s \in DOMAIN cur
               PROVE  cur[s] = seg_ptr[s] + Placed(s, at - 1) /\ cur[s] <= seg_ptr[s + 1]
    BY DEF CursorsStay
  <2> USE DEF TInv
  <2>1. CallOK /\ Len(b) \in Nat /\ NSeg \in Nat /\ at \in 1 .. Len(b) + 1
    BY Entries, ChunkCount DEF CallOK
  <2>2. /\ seg_ptr = [t \in 0 .. NSeg |-> Below(t)]
        /\ cur = [t \in 0 .. NSeg - 1 |-> Below(t) + Placed(t, at - 1)]
    BY DEF PositionsOK
  <2>3. s \in 0 .. NSeg - 1 /\ s \in 0 .. NSeg /\ s + 1 \in 0 .. NSeg
    BY <2>1, <2>2
  <2>4. Below(s) + Placed(s, at - 1) <= Below(s + 1)
    BY <2>1, <2>3, PositionInSegment
  <2> QED
    BY <2>2, <2>3, <2>4
<1> QED
  BY <1>1, TiledInvariant, PTL

\* Every segment of the finished tiles is the part of its row that lies in its
\* chunk, entry for entry and in the order of the row.
THEOREM TilesAreRows == Spec => []SegmentsAreRows
<1>1. TInv => SegmentsAreRows
  <2> SUFFICES ASSUME TInv, pc = "done", NEW c \in 0 .. NChunks - 1, NEW j \in 0 .. NRows - 1
               PROVE  LET seg == Segment(c, j)
                      IN  /\ {seg[q].x : q \in DOMAIN seg} =
                               {p \in DOMAIN b : /\ b[p].j = j
                                                 /\ b[p].k >= c * chunk_cols
                                                 /\ b[p].k < (c + 1) * chunk_cols}
                          /\ \A q \in DOMAIN seg : seg[q].k = b[seg[q].x].k - c * chunk_cols
                          /\ \A q, r \in DOMAIN seg : q < r => seg[q].x < seg[r].x
    BY DEF SegmentsAreRows
  <2> USE DEF TInv
  <2>1. /\ CallOK /\ Len(b) \in Nat /\ NSeg \in Nat /\ NChunks \in Nat /\ NRows \in Nat
        /\ DOMAIN b = 1 .. Len(b) /\ at - 1 = Len(b)
    BY Entries, ChunkCount DEF Ends
  <2>2. PICK s \in Int : s = SegOf(c, j)
    BY SegmentNumber
  <2>3. s \in 0 .. NSeg - 1 /\ s \in 0 .. NSeg /\ s + 1 \in 0 .. NSeg
    BY <2>1, <2>2, SegmentNumber
  <2>4. PICK lo \in Int, hi \in Int : lo = Below(s) /\ hi = Below(s + 1)
    <3>1. Below(s) \in 0 .. Len(b) /\ Below(s + 1) \in 0 .. Len(b)
      BY <2>3, BelowSteps
    <3> QED
      BY <3>1
  <2>5. seg_ptr[s] = lo /\ seg_ptr[s + 1] = hi
    BY <2>3, <2>4 DEF PositionsOK
  <2>6. Segment(c, j) = [q \in 1 .. hi - lo |-> [k |-> idx[lo + q - 1], x |-> data[lo + q - 1]]]
    BY <2>2, <2>5 DEF Segment
  <2> DEFINE Mine(p) == b[p].j = j /\ b[p].k >= c * chunk_cols /\ b[p].k < (c + 1) * chunk_cols
  \* The entries of the segment are those of the row that lie in the chunk.
  <2>7. ASSUME NEW p \in 1 .. Len(b)
        PROVE  /\ Slot(b[p]) = s <=> Mine(p)
               /\ Slot(b[p]) = s => Chunk(b[p]) = c
    <3>1. Chunk(b[p]) \in Nat /\ b[p].j \in 0 .. NRows - 1 /\ c \in Nat
      BY <2>1, ChunkOfEntry, Entries
    <3>2. Slot(b[p]) = s <=> Chunk(b[p]) = c /\ b[p].j = j
      BY <2>1, <2>2, <3>1, SegmentIsUnique DEF Slot
    <3>3. Chunk(b[p]) = c <=> b[p].k >= c * chunk_cols /\ b[p].k < (c + 1) * chunk_cols
      BY <2>1, <3>1, ChunkOfEntry
    <3> QED
      BY <3>2, <3>3
  \* Position q of the segment is the place of an entry of the row.
  <2>8. ASSUME NEW q \in 1 .. hi - lo
        PROVE  \E p \in 1 .. Len(b) : /\ Slot(b[p]) = s /\ Goal(p) = lo + q - 1
                                      /\ Segment(c, j)[q].x = p
                                      /\ Segment(c, j)[q].k = b[p].k - c * chunk_cols
    <3>1. PICK pos \in Int : pos = lo + q - 1
      OBVIOUS
    <3>2. lo <= pos /\ pos < hi
      BY <3>1
    <3>3. PICK p \in 1 .. Len(b) : Slot(b[p]) = s /\ Goal(p) = pos
      BY <2>1, <2>3, <2>4, <3>2, PositionsAreGoals
    <3>4. data[pos] = p /\ idx[pos] = b[p].k - Chunk(b[p]) * chunk_cols
      BY <2>1, <3>3 DEF PlacesOK
    <3>5. Chunk(b[p]) = c
      BY <2>7, <3>3
    <3>6. Segment(c, j)[q] = [k |-> idx[pos], x |-> data[pos]]
      BY <2>6, <3>1
    <3> QED
      BY <3>1, <3>3, <3>4, <3>5, <3>6
  \* An entry of the row is found at its position.
  <2>9. ASSUME NEW p \in 1 .. Len(b), Mine(p)
        PROVE  \E q \in 1 .. hi - lo : Segment(c, j)[q].x = p
    <3>1. Slot(b[p]) = s
      BY <2>7, <2>9
    <3>2. PICK g \in Int : g = Goal(p)
      BY <2>1, GoalInSegment
    <3>3. lo <= g /\ g < hi
      BY <2>1, <2>4, <3>1, <3>2, GoalInSegment
    <3>4. PICK q \in 1 .. hi - lo : q = g - lo + 1
      BY <3>3
    <3>5. lo + q - 1 = g
      BY <3>4
    <3>6. data[g] = p
      BY <2>1, <3>2 DEF PlacesOK
    <3>7. Segment(c, j)[q] = [k |-> idx[g], x |-> data[g]]
      BY <2>6, <3>5
    <3> QED
      BY <3>6, <3>7
  <2>10. PICK seg : seg = Segment(c, j)
    OBVIOUS
  <2>11. DOMAIN seg = 1 .. hi - lo
    BY <2>6, <2>10
  <2>12. {seg[q].x : q \in DOMAIN seg} = {p \in DOMAIN b : Mine(p)}
    <3>1. ASSUME NEW q \in DOMAIN seg
          PROVE  seg[q].x \in {p \in DOMAIN b : Mine(p)}
      BY <2>1, <2>7, <2>8, <2>10, <2>11
    <3>2. ASSUME NEW p \in DOMAIN b, Mine(p)
          PROVE  \E q \in DOMAIN seg : seg[q].x = p
      BY <2>1, <2>9, <2>10, <2>11, <3>2
    <3> QED
      BY <3>1, <3>2
  <2>13. \A q \in DOMAIN seg : seg[q].k = b[seg[q].x].k - c * chunk_cols
    BY <2>8, <2>10, <2>11
  <2>14. ASSUME NEW q \in 1 .. hi - lo, NEW r \in 1 .. hi - lo, q < r
         PROVE  seg[q].x < seg[r].x
    <3>1. PICK p \in 1 .. Len(b) : Slot(b[p]) = s /\ Goal(p) = lo + q - 1 /\ seg[q].x = p
      BY <2>8, <2>10
    <3>2. PICK o \in 1 .. Len(b) : Slot(b[o]) = s /\ Goal(o) = lo + r - 1 /\ seg[r].x = o
      BY <2>8, <2>10
    <3>3. PICK gp, go : gp = Goal(p) /\ go = Goal(o)
      OBVIOUS
    <3>4. gp = lo + q - 1 /\ go = lo + r - 1
      BY <3>1, <3>2, <3>3
    <3>5. ~ (go < gp) /\ go # gp
      BY <2>14, <3>4
    <3>6. o < p => go < gp
      BY <2>1, <3>1, <3>2, <3>3, GoalsDiffer
    <3>7. o # p /\ ~ (o < p)
      BY <3>3, <3>5, <3>6
    <3> QED
      BY <2>1, <3>1, <3>2, <3>7
  <2> QED
    BY <2>10, <2>11, <2>12, <2>13, <2>14
<1> QED
  BY <1>1, TiledInvariant, PTL

-----------------------------------------------------------------------------
(* Chunks side by side *)

Number == [idx : Nat, val : Int]
Cell == [idx : Nat, val : Value]
ZipChunk == [ncols : Nat, rows : Seq(Seq(Cell))]

LEMMA ChunkFacts ==
  ASSUME NEW cs \in Seq(ZipChunk)
  PROVE  /\ Len(cs) \in Nat /\ DOMAIN cs = 1 .. Len(cs)
         /\ \A c \in 1 .. Len(cs) : cs[c].ncols \in Nat /\ cs[c].rows \in Seq(Seq(Cell))
<1>1. \A c \in 1 .. Len(cs) : cs[c] \in ZipChunk
  BY ElementOfSeq
<1>2. Len(cs) \in Nat /\ DOMAIN cs = 1 .. Len(cs)
  BY LenProperties
<1> QED
  BY <1>1, <1>2 DEF ZipChunk

\* W[c] is where the columns of the first c chunks end.
IsWidths(W, cs) ==
  /\ W \in [0 .. Len(cs) -> Nat] /\ W[0] = 0
  /\ \A c \in 1 .. Len(cs) : W[c] = W[c - 1] + cs[c].ncols

LEMMA PartWidth ==
  ASSUME NEW cs \in Seq(ZipChunk), NEW n \in Nat, n = Len(cs),
         NEW w \in [1 .. n -> Nat], \A c \in 1 .. n : w[c] = cs[c].ncols,
         NEW W, IsPrefixSum(W, n, w)
  PROVE  \A m \in 0 .. n : WidthOf(SubSeq(cs, 1, m)) = W[m]
<1> SUFFICES ASSUME NEW m \in 0 .. n, NEW part, part = SubSeq(cs, 1, m)
             PROVE  WidthOf(part) = W[m]
  OBVIOUS
<1>1. Len(part) = m /\ \A c \in 1 .. m : part[c] = cs[c]
  <2>1. \A c \in 1 .. m : cs[c] \in ZipChunk
    BY ElementOfSeq
  <2> QED
    BY <2>1, SubSeqProperties
<1>2. DOMAIN part = 1 .. m
  <2>1. part \in Seq(ZipChunk)
    <3>1. \A c \in 1 .. m : cs[c] \in ZipChunk
      BY ElementOfSeq
    <3> QED
      BY <3>1, SubSeqProperties
  <2> QED
    BY <1>1, <2>1, LenProperties
<1>3. \A s \in SUBSET (1 .. m) : s # {} => Max(s) \in 1 .. m
  <2> SUFFICES ASSUME NEW s \in SUBSET (1 .. m), s # {} PROVE Max(s) \in 1 .. m
    OBVIOUS
  <2> m \in Nat
    OBVIOUS
  <2>1. \E x \in s : \A y \in s : x >= y
    BY MaxExists
  <2> QED
    BY <2>1 DEF Max
<1> DEFINE Folds(g) == g = [s \in SUBSET (1 .. m) |->
                              IF s = {} THEN 0 ELSE g[s \ {Max(s)}] + part[Max(s)].ncols]
<1>4. \A x \in 1 .. m : part[x].ncols = w[x]
  BY <1>1
<1>5. \A g : Folds(g) <=> SumsUp(g, m, w)
  BY <1>3, <1>4 DEF SumsUp
<1>6. WidthOf(part) = (CHOOSE g : Folds(g))[1 .. m]
  BY <1>2 DEF WidthOf, FoldLeft, MapThenFoldSet
<1> DEFINE v == [c \in 1 .. m |-> w[c]]
<1>7. v \in [1 .. m -> Nat]
  OBVIOUS
<1>8. \A g : SumsUp(g, m, w) <=> SumsUp(g, m, v)
  BY <1>3 DEF SumsUp
<1> HIDE DEF Folds, v
<1>9. PICK g : Folds(g) /\ WidthOf(part) = g[1 .. m]
  <2>1. \E g : Folds(g)
    BY <1>5, <1>7, <1>8, FoldIsNat
  <2> QED
    BY <1>6, <2>1
<1>10. SumsUp(g, m, w)
  BY <1>5, <1>9
<1> QED
  BY <1>9, <1>10, FoldIsPrefixSum

\* The offsets of the chunks are the ends of the ones before.
LEMMA WidthsExist ==
  ASSUME NEW cs \in Seq(ZipChunk)
  PROVE  \E W : /\ IsWidths(W, cs) /\ WidthOf(cs) = W[Len(cs)]
                /\ \A c \in 1 .. Len(cs) + 1 : WidthOf(SubSeq(cs, 1, c - 1)) = W[c - 1]
<1>1. PICK n \in Nat : n = Len(cs)
  BY ChunkFacts
<1> DEFINE w == [c \in 1 .. n |-> cs[c].ncols]
<1>2. w \in [1 .. n -> Nat] /\ \A c \in 1 .. n : w[c] = cs[c].ncols
  BY <1>1, ChunkFacts
<1> HIDE DEF w
<1>3. PICK W : IsPrefixSum(W, n, w)
  BY <1>2, PrefixSumExists
<1>4. \A m \in 0 .. n : WidthOf(SubSeq(cs, 1, m)) = W[m]
  BY <1>1, <1>2, <1>3, PartWidth
<1>5. cs = SubSeq(cs, 1, n)
  BY <1>1, SubSeqFull
<1>6. WidthOf(cs) = W[n]
  <2>1. n \in 0 .. n
    OBVIOUS
  <2> QED
    BY <1>4, <1>5, <2>1
<1>7. IsWidths(W, cs)
  BY <1>1, <1>2, <1>3 DEF IsWidths, IsPrefixSum
<1>8. \A c \in 1 .. n + 1 : c - 1 \in 0 .. n
  OBVIOUS
<1> QED
  BY <1>1, <1>4, <1>6, <1>7, <1>8

LEMMA WidthsGrow ==
  ASSUME NEW cs \in Seq(ZipChunk), NEW W, IsWidths(W, cs)
  PROVE  \A m, n \in 0 .. Len(cs) : m <= n => W[m] <= W[n]
<1>1. PICK len \in Nat : len = Len(cs)
  BY ChunkFacts
<1>2. SUFFICES ASSUME NEW m \in 0 .. len PROVE \A n \in 0 .. len : m <= n => W[m] <= W[n]
  BY <1>1
<1> DEFINE R == {n \in Nat : n <= len /\ m <= n => W[m] <= W[n]}
<1>3. 0 \in R
  BY <1>1 DEF IsWidths
<1>4. ASSUME NEW n \in Nat, n \in R PROVE n + 1 \in R
  <2> SUFFICES ASSUME n + 1 <= len, m <= n + 1 PROVE W[m] <= W[n + 1]
    OBVIOUS
  <2>1. W[m] \in Nat /\ W[n] \in Nat /\ W[n + 1] \in Nat
    BY <1>1 DEF IsWidths
  <2>2. W[n + 1] = W[(n + 1) - 1] + cs[n + 1].ncols /\ (n + 1) - 1 = n
    <3>1. \A c \in 1 .. Len(cs) : W[c] = W[c - 1] + cs[c].ncols
      BY DEF IsWidths
    <3>2. n + 1 \in 1 .. Len(cs) /\ (n + 1) - 1 = n
      BY <1>1
    <3> QED
      BY <3>1, <3>2
  <2>3. cs[n + 1].ncols \in Nat
    BY <1>1, ChunkFacts
  <2>4. CASE m = n + 1
    BY <2>1, <2>4
  <2>5. CASE m # n + 1
    <3>1. W[m] <= W[n]
      BY <1>4, <2>5
    <3> QED
      BY <2>1, <2>2, <2>3, <3>1
  <2> QED
    BY <2>4, <2>5
<1> HIDE DEF R
<1>5. \A n \in Nat : n \in R
  BY <1>3, <1>4, Induction
<1> QED
  BY <1>5 DEF R

\* Every column of the result is one of a chunk.
LEMMA WidthsCover ==
  ASSUME NEW cs \in Seq(ZipChunk), NEW W, IsWidths(W, cs), NEW col \in 0 .. W[Len(cs)] - 1
  PROVE  \E c \in 1 .. Len(cs) : W[c - 1] <= col /\ col < W[c]
<1>1. PICK len \in Nat : len = Len(cs)
  BY ChunkFacts
<1> DEFINE R == {n \in Nat : n <= len /\ col < W[n] =>
                    \E c \in 1 .. len : W[c - 1] <= col /\ col < W[c]}
<1>2. 0 \in R
  BY DEF IsWidths
<1>3. ASSUME NEW n \in Nat, n \in R PROVE n + 1 \in R
  <2> SUFFICES ASSUME n + 1 <= len, col < W[n + 1]
               PROVE  \E c \in 1 .. len : W[c - 1] <= col /\ col < W[c]
    OBVIOUS
  <2>1. CASE col < W[n]
    BY <1>3, <2>1
  <2>2. CASE ~ (col < W[n])
    <3>1. W[n] \in Nat /\ (n + 1) - 1 = n /\ n + 1 \in 1 .. len
      BY <1>1 DEF IsWidths
    <3>2. W[(n + 1) - 1] <= col
      BY <2>2, <3>1
    <3> QED
      BY <3>1, <3>2
  <2> QED
    BY <2>1, <2>2
<1> HIDE DEF R
<1>4. len \in R
  BY <1>2, <1>3, Induction
<1>5. W[len] \in Nat
  BY <1>1 DEF IsWidths
<1> QED
  BY <1>1, <1>4, <1>5 DEF R

-----------------------------------------------------------------------------
(* The cells of a row *)

IsInput(cs, w) == \E input \in Inputs : w = input.whole /\ cs = input.chunks

\* Row r is one of every chunk.
HasRow(cs, r) == \A c \in 1 .. Len(cs) : r \in 1 .. Len(cs[c].rows)

\* Where entry p of row r of chunk c stands in the result.
CellAt(cs, r, c, p) ==
  [idx |-> WidthOf(SubSeq(cs, 1, c - 1)) + cs[c].rows[r][p].idx, val |-> cs[c].rows[r][p].val]

IsAt(cs, r, c, p) == c \in 1 .. Len(cs) /\ p \in 1 .. Len(cs[c].rows[r])

LEMMA InputFacts ==
  ASSUME NEW cs, NEW w, IsInput(cs, w)
  PROVE  /\ cs \in Seq(ZipChunk) /\ w \in Seq([0 .. WidthOf(cs) - 1 -> Value])
         /\ \A c \in 1 .. Len(cs) : \A r \in 1 .. Len(cs[c].rows) :
              /\ r \in DOMAIN w
              /\ IsPartOf(cs[c].rows[r], w[r], WidthOf(SubSeq(cs, 1, c - 1)), cs[c].ncols)
<1>1. PICK input \in Inputs : w = input.whole /\ cs = input.chunks
  BY DEF IsInput
<1>2. cs \in Seq(ZipChunk) /\ w \in Seq([0 .. WidthOf(cs) - 1 -> Value])
  BY <1>1, ZipAssumption DEF ZipChunk, Cell
<1>3. \A c \in DOMAIN cs : \A r \in DOMAIN cs[c].rows :
              /\ r \in DOMAIN w
              /\ IsPartOf(cs[c].rows[r], w[r], WidthOf(SubSeq(cs, 1, c - 1)), cs[c].ncols)
  BY <1>1, ZipAssumption
<1>4. DOMAIN cs = 1 .. Len(cs) /\ \A c \in 1 .. Len(cs) : DOMAIN cs[c].rows = 1 .. Len(cs[c].rows)
  BY <1>2, ChunkFacts, LenProperties
<1> QED
  BY <1>2, <1>3, <1>4

LEMMA RowFacts ==
  ASSUME NEW cs \in Seq(ZipChunk), NEW r, HasRow(cs, r), NEW c \in 1 .. Len(cs)
  PROVE  /\ cs[c].rows[r] \in Seq(Cell) /\ Len(cs[c].rows[r]) \in Nat
         /\ DOMAIN cs[c].rows[r] = 1 .. Len(cs[c].rows[r])
         /\ \A p \in 1 .. Len(cs[c].rows[r]) :
              cs[c].rows[r][p].idx \in Nat /\ cs[c].rows[r][p].val \in Value
<1>1. PICK rows : rows = cs[c].rows
  OBVIOUS
<1>2. rows \in Seq(Seq(Cell)) /\ r \in 1 .. Len(rows)
  BY <1>1, ChunkFacts DEF HasRow
<1>3. PICK row : row = rows[r]
  OBVIOUS
<1>4. row \in Seq(Cell)
  BY <1>2, <1>3, ElementOfSeq
<1>5. Len(row) \in Nat /\ DOMAIN row = 1 .. Len(row) /\ \A p \in 1 .. Len(row) : row[p] \in Cell
  BY <1>4, LenProperties, ElementOfSeq
<1> QED
  BY <1>1, <1>3, <1>4, <1>5 DEF Cell

\* Every cell is a cell of the whole, in the columns of its chunk.
LEMMA CellFacts ==
  ASSUME NEW cs, NEW w, IsInput(cs, w), NEW r, HasRow(cs, r),
         NEW W, IsWidths(W, cs), WidthOf(cs) = W[Len(cs)],
         \A c \in 1 .. Len(cs) + 1 : WidthOf(SubSeq(cs, 1, c - 1)) = W[c - 1],
         NEW c, NEW p, IsAt(cs, r, c, p), NEW o, o = CellAt(cs, r, c, p)
  PROVE  /\ o \in Cell /\ o.val = w[r][o.idx]
         /\ W[c - 1] \in Nat /\ W[c] \in Nat /\ W[c] <= W[Len(cs)]
         /\ W[c - 1] <= o.idx /\ o.idx < W[c]
         /\ o.idx = W[c - 1] + cs[c].rows[r][p].idx /\ o.val = cs[c].rows[r][p].val
<1>1. cs \in Seq(ZipChunk)
  BY InputFacts
<1>2. PICK len \in Nat : len = Len(cs)
  BY <1>1, ChunkFacts
<1>3. c \in 1 .. len /\ c \in 1 .. len + 1 /\ c - 1 \in 0 .. len /\ c \in 0 .. len /\ len \in 0 .. len
  BY <1>2 DEF IsAt
<1>4. PICK row : row = cs[c].rows[r]
  OBVIOUS
<1>5. /\ p \in 1 .. Len(row) /\ DOMAIN row = 1 .. Len(row)
      /\ row[p].idx \in Nat /\ row[p].val \in Value
  BY <1>1, <1>2, <1>3, <1>4, RowFacts DEF IsAt
<1>6. IsPartOf(row, w[r], W[c - 1], cs[c].ncols)
  <2>1. r \in 1 .. Len(cs[c].rows)
    BY <1>2, <1>3 DEF HasRow
  <2> QED
    BY <1>2, <1>3, <1>4, <2>1, InputFacts
<1>7. row[p].idx \in 0 .. cs[c].ncols - 1 /\ row[p].val = w[r][W[c - 1] + row[p].idx]
  BY <1>5, <1>6 DEF IsPartOf
<1>8. /\ W[c - 1] \in Nat /\ W[c] \in Nat /\ W[len] \in Nat /\ cs[c].ncols \in Nat
      /\ W[c] = W[c - 1] + cs[c].ncols /\ W[c] <= W[len]
  <2>1. cs[c].ncols \in Nat
    BY <1>1, <1>2, <1>3, ChunkFacts
  <2>2. W[c] <= W[len]
    BY <1>1, <1>2, <1>3, WidthsGrow
  <2>3. /\ W[c - 1] \in Nat /\ W[c] \in Nat /\ W[len] \in Nat
        /\ W[c] = W[c - 1] + cs[c].ncols
    BY <1>2, <1>3 DEF IsWidths
  <2> QED
    BY <2>1, <2>2, <2>3
<1>9. o = [idx |-> W[c - 1] + row[p].idx, val |-> row[p].val]
  BY <1>2, <1>3, <1>4 DEF CellAt
<1>10. o.idx = W[c - 1] + row[p].idx /\ o.val = row[p].val
  BY <1>9
<1>11. o \in Cell
  <2>1. PICK i, from : i = row[p].idx /\ from = W[c - 1]
    OBVIOUS
  <2>2. i \in Nat /\ from \in Nat
    BY <1>5, <1>8, <2>1
  <2>3. from + i \in Nat
    BY <2>2
  <2> QED
    BY <1>5, <1>9, <2>1, <2>3 DEF Cell
<1>12. o.val = w[r][o.idx]
  BY <1>7, <1>10
<1>13. W[c - 1] <= o.idx /\ o.idx < W[c]
  <2>1. PICK i, from, width, x :
          i = row[p].idx /\ from = W[c - 1] /\ width = cs[c].ncols /\ x = o.idx
    OBVIOUS
  <2>2. /\ i \in Nat /\ from \in Nat /\ width \in Nat
        /\ i \in 0 .. width - 1 /\ x = from + i /\ W[c] = from + width
    BY <1>5, <1>7, <1>8, <1>10, <2>1
  <2>3. from <= x /\ x < from + width
    BY <2>2
  <2> QED
    BY <2>1, <2>2, <2>3
<1> QED
  BY <1>2, <1>4, <1>8, <1>10, <1>11, <1>12, <1>13

\* No two are of the same column.
LEMMA CellsApart ==
  ASSUME NEW cs, NEW w, IsInput(cs, w), NEW r, HasRow(cs, r),
         NEW c, NEW p, IsAt(cs, r, c, p), NEW d, NEW q, IsAt(cs, r, d, q),
         CellAt(cs, r, c, p).idx = CellAt(cs, r, d, q).idx
  PROVE  c = d /\ p = q
<1>1. cs \in Seq(ZipChunk)
  BY InputFacts
<1>2. PICK W : /\ IsWidths(W, cs) /\ WidthOf(cs) = W[Len(cs)]
               /\ \A x \in 1 .. Len(cs) + 1 : WidthOf(SubSeq(cs, 1, x - 1)) = W[x - 1]
  BY <1>1, WidthsExist
<1>3. PICK len \in Nat : len = Len(cs)
  BY <1>1, ChunkFacts
<1>4. PICK o, u : o = CellAt(cs, r, c, p) /\ u = CellAt(cs, r, d, q)
  OBVIOUS
<1>5. /\ W[c - 1] <= o.idx /\ o.idx < W[c] /\ o.idx = W[c - 1] + cs[c].rows[r][p].idx
      /\ W[c - 1] \in Nat /\ W[c] \in Nat /\ o.idx \in Nat
  BY <1>2, <1>4, CellFacts DEF Cell
<1>6. /\ W[d - 1] <= u.idx /\ u.idx < W[d] /\ u.idx = W[d - 1] + cs[d].rows[r][q].idx
      /\ W[d - 1] \in Nat /\ W[d] \in Nat /\ u.idx \in Nat
  BY <1>2, <1>4, CellFacts DEF Cell
<1>7. c \in 1 .. len /\ d \in 1 .. len
  BY <1>3 DEF IsAt
<1>8. ~ (c < d)
  <2> SUFFICES ASSUME c < d PROVE FALSE
    OBVIOUS
  <2>1. c \in 0 .. len /\ d - 1 \in 0 .. len /\ c <= d - 1
    BY <1>7
  <2>2. W[c] <= W[d - 1]
    BY <1>1, <1>2, <1>3, <2>1, WidthsGrow
  <2> QED
    BY <1>4, <1>5, <1>6, <2>2
<1>9. ~ (d < c)
  <2> SUFFICES ASSUME d < c PROVE FALSE
    OBVIOUS
  <2>1. d \in 0 .. len /\ c - 1 \in 0 .. len /\ d <= c - 1
    BY <1>7
  <2>2. W[d] <= W[c - 1]
    BY <1>1, <1>2, <1>3, <2>1, WidthsGrow
  <2> QED
    BY <1>4, <1>5, <1>6, <2>2
<1>10. c = d
  BY <1>7, <1>8, <1>9
<1>11. PICK row : row = cs[c].rows[r]
  OBVIOUS
<1>12. /\ DOMAIN row = 1 .. Len(row) /\ p \in 1 .. Len(row) /\ q \in 1 .. Len(row)
       /\ row[p].idx \in Nat /\ row[q].idx \in Nat
  BY <1>1, <1>3, <1>7, <1>10, <1>11, RowFacts DEF IsAt
<1>13. IsPartOf(row, w[r], WidthOf(SubSeq(cs, 1, c - 1)), cs[c].ncols)
  BY <1>3, <1>7, <1>11, InputFacts DEF HasRow
<1>14. row[p].idx = row[q].idx
  <2>1. PICK i, j : i = row[p].idx /\ j = row[q].idx
    OBVIOUS
  <2>2. o.idx = W[c - 1] + i /\ u.idx = W[c - 1] + j /\ o.idx = u.idx
    BY <1>4, <1>5, <1>6, <1>10, <1>11, <2>1
  <2> QED
    BY <1>5, <1>12, <2>1, <2>2
<1> QED
  BY <1>10, <1>12, <1>13, <1>14 DEF IsPartOf

\* The cells a walk has passed when it is at entry e of chunk d.
Taken(cs, r, d, e) ==
  UNION {{[idx |-> WidthOf(SubSeq(cs, 1, c - 1)) + cs[c].rows[r][p].idx,
            val |-> cs[c].rows[r][p].val] :
            p \in IF c > d THEN DOMAIN cs[c].rows[r] ELSE 1 .. e - 1} :
         c \in {x \in DOMAIN cs : x >= d}}

LEMMA TakenIs ==
  ASSUME NEW cs \in Seq(ZipChunk), NEW r, HasRow(cs, r),
         NEW d \in Nat, NEW e \in Nat, d > 0 => d <= Len(cs) /\ e - 1 <= Len(cs[d].rows[r])
  PROVE  \A o : o \in Taken(cs, r, d, e) <=>
                \E c, p : /\ IsAt(cs, r, c, p) /\ (c > d \/ (c = d /\ p < e))
                          /\ o = CellAt(cs, r, c, p)
<1>1. PICK len \in Nat : len = Len(cs) /\ DOMAIN cs = 1 .. len
  BY ChunkFacts
<1>2. \A c \in 1 .. len : /\ DOMAIN cs[c].rows[r] = 1 .. Len(cs[c].rows[r])
                          /\ Len(cs[c].rows[r]) \in Nat
  BY <1>1, RowFacts
<1> DEFINE range(c) == IF c > d THEN DOMAIN cs[c].rows[r] ELSE 1 .. e - 1
<1>3. \A o : o \in Taken(cs, r, d, e) <=>
        \E c \in 1 .. len : c >= d /\ \E p \in range(c) : o = CellAt(cs, r, c, p)
  BY <1>1 DEF Taken, CellAt
<1>4. ASSUME NEW c \in 1 .. len, c >= d, NEW p
      PROVE  p \in range(c) <=> p \in 1 .. Len(cs[c].rows[r]) /\ (c > d \/ (c = d /\ p < e))
  <2>1. PICK n \in Nat : n = Len(cs[c].rows[r]) /\ DOMAIN cs[c].rows[r] = 1 .. n
    BY <1>2
  <2>2. c = d => e - 1 <= n
    BY <2>1
  <2>3. CASE c > d
    BY <2>1, <2>3
  <2>4. CASE c = d
    BY <2>1, <2>2, <2>4
  <2> QED
    BY <1>4, <2>3, <2>4
<1> HIDE DEF range
<1> QED
  BY <1>1, <1>3, <1>4 DEF IsAt

\* The walk starts with nothing, passes one cell after the other, and goes on to
\* the chunk before.
LEMMA TakenGrows ==
  ASSUME NEW cs \in Seq(ZipChunk), NEW r, HasRow(cs, r), cs # <<>>
  PROVE  /\ Taken(cs, r, Len(cs), 1) = {}
         /\ \A d \in 1 .. Len(cs) : \A e \in 1 .. Len(cs[d].rows[r]) :
              Taken(cs, r, d, e + 1) = Taken(cs, r, d, e) \cup {CellAt(cs, r, d, e)}
         /\ \A d \in 1 .. Len(cs) :
              Taken(cs, r, d - 1, 1) = Taken(cs, r, d, Len(cs[d].rows[r]) + 1)
<1>1. PICK len \in Nat : len = Len(cs) /\ \A d \in 1 .. len : Len(cs[d].rows[r]) \in Nat
  BY ChunkFacts, RowFacts
<1>2. Taken(cs, r, len, 1) = {}
  <2>1. len > 0 => len <= Len(cs) /\ 1 - 1 <= Len(cs[len].rows[r])
    BY <1>1
  <2>2. ~ \E c, p : IsAt(cs, r, c, p) /\ (c > len \/ (c = len /\ p < 1))
    BY <1>1 DEF IsAt
  <2> QED
    BY <1>1, <2>1, <2>2, TakenIs
<1>3. ASSUME NEW d \in 1 .. len, NEW e \in 1 .. Len(cs[d].rows[r])
      PROVE  Taken(cs, r, d, e + 1) = Taken(cs, r, d, e) \cup {CellAt(cs, r, d, e)}
  <2>1. PICK n \in Nat : n = Len(cs[d].rows[r])
    BY <1>1
  <2>2. /\ d \in Nat /\ e \in Nat /\ e + 1 \in Nat /\ d <= Len(cs)
        /\ e - 1 <= Len(cs[d].rows[r]) /\ (e + 1) - 1 <= Len(cs[d].rows[r])
    BY <1>1, <2>1
  <2>3. IsAt(cs, r, d, e)
    BY <1>1 DEF IsAt
  <2>4. \A c, p : IsAt(cs, r, c, p) =>
          ((c > d \/ (c = d /\ p < e + 1)) <=> (c > d \/ (c = d /\ p < e)) \/ (c = d /\ p = e))
    BY <1>1, <2>1 DEF IsAt
  <2>5. \A o : o \in Taken(cs, r, d, e + 1) <=>
                \E c, p : /\ IsAt(cs, r, c, p) /\ (c > d \/ (c = d /\ p < e + 1))
                          /\ o = CellAt(cs, r, c, p)
    BY <2>2, TakenIs
  <2>6. \A o : o \in Taken(cs, r, d, e) <=>
                \E c, p : /\ IsAt(cs, r, c, p) /\ (c > d \/ (c = d /\ p < e))
                          /\ o = CellAt(cs, r, c, p)
    BY <2>2, TakenIs
  <2>7. \A o : o \in Taken(cs, r, d, e + 1) <=>
                 o \in Taken(cs, r, d, e) \/ o = CellAt(cs, r, d, e)
    BY <2>3, <2>4, <2>5, <2>6
  <2> QED
    BY <2>7
<1>4. ASSUME NEW d \in 1 .. len
      PROVE  Taken(cs, r, d - 1, 1) = Taken(cs, r, d, Len(cs[d].rows[r]) + 1)
  <2>1. PICK n \in Nat : n = Len(cs[d].rows[r])
    BY <1>1
  <2>2. /\ d - 1 \in Nat /\ d \in Nat /\ 1 \in Nat /\ n + 1 \in Nat
        /\ d <= Len(cs) /\ d - 1 <= Len(cs) /\ (n + 1) - 1 <= Len(cs[d].rows[r])
        /\ d - 1 > 0 => 1 - 1 <= Len(cs[d - 1].rows[r])
    BY <1>1, <2>1
  <2>3. \A c, p : IsAt(cs, r, c, p) =>
          ((c > d - 1 \/ (c = d - 1 /\ p < 1)) <=> (c > d \/ (c = d /\ p < n + 1)))
    BY <1>1, <2>1 DEF IsAt
  <2>4. \A o : o \in Taken(cs, r, d - 1, 1) <=>
                \E c, p : /\ IsAt(cs, r, c, p) /\ (c > d - 1 \/ (c = d - 1 /\ p < 1))
                          /\ o = CellAt(cs, r, c, p)
    BY <2>2, TakenIs
  <2>5. \A o : o \in Taken(cs, r, d, n + 1) <=>
                \E c, p : /\ IsAt(cs, r, c, p) /\ (c > d \/ (c = d /\ p < n + 1))
                          /\ o = CellAt(cs, r, c, p)
    BY <2>2, TakenIs
  <2>6. \A o : o \in Taken(cs, r, d - 1, 1) <=> o \in Taken(cs, r, d, n + 1)
    BY <2>3, <2>4, <2>5
  <2> QED
    BY <2>1, <2>6
<1> QED
  BY <1>1, <1>2, <1>3, <1>4

-----------------------------------------------------------------------------
(* A top-n of the parts is one of the whole *)

Numbers(S) == {c \in S : c.val # NaN}

\* The numbers of row r of the whole.
WholeRow(w, r) == {[idx |-> c, val |-> w[r][c]] : c \in {d \in DOMAIN w[r] : w[r][d] # NaN}}

LEMMA IsTopNIs ==
  ASSUME NEW K, NEW S
  PROVE  Merged!IsTopN(K, S) <=>
           /\ K \subseteq {c \in S : c.val > Threshold}
           /\ K = {c \in S : c.val > Threshold} \/ Cardinality(K) = Capacity
           /\ Cardinality(K) <= Capacity
           /\ \A k \in K, s \in {c \in S : c.val > Threshold} \ K : k.val >= s.val
BY DEF Merged!IsTopN, Merged!Eligible, Merged!Cardinality, Cardinality

\* The cells of a row are the numbers the chunks kept of it.
LEMMA CellsAreWhole ==
  ASSUME NEW cs, NEW w, IsInput(cs, w), NEW r, HasRow(cs, r), cs # <<>>
  PROVE  /\ Numbers(Taken(cs, r, 0, 1)) \subseteq WholeRow(w, r)
         /\ DOMAIN w[r] = 0 .. WidthOf(cs) - 1
         /\ \A c \in DOMAIN w[r] : w[r][c] \in Value
         /\ \A o : o \in Taken(cs, r, 0, 1) <=> \E c, p : IsAt(cs, r, c, p) /\ o = CellAt(cs, r, c, p)
<1>1. cs \in Seq(ZipChunk) /\ w \in Seq([0 .. WidthOf(cs) - 1 -> Value])
  BY InputFacts
<1>2. PICK len \in Nat \ {0} : len = Len(cs)
  BY <1>1, EmptySeq
<1>3. r \in DOMAIN w
  <2>1. 1 \in 1 .. Len(cs) /\ r \in 1 .. Len(cs[1].rows)
    BY <1>2 DEF HasRow
  <2> QED
    BY <2>1, InputFacts
<1>4. w[r] \in [0 .. WidthOf(cs) - 1 -> Value]
  BY <1>1, <1>3
<1>5. \A o : o \in Taken(cs, r, 0, 1) <=> \E c, p : IsAt(cs, r, c, p) /\ o = CellAt(cs, r, c, p)
  <2>1. \A o : o \in Taken(cs, r, 0, 1) <=>
                \E c, p : /\ IsAt(cs, r, c, p) /\ (c > 0 \/ (c = 0 /\ p < 1))
                          /\ o = CellAt(cs, r, c, p)
    BY <1>1, TakenIs
  <2>2. \A c, p : IsAt(cs, r, c, p) => c > 0
    BY <1>2 DEF IsAt
  <2> QED
    BY <2>1, <2>2
<1>6. PICK W : /\ IsWidths(W, cs) /\ WidthOf(cs) = W[len]
               /\ \A x \in 1 .. Len(cs) + 1 : WidthOf(SubSeq(cs, 1, x - 1)) = W[x - 1]
  BY <1>1, <1>2, WidthsExist
<1>7. ASSUME NEW o \in Numbers(Taken(cs, r, 0, 1)) PROVE o \in WholeRow(w, r)
  <2>1. PICK c, p : IsAt(cs, r, c, p) /\ o = CellAt(cs, r, c, p) /\ o.val # NaN
    BY <1>5 DEF Numbers
  <2>2. /\ o \in Cell /\ o.val = w[r][o.idx] /\ o.idx < W[c] /\ W[c] <= W[len]
        /\ W[c] \in Nat
    BY <1>2, <1>6, <2>1, CellFacts
  <2>3. W[len] \in Nat /\ o.idx \in Nat /\ o = [idx |-> o.idx, val |-> o.val]
    BY <1>2, <1>6, <2>2 DEF Cell, IsWidths
  <2>4. o.idx \in DOMAIN w[r]
    BY <1>4, <1>6, <2>2, <2>3
  <2> QED
    BY <2>1, <2>2, <2>3, <2>4 DEF WholeRow
<1> QED
  BY <1>4, <1>5, <1>7

\* A number no chunk kept is no larger than Capacity of the ones its chunk did.
LEMMA MissingIsBeaten ==
  ASSUME NEW cs, NEW w, IsInput(cs, w), NEW r, HasRow(cs, r), cs # <<>>,
         NEW s \in WholeRow(w, r), s.val > Threshold, s \notin Taken(cs, r, 0, 1)
  PROVE  \E T \in SUBSET Numbers(Taken(cs, r, 0, 1)) :
           /\ IsFiniteSet(T) /\ Cardinality(T) >= Capacity
           /\ \A t \in T : t.val \in Int /\ t.val >= s.val
<1>1. cs \in Seq(ZipChunk)
  BY InputFacts
<1>2. PICK len \in Nat \ {0} : len = Len(cs)
  BY <1>1, EmptySeq
<1>3. PICK W : /\ IsWidths(W, cs) /\ WidthOf(cs) = W[len]
               /\ \A x \in 1 .. Len(cs) + 1 : WidthOf(SubSeq(cs, 1, x - 1)) = W[x - 1]
  BY <1>1, <1>2, WidthsExist
<1>4. PICK col \in 0 .. W[len] - 1 : s = [idx |-> col, val |-> w[r][col]] /\ w[r][col] # NaN
  <2>1. PICK col \in DOMAIN w[r] : s = [idx |-> col, val |-> w[r][col]] /\ w[r][col] # NaN
    BY DEF WholeRow
  <2>2. DOMAIN w[r] = 0 .. W[len] - 1
    BY <1>3, CellsAreWhole
  <2> QED
    BY <2>1, <2>2
<1>5. PICK c \in 1 .. len : W[c - 1] <= col /\ col < W[c]
  BY <1>1, <1>2, <1>3, <1>4, WidthsCover
<1>6. PICK row : row = cs[c].rows[r]
  OBVIOUS
<1>7. PICK n \in Nat : n = Len(row)
  BY <1>1, <1>2, <1>6, RowFacts
<1>8. DOMAIN row = 1 .. n /\ \A p \in 1 .. n : row[p].idx \in Nat /\ row[p].val \in Value
  BY <1>1, <1>2, <1>6, <1>7, RowFacts
<1>9. IsPartOf(row, w[r], W[c - 1], cs[c].ncols)
  <2>1. r \in 1 .. Len(cs[c].rows) /\ c \in 1 .. Len(cs) + 1
    BY <1>2 DEF HasRow
  <2>2. IsPartOf(cs[c].rows[r], w[r], WidthOf(SubSeq(cs, 1, c - 1)), cs[c].ncols)
    BY <1>2, <2>1, InputFacts
  <2> QED
    BY <1>3, <1>6, <2>1, <2>2
<1>10. /\ W[c - 1] \in Nat /\ W[c] \in Nat /\ cs[c].ncols \in Nat
       /\ W[c] = W[c - 1] + cs[c].ncols
  BY <1>1, <1>2, <1>3, ChunkFacts DEF IsWidths
<1>11. PICK local \in 0 .. cs[c].ncols - 1 : col = W[c - 1] + local
  <2>1. PICK from, width : from = W[c - 1] /\ width = cs[c].ncols
    OBVIOUS
  <2>2. from \in Nat /\ width \in Nat /\ from <= col /\ col < from + width /\ col \in Int
    BY <1>3, <1>5, <1>10, <2>1
  <2>3. col - from \in 0 .. width - 1 /\ col = from + (col - from)
    BY <2>2
  <2> QED
    BY <2>1, <2>3
<1>12. PICK v \in Int : v = w[r][col] /\ s.val = v /\ v > Threshold
  BY <1>3, <1>4, CellsAreWhole DEF Value
<1>13. Gt(w[r][W[c - 1] + local], Threshold)
  BY <1>4, <1>11, <1>12, ZipAssumption DEF Gt
<1>14. \A p \in 1 .. n : IsAt(cs, r, c, p)
  BY <1>2, <1>6, <1>7 DEF IsAt
<1>15. ASSUME NEW p \in 1 .. n, row[p].idx = local PROVE FALSE
  <2>1. PICK o : o = CellAt(cs, r, c, p)
    OBVIOUS
  <2>2. o \in Cell /\ o.val = w[r][o.idx] /\ o.idx = W[c - 1] + row[p].idx
    BY <1>2, <1>3, <1>6, <1>14, <2>1, CellFacts
  <2>3. o.idx = col
    BY <1>11, <1>15, <2>2
  <2>4. o = [idx |-> o.idx, val |-> o.val]
    BY <2>2 DEF Cell
  <2>5. o = s
    BY <1>4, <2>2, <2>3, <2>4
  <2>6. o \in Taken(cs, r, 0, 1)
    BY <1>14, <2>1, CellsAreWhole
  <2> QED
    BY <2>5, <2>6
<1> DEFINE P == {p \in 1 .. n : row[p].val # NaN /\ row[p].val >= v}
           T == {CellAt(cs, r, c, p) : p \in P}
           f == [p \in P |-> CellAt(cs, r, c, p)]
<1>16. Cardinality(P) >= Capacity
  <2>1. Cardinality({p \in DOMAIN row : row[p].val # NaN /\ row[p].val >= w[r][W[c - 1] + local]})
          >= Capacity
    BY <1>8, <1>9, <1>13, <1>15 DEF IsPartOf
  <2> QED
    BY <1>8, <1>11, <1>12, <2>1
<1>17. IsFiniteSet(P)
  <2>1. P \in SUBSET (1 .. n)
    OBVIOUS
  <2> HIDE DEF P
  <2>2. IsFiniteSet(1 .. n)
    BY FS_Interval
  <2> QED
    BY <2>1, <2>2, FS_Subset
<1>18. f \in [P -> T] /\ \A o \in T : \E p \in P : f[p] = o
  OBVIOUS
<1>19. \A p, q \in P : f[p] = f[q] => p = q
  BY <1>14, CellsApart
<1>20. \A o \in T : o \in Numbers(Taken(cs, r, 0, 1)) /\ o.val \in Int /\ o.val >= v
  <2> SUFFICES ASSUME NEW p \in P, NEW o, o = CellAt(cs, r, c, p)
               PROVE  o \in Numbers(Taken(cs, r, 0, 1)) /\ o.val \in Int /\ o.val >= v
    OBVIOUS
  <2>1. o.val = row[p].val
    BY <1>6 DEF CellAt
  <2>2. o \in Taken(cs, r, 0, 1)
    BY <1>14, CellsAreWhole
  <2>3. o.val \in Int
    BY <1>8, <2>1 DEF Value
  <2> QED
    BY <2>1, <2>2, <2>3 DEF Numbers
<1> HIDE DEF P, T, f
<1>21. f \in Bijection(P, T)
  BY <1>18, <1>19 DEF Bijection, Injection, Surjection, IsInjective
<1>22. IsFiniteSet(T) /\ Cardinality(T) = Cardinality(P)
  BY <1>17, <1>21, FS_Bijection DEF ExistsBijection
<1> QED
  BY <1>12, <1>16, <1>20, <1>22

LEMMA PartsSelectWhole ==
  ASSUME NEW cs, NEW w, IsInput(cs, w), NEW r, HasRow(cs, r), cs # <<>>,
         NEW K, IsFiniteSet(K), Merged!IsTopN(K, Numbers(Taken(cs, r, 0, 1)))
  PROVE  Merged!IsTopN(K, WholeRow(w, r))
<1> DEFINE All == Numbers(Taken(cs, r, 0, 1))
           best == {c \in All : c.val > Threshold}
           whl == {c \in WholeRow(w, r) : c.val > Threshold}
<1>1. /\ K \subseteq best /\ (K = best \/ Cardinality(K) = Capacity)
      /\ Cardinality(K) <= Capacity /\ \A k \in K, s \in best \ K : k.val >= s.val
  BY IsTopNIs
<1>2. best \subseteq whl /\ \A k \in best : k.val \in Int
  <2>1. \A k \in WholeRow(w, r) : k.val \in Int
    BY CellsAreWhole DEF WholeRow, Value
  <2> QED
    BY <2>1, CellsAreWhole
<1>3. Capacity \in Nat /\ Cardinality(K) \in Nat
  BY ZipAssumption, FS_CardinalityType
<1>4. ASSUME NEW s \in whl, s \notin K
      PROVE  Cardinality(K) = Capacity /\ \A k \in K : k.val >= s.val
  <2>1. CASE s \in best
    BY <1>1, <1>4, <2>1
  <2>2. CASE s \notin best
    <3>1. s.val \in Int /\ s \notin Taken(cs, r, 0, 1)
      <4>1. s.val \in Int /\ s.val # NaN
        BY CellsAreWhole, ZipAssumption DEF WholeRow, Value
      <4> QED
        BY <2>2, <4>1 DEF Numbers
    <3>2. PICK T \in SUBSET All : /\ IsFiniteSet(T) /\ Cardinality(T) >= Capacity
                                  /\ \A t \in T : t.val \in Int /\ t.val >= s.val
      BY <3>1, MissingIsBeaten
    <3>3. Threshold \in Int /\ T \subseteq best
      BY <3>1, <3>2, ZipAssumption
    <3> HIDE DEF All, best, whl
    <3>4. CASE T \subseteq K
      <4>1. Cardinality(T) \in Nat /\ Cardinality(T) <= Cardinality(K)
        BY <3>2, <3>4, FS_Subset, FS_CardinalityType
      <4>2. Cardinality(K) = Capacity /\ Cardinality(T) = Cardinality(K)
        BY <1>1, <1>3, <3>2, <4>1
      <4>3. T = K
        BY <3>4, <4>2, FS_Subset
      <4> QED
        BY <3>2, <4>2, <4>3
    <3>5. CASE ~ (T \subseteq K)
      <4>1. PICK t \in T : t \notin K
        BY <3>5
      <4>2. t \in best \ K /\ Cardinality(K) = Capacity
        BY <1>1, <3>3, <4>1
      <4>3. \A k \in K : k.val \in Int /\ k.val >= t.val
        BY <1>1, <1>2, <4>2
      <4>4. t.val \in Int /\ t.val >= s.val
        BY <3>2
      <4> QED
        BY <3>1, <4>2, <4>3, <4>4
    <3> QED
      BY <3>4, <3>5
  <2> QED
    BY <2>1, <2>2
<1> HIDE DEF best
<1>5. K \subseteq whl
  BY <1>1, <1>2
<1>6. K = whl \/ Cardinality(K) = Capacity
  BY <1>4, <1>5
<1> QED
  BY <1>1, <1>4, <1>5, <1>6, IsTopNIs

-----------------------------------------------------------------------------
(* The heap *)

HeapEntry == [order : Nat, idx : Nat, val : Int]

AsCell(e) == [idx |-> e.idx, val |-> e.val]

\* The heap h, whose root is at m, holds of the numbers R every one above m, and
\* nothing else, each once.
Holds(h, m, R) ==
  /\ h \subseteq HeapEntry /\ IsFiniteSet(h) /\ Cardinality(h) <= Capacity
  /\ m \in Root(h)
  /\ \A e \in h : e.val > Threshold /\ AsCell(e) \in R
  /\ \A e, f \in h : e.idx = f.idx => e = f
  /\ \A r \in R : r.val > m => \E e \in h : AsCell(e) = r

LEMMA RootFacts ==
  ASSUME NEW h, NEW m, NEW R, Holds(h, m, R)
  PROVE  /\ m \in Int /\ Threshold \in Int /\ Capacity \in Nat \ {0} /\ m >= Threshold
         /\ Cardinality(h) \in Nat
         /\ \A e \in h : e.val \in Int /\ e.val >= m
         /\ Cardinality(h) < Capacity => m = Threshold
         /\ Cardinality(h) = Capacity => \A f \in Lowest(h) : f.val = m
<1>1. IsFiniteSet(h) /\ h \subseteq HeapEntry /\ Threshold \in Int /\ Capacity \in Nat \ {0}
  BY ZipAssumption DEF Holds
<1>2. Cardinality(h) \in Nat
  BY <1>1, FS_CardinalityType
<1>3. \A e \in h : e.val \in Int /\ e.val > Threshold
  BY <1>1 DEF Holds, HeapEntry
<1>4. CASE Cardinality(h) < Capacity
  <2>1. m = Threshold
    BY <1>4 DEF Holds, Root
  <2> QED
    BY <1>1, <1>2, <1>3, <1>4, <2>1
<1>5. CASE ~ (Cardinality(h) < Capacity)
  <2>1. PICK e \in Lowest(h) : m = e.val
    BY <1>5 DEF Holds, Root
  <2>2. e \in h /\ \A f \in h : e.val <= f.val
    BY <2>1 DEF Lowest
  <2>3. \A f \in Lowest(h) : f \in h /\ f.val <= e.val
    BY <2>2 DEF Lowest
  <2> QED
    BY <1>1, <1>2, <1>3, <1>5, <2>1, <2>2, <2>3
<1> QED
  BY <1>4, <1>5

\* Numbers that do not beat the root are passed by.
LEMMA HoldsMore ==
  ASSUME NEW h, NEW m, NEW R, NEW S, Holds(h, m, R), R \subseteq S,
         \A r \in S : r \in R \/ ~ (r.val > m)
  PROVE  Holds(h, m, S)
BY DEF Holds

\* One that does is pushed.
LEMMA HoldsPush ==
  ASSUME NEW h, NEW m, NEW R, R \subseteq Number, Holds(h, m, R),
         NEW e \in HeapEntry, e.val > m, \A r \in R : r.idx # e.idx,
         NEW g \in Pushed(h, e), NEW l \in Root(g)
  PROVE  Holds(g, l, R \cup {AsCell(e)}) /\ g \subseteq h \cup {e} /\ l \in Int
<1>1. PICK evicted \in IF Cardinality(h) < Capacity THEN {{}} ELSE {{f} : f \in Lowest(h)} :
        g = (h \ evicted) \cup {e}
  BY DEF Pushed
<1>2. /\ IsFiniteSet(h) /\ h \subseteq HeapEntry /\ Cardinality(h) <= Capacity
      /\ e.idx \in Nat /\ e.val \in Int
  BY DEF Holds, HeapEntry
<1>3. e \notin h /\ \A f \in h : f.idx # e.idx
  BY DEF Holds, AsCell
<1>4. \/ Cardinality(h) < Capacity /\ evicted = {}
      \/ Cardinality(h) = Capacity /\ \E f \in Lowest(h) : evicted = {f}
  BY <1>1, <1>2, RootFacts
<1>5. /\ Cardinality(h) < Capacity => Cardinality(g) = Cardinality(h) + 1
      /\ Cardinality(h) = Capacity => Cardinality(g) = Capacity
      /\ IsFiniteSet(g)
  <2>1. CASE evicted = {}
    <3>1. g = h \cup {e} /\ Cardinality(h) < Capacity
      BY <1>1, <1>4, <2>1
    <3>2. Cardinality(g) = Cardinality(h) + 1 /\ IsFiniteSet(g)
      BY <1>2, <1>3, <3>1, FS_AddElement
    <3> QED
      BY <3>1, <3>2, RootFacts
  <2>2. CASE evicted # {}
    <3>1. PICK f \in h : g = (h \ {f}) \cup {e}
      BY <1>1, <1>4, <2>2 DEF Lowest
    <3>2. IsFiniteSet(h \ {f}) /\ Cardinality(h \ {f}) = Cardinality(h) - 1
      BY <1>2, <3>1, FS_RemoveElement
    <3>3. Cardinality(g) = (Cardinality(h) - 1) + 1 /\ IsFiniteSet(g)
      BY <1>3, <3>1, <3>2, FS_AddElement
    <3>4. Cardinality(h) = Capacity
      BY <1>4, <2>2
    <3> QED
      BY <3>3, <3>4, RootFacts
  <2> QED
    BY <2>1, <2>2
<1>6. Cardinality(g) <= Capacity
  BY <1>2, <1>5, RootFacts
<1>7. g \subseteq h \cup {e} /\ e \in g
  BY <1>1
<1>8. \A f \in g : f.val \in Int /\ f.val >= m
  BY <1>2, <1>7, RootFacts
<1>9. l >= m /\ l \in Int
  <2>1. CASE Cardinality(g) < Capacity
    <3>1. l = Threshold
      BY <2>1 DEF Root
    <3>2. Cardinality(h) < Capacity
      BY <1>2, <1>5, <2>1, RootFacts
    <3> QED
      BY <3>1, <3>2, RootFacts
  <2>2. CASE ~ (Cardinality(g) < Capacity)
    <3>1. PICK f \in g : l = f.val
      BY <2>2 DEF Root, Lowest
    <3> QED
      BY <1>8, <3>1
  <2> QED
    BY <2>1, <2>2
<1>10. \A f \in g : f.val > Threshold /\ AsCell(f) \in R \cup {AsCell(e)}
  <2>1. e.val > Threshold
    BY <1>2, RootFacts
  <2> QED
    BY <1>7, <2>1 DEF Holds
<1>11. \A f, d \in g : f.idx = d.idx => f = d
  BY <1>3, <1>7 DEF Holds
<1>12. ASSUME NEW r \in R, r.val > l
       PROVE  \E f \in g : AsCell(f) = r
  <2>1. r.val \in Int /\ r.val > m
    BY <1>9, <1>12, RootFacts DEF Number
  <2>2. PICK f \in h : AsCell(f) = r
    BY <2>1 DEF Holds
  <2>3. f.val > m
    BY <2>1, <2>2 DEF AsCell
  <2>4. f \notin evicted
    BY <1>4, <2>3, RootFacts
  <2> QED
    BY <1>1, <2>2, <2>4
<1> QED
  BY <1>2, <1>5, <1>6, <1>7, <1>9, <1>10, <1>11, <1>12 DEF Holds

\* Such a heap is a selection of the best.
LEMMA HoldsIsTopN ==
  ASSUME NEW h, NEW m, NEW R, R \subseteq Number, Holds(h, m, R)
  PROVE  /\ Merged!IsTopN({AsCell(e) : e \in h}, R)
         /\ Cardinality({AsCell(e) : e \in h}) = Cardinality(h)
         /\ IsFiniteSet({AsCell(e) : e \in h})
<1> DEFINE kept == {AsCell(e) : e \in h}
           best == {c \in R : c.val > Threshold}
           f == [e \in h |-> AsCell(e)]
<1>1. /\ IsFiniteSet(h) /\ Cardinality(h) <= Capacity /\ h \subseteq HeapEntry
      /\ \A e \in h : AsCell(e) \in R /\ e.val > Threshold
      /\ \A e, g \in h : e.idx = g.idx => e = g
  BY DEF Holds
<1>2. \A e \in h : AsCell(e).val = e.val /\ AsCell(e).idx = e.idx
  BY DEF AsCell
<1>3. kept \subseteq best
  BY <1>1, <1>2
<1>4. Cardinality(kept) = Cardinality(h) /\ IsFiniteSet(kept)
  <2>1. f \in [h -> kept]
    OBVIOUS
  <2>2. \A e, g \in h : f[e] = f[g] => e = g
    BY <1>1, <1>2
  <2>3. \A o \in kept : \E e \in h : f[e] = o
    OBVIOUS
  <2> HIDE DEF f, kept
  <2>4. f \in Bijection(h, kept)
    BY <2>1, <2>2, <2>3 DEF Bijection, Injection, Surjection, IsInjective
  <2> QED
    BY <1>1, <2>4, FS_Bijection DEF ExistsBijection
<1>5. \A o \in best \ kept : o.val \in Int /\ ~ (o.val > m)
  BY DEF Holds, Number
<1>6. kept = best \/ Cardinality(kept) = Capacity
  <2>1. CASE Cardinality(h) = Capacity
    BY <1>4, <2>1
  <2>2. CASE Cardinality(h) # Capacity
    <3>1. m = Threshold
      BY <1>1, <2>2, RootFacts
    <3>2. \A o \in best : o \in kept
      BY <1>5, <3>1
    <3> QED
      BY <1>3, <3>2
  <2> QED
    BY <2>1, <2>2
<1>7. \A o \in kept, p \in best \ kept : o.val >= p.val
  <2> SUFFICES ASSUME NEW e \in h, NEW p \in best \ kept PROVE e.val >= p.val
    BY <1>2
  <2>1. e.val >= m /\ e.val \in Int /\ m \in Int
    BY RootFacts
  <2> QED
    BY <1>5, <2>1
<1>8. Merged!Eligible(R) = best
  BY DEF Merged!Eligible
<1>9. Merged!Cardinality(kept) = Cardinality(kept)
  BY DEF Merged!Cardinality, Cardinality
<1>10. Cardinality(kept) <= Capacity
  BY <1>1, <1>4
<1> HIDE DEF kept, best
<1>11. Merged!IsTopN(kept, R)
  BY <1>3, <1>6, <1>7, <1>8, <1>9, <1>10 DEF Merged!IsTopN
<1> QED
  BY <1>4, <1>11 DEF kept

-----------------------------------------------------------------------------
(* The invariant *)

ZipCallOK == IsInput(chunks, whole) /\ top_n \in {0, Capacity}

ZipTyped == ZipTypeOK /\ indptr \in Seq(0 .. MaxIndex) /\ ncols \in Nat

ZipStartOK ==
  phase = "start" => /\ heap = {} /\ n_set = 0 /\ min = Threshold
                     /\ indptr = <<0>> /\ out = <<>>

\* rows is row r of the result when the caller wants n.
ResultIs(rows, w, r, n) ==
  /\ n > 0 => Merged!IsTopN({rows[p] : p \in DOMAIN rows}, WholeRow(w, r))
  /\ \A p, q \in DOMAIN rows : p < q => rows[p].val >= rows[q].val
  /\ Cardinality({rows[p] : p \in DOMAIN rows}) = Len(rows)

ResultsAre ==
  phase = "done" /\ chunks # <<>> =>
    /\ Len(indptr) = ZipRows + 1
    /\ \A r \in 1 .. ZipRows : ResultIs(SubSeq(out, indptr[r] + 1, indptr[r + 1]), whole, r, top_n)

\* The first n rows of o, cut by ip, are those of the result.
RowsAre(o, ip, w, n) ==
  \A r \in 1 .. n : /\ ip[r] <= ip[r + 1] /\ ip[r + 1] <= Len(o)
                    /\ ResultIs(SubSeq(o, ip[r] + 1, ip[r + 1]), w, r, Capacity)

RowOK ==
  phase = "row" =>
    /\ chunks # <<>> /\ SameRows /\ WidthFits /\ top_n = Capacity /\ ncols = TotalCols
    /\ at_row \in 1 .. ZipRows
    /\ IF at_chunk = 0 THEN at_entry = 1 ELSE at_entry <= Len(ChunkRow) + 1
    /\ Holds(heap, min, Numbers(Taken(chunks, at_row, at_chunk, at_entry)))
    /\ Len(indptr) = at_row /\ indptr[at_row] = Len(out)
    /\ RowsAre(out, indptr, whole, at_row - 1)

ZipInv == ZipCallOK /\ ZipTyped /\ ZipStartOK /\ RowOK /\ ResultsAre

LEMMA ResultsAreTopN == ResultsAre => ZipIsTopNOfWhole
BY DEF ResultsAre, ResultIs, WholeRow, ZipIsTopNOfWhole

LEMMA ZipConstants ==
  Capacity \in Nat \ {0} /\ Threshold \in Int /\ MaxIndex \in Nat /\ NaN \notin Int
BY ZipAssumption

LEMMA ZipCallFacts ==
  ASSUME ZipCallOK
  PROVE  /\ chunks \in Seq(ZipChunk) /\ TotalCols \in Nat /\ Len(chunks) \in Nat
         /\ chunks # <<>> => /\ Len(chunks) > 0 /\ ZipRows \in Nat
                             /\ SameRows => \A r \in 1 .. ZipRows : HasRow(chunks, r)
<1>1. PICK cs : cs = chunks
  OBVIOUS
<1>2. cs \in Seq(ZipChunk) /\ Len(cs) \in Nat /\ DOMAIN cs = 1 .. Len(cs)
  BY <1>1, InputFacts, ChunkFacts DEF ZipCallOK
<1>3. PICK W : IsWidths(W, cs) /\ WidthOf(cs) = W[Len(cs)]
  BY <1>2, WidthsExist
<1>4. WidthOf(cs) \in Nat
  BY <1>2, <1>3 DEF IsWidths
<1>5. ASSUME cs # <<>>
      PROVE  /\ Len(cs) > 0 /\ ZipRows \in Nat
             /\ SameRows => \A r \in 1 .. ZipRows : HasRow(cs, r)
  <2>1. Len(cs) > 0
    BY <1>2, <1>5, EmptySeq
  <2>2. PICK rows : rows = cs[1].rows
    OBVIOUS
  <2>3. rows \in Seq(Seq(Cell))
    BY <1>2, <2>1, <2>2, ChunkFacts
  <2>4. ZipRows = Len(rows) /\ Len(rows) \in Nat
    BY <1>1, <2>2, <2>3, LenProperties DEF ZipRows
  <2>5. ASSUME SameRows PROVE \A r \in 1 .. ZipRows : HasRow(cs, r)
    BY <1>1, <1>2, <2>5 DEF SameRows, HasRow
  <2> QED
    BY <2>1, <2>4, <2>5
<1> QED
  BY <1>1, <1>2, <1>4, <1>5 DEF TotalCols

LEMMA ZipCallStays == ASSUME ZipCallOK, UNCHANGED arguments PROVE ZipCallOK'
BY DEF ZipCallOK, arguments, IsInput

LEMMA ZipInitInv == ZipInit => ZipInv
<1> SUFFICES ASSUME ZipInit PROVE ZipInv
  OBVIOUS
<1>1. ZipCallOK
  BY DEF ZipInit, ZipCallOK, IsInput
<1>2. indptr = <<0>> /\ out = <<>> /\ heap = {} /\ n_set = 0 /\ min = Threshold /\ phase = "start"
  BY DEF ZipInit
<1>3. indptr \in Seq(0 .. MaxIndex) /\ DOMAIN indptr = {1} /\ indptr[1] = 0
  <2>1. 0 \in 0 .. MaxIndex
    BY ZipConstants
  <2> QED
    BY <1>2, <2>1
<1>4. out \in Seq([idx : 0 .. MaxIndex, val : Int])
  BY <1>2
<1>5. ZipTypeOK
  BY <1>1, <1>2, <1>3, <1>4, ZipConstants, ZipCallFacts DEF ZipInit, ZipTypeOK
<1> QED
  BY <1>1, <1>2, <1>3, <1>5 DEF ZipInit, ZipInv, ZipTyped, ZipStartOK, RowOK, ResultsAre

LEMMA StopInv == ASSUME ZipInv, NoChunks \/ Refuse PROVE ZipInv'
<1>1. /\ UNCHANGED <<arguments, at_row, at_chunk, at_entry, selection, indptr, out, ncols>>
      /\ phase' \in {"done", "panic"} /\ (phase' = "done" => chunks = <<>>)
  BY DEF NoChunks, Refuse
<1>2. ZipCallOK' /\ chunks' = chunks
  BY <1>1, ZipCallStays DEF ZipInv, arguments
<1>3. ZipTyped'
  BY <1>1, <1>2 DEF ZipInv, ZipTyped, ZipTypeOK, selection
<1> QED
  BY <1>1, <1>2, <1>3 DEF ZipInv, ZipStartOK, RowOK, ResultsAre

LEMMA ZerosInv == ASSUME ZipInv, Zeros PROVE ZipInv'
<1>1. /\ UNCHANGED <<arguments, at_row, at_chunk, at_entry, selection, out>>
      /\ chunks # <<>> /\ (top_n = 0 \/ ZipRows = 0)
      /\ indptr' = [r \in 1 .. ZipRows + 1 |-> 0] /\ ncols' = TotalCols /\ phase' = "done"
      /\ phase = "start"
  BY DEF Zeros
<1>2. PICK n \in Nat : n = ZipRows
  BY <1>1, ZipCallFacts DEF ZipInv
<1>3. ZipCallOK' /\ chunks' = chunks /\ ZipRows' = n /\ top_n' = top_n /\ out' = out
  BY <1>1, <1>2, ZipCallStays DEF ZipInv, arguments, ZipRows
<1>4. /\ indptr' \in Seq(0 .. MaxIndex) /\ Len(indptr') = n + 1
      /\ \A r \in 1 .. n + 1 : indptr'[r] = 0
  <2>1. 0 \in 0 .. MaxIndex
    BY ZipConstants
  <2> QED
    BY <1>1, <1>2, <2>1
<1>5. heap = {} /\ n_set = 0 /\ min = Threshold /\ out = <<>>
  BY <1>1 DEF ZipInv, ZipStartOK
<1>6. ZipTyped'
  <2>1. ncols' \in Nat
    BY <1>1, ZipCallFacts DEF ZipInv
  <2>2. \A p \in DOMAIN indptr' : indptr'[p] \in 0 .. MaxIndex
    BY <1>4, LenProperties
  <2>3. heap' = {} /\ n_set' \in Nat /\ min' \in Int
    BY <1>1, <1>5, ZipConstants DEF selection
  <2> QED
    BY <1>1, <1>3, <1>4, <2>1, <2>2, <2>3 DEF ZipInv, ZipTyped, ZipTypeOK
<1>7. ResultsAre'
  <2>1. ASSUME NEW r \in 1 .. n
        PROVE  SubSeq(out', indptr'[r] + 1, indptr'[r + 1]) = <<>>
    <3>1. indptr'[r] = 0 /\ indptr'[r + 1] = 0
      BY <1>4
    <3> QED
      BY <3>1, SubSeqEmpty
  <2>2. ~ (top_n' > 0) \/ n = 0
    BY <1>1, <1>2, <1>3
  <2>3. DOMAIN <<>> = {} /\ Len(<<>>) = 0 /\ Cardinality({}) = 0
    BY FS_EmptySet
  <2>4. ASSUME NEW rows, rows = <<>>, NEW w, NEW r, NEW k, ~ (k > 0)
        PROVE  ResultIs(rows, w, r, k)
    BY <2>3, <2>4 DEF ResultIs
  <2>5. \A r \in 1 .. n :
          ResultIs(SubSeq(out', indptr'[r] + 1, indptr'[r + 1]), whole', r, top_n')
    <3> SUFFICES ASSUME NEW r \in 1 .. n
                 PROVE  ResultIs(SubSeq(out', indptr'[r] + 1, indptr'[r + 1]), whole', r, top_n')
      OBVIOUS
    <3>1. PICK rows, w, k : /\ rows = SubSeq(out', indptr'[r] + 1, indptr'[r + 1])
                            /\ w = whole' /\ k = top_n'
      OBVIOUS
    <3>2. rows = <<>> /\ ~ (k > 0)
      BY <2>1, <2>2, <3>1
    <3>3. ResultIs(rows, w, r, k)
      BY <2>4, <3>2
    <3> QED
      BY <3>1, <3>3
  <2> QED
    BY <1>3, <1>4, <2>5 DEF ResultsAre
<1> QED
  BY <1>1, <1>3, <1>6, <1>7 DEF ZipInv, ZipStartOK, RowOK

LEMMA EmptyHolds == Holds({}, Threshold, Numbers({}))
<1>1. Cardinality({}) = 0 /\ IsFiniteSet({}) /\ 0 < Capacity /\ 0 <= Capacity
  BY FS_EmptySet, ZipConstants
<1>2. Threshold \in Root({})
  BY <1>1 DEF Root
<1> QED
  BY <1>1, <1>2 DEF Holds, Numbers

LEMMA StartInv == ASSUME ZipInv, Start PROVE ZipInv'
<1>1. /\ UNCHANGED <<arguments, selection, indptr, out>>
      /\ phase = "start" /\ phase' = "row" /\ chunks # <<>> /\ SameRows /\ WidthFits
      /\ top_n > 0 /\ ZipRows > 0
      /\ at_row' = 1 /\ at_chunk' = Len(chunks) /\ at_entry' = 1 /\ ncols' = TotalCols
  BY DEF Start
<1>2. /\ ZipCallOK' /\ chunks' = chunks /\ top_n' = top_n /\ whole' = whole
      /\ out' = out /\ indptr' = indptr /\ heap' = heap /\ n_set' = n_set /\ min' = min
  BY <1>1, ZipCallStays DEF ZipInv, arguments, selection
<1>3. SameRows' /\ ZipRows' = ZipRows /\ TotalCols' = TotalCols /\ WidthFits'
  BY <1>1, <1>2 DEF SameRows, ZipRows, TotalCols, WidthFits
<1>4. /\ chunks \in Seq(ZipChunk) /\ ZipRows \in Nat /\ TotalCols \in Nat
      /\ Len(chunks) \in Nat /\ Len(chunks) > 0 /\ HasRow(chunks, 1) /\ top_n = Capacity
  BY <1>1, ZipCallFacts, ZipConstants DEF ZipInv, ZipCallOK
<1>5. heap = {} /\ n_set = 0 /\ min = Threshold /\ indptr = <<0>> /\ out = <<>>
  BY <1>1 DEF ZipInv, ZipStartOK
<1>6. Holds({}, Threshold, Numbers({}))
  BY EmptyHolds
<1>7. Taken(chunks, 1, Len(chunks), 1) = {}
  BY <1>1, <1>4, TakenGrows
<1>8. Holds(heap', min', Numbers(Taken(chunks', at_row', at_chunk', at_entry')))
  BY <1>1, <1>2, <1>5, <1>6, <1>7
<1>9. at_entry' <= Len(ChunkRow') + 1 /\ at_chunk' # 0
  <2>1. Len(chunks[Len(chunks)].rows[1]) \in Nat
    BY <1>4, RowFacts
  <2> QED
    BY <1>1, <1>2, <1>4, <2>1 DEF ChunkRow
<1>10. Len(indptr') = at_row' /\ indptr'[at_row'] = Len(out') /\ RowsAre(out', indptr', whole', at_row' - 1)
  BY <1>1, <1>2, <1>5 DEF RowsAre
<1>11. ZipTyped'
  BY <1>1, <1>2, <1>4, <1>5 DEF ZipInv, ZipTyped, ZipTypeOK
<1>12. RowOK'
  BY <1>1, <1>2, <1>3, <1>4, <1>8, <1>9, <1>10 DEF RowOK
<1> QED
  BY <1>1, <1>2, <1>11, <1>12 DEF ZipInv, ZipStartOK, ResultsAre

\* What a step of the walk passes.
LEMMA NextCell ==
  ASSUME NEW cs, NEW w, IsInput(cs, w), NEW r, HasRow(cs, r),
         NEW d, NEW e, IsAt(cs, r, d, e), NEW o, o = CellAt(cs, r, d, e)
  PROVE  /\ o \in Cell /\ o.idx < WidthOf(cs)
         /\ Taken(cs, r, d, e + 1) = Taken(cs, r, d, e) \cup {o}
         /\ \A u \in Taken(cs, r, d, e) : u \in Cell /\ u.idx # o.idx
<1>1. cs \in Seq(ZipChunk)
  BY InputFacts
<1>2. PICK len \in Nat : len = Len(cs)
  BY <1>1, ChunkFacts
<1>3. PICK W : /\ IsWidths(W, cs) /\ WidthOf(cs) = W[len]
               /\ \A x \in 1 .. Len(cs) + 1 : WidthOf(SubSeq(cs, 1, x - 1)) = W[x - 1]
  BY <1>1, <1>2, WidthsExist
<1>4. o \in Cell /\ o.idx < W[d] /\ W[d] <= W[len] /\ W[d] \in Nat /\ W[len] \in Nat
  <2>1. W[len] \in Nat
    BY <1>2, <1>3 DEF IsWidths
  <2> QED
    BY <1>2, <1>3, <2>1, CellFacts
<1>5. o.idx < WidthOf(cs)
  BY <1>3, <1>4 DEF Cell
<1>6. d \in 1 .. len /\ e \in 1 .. Len(cs[d].rows[r]) /\ cs # <<>>
  BY <1>2 DEF IsAt
<1>7. Taken(cs, r, d, e + 1) = Taken(cs, r, d, e) \cup {o}
  <2>1. \A x \in 1 .. Len(cs[d].rows[r]) :
          Taken(cs, r, d, x + 1) = Taken(cs, r, d, x) \cup {CellAt(cs, r, d, x)}
    BY <1>1, <1>2, <1>6, TakenGrows
  <2> QED
    BY <1>6, <2>1
<1>8. ASSUME NEW u \in Taken(cs, r, d, e) PROVE u \in Cell /\ u.idx # o.idx
  <2>1. Len(cs[d].rows[r]) \in Nat
    BY <1>1, <1>2, <1>6, RowFacts
  <2>2. d \in Nat /\ e \in Nat /\ d <= Len(cs) /\ e - 1 <= Len(cs[d].rows[r])
    BY <1>2, <1>6, <2>1
  <2>3. PICK c, p : /\ IsAt(cs, r, c, p) /\ (c > d \/ (c = d /\ p < e))
                    /\ u = CellAt(cs, r, c, p)
    BY <1>1, <2>2, TakenIs
  <2>4. ~ (c = d /\ p = e)
    BY <2>2, <2>3
  <2>5. u \in Cell
    BY <1>2, <1>3, <2>3, CellFacts
  <2> QED
    BY <2>3, <2>4, <2>5, CellsApart
<1> QED
  BY <1>4, <1>5, <1>7, <1>8

LEMMA MergeInv == ASSUME ZipInv, Merge PROVE ZipInv'
<1>1. /\ UNCHANGED <<arguments, phase, at_row, at_chunk, indptr, out, ncols>>
      /\ phase = "row" /\ at_chunk > 0 /\ at_entry <= Len(ChunkRow) /\ at_entry' = at_entry + 1
  BY DEF Merge
<1>2. /\ ZipCallOK' /\ chunks' = chunks /\ top_n' = top_n /\ whole' = whole
      /\ out' = out /\ indptr' = indptr /\ phase' = phase /\ at_row' = at_row
      /\ at_chunk' = at_chunk /\ ncols' = ncols
  BY <1>1, ZipCallStays DEF ZipInv, arguments
<1>3. SameRows' /\ ZipRows' = ZipRows /\ TotalCols' = TotalCols /\ WidthFits' /\ ChunkRow' = ChunkRow
  BY <1>1, <1>2 DEF ZipInv, RowOK, SameRows, ZipRows, TotalCols, WidthFits, ChunkRow
<1>4. PICK cs, w, r, d, e, h, m :
        /\ cs = chunks /\ w = whole /\ r = at_row /\ d = at_chunk /\ e = at_entry
        /\ h = heap /\ m = min
  OBVIOUS
<1>5. /\ chunks # <<>> /\ SameRows /\ WidthFits /\ top_n = Capacity /\ ncols = TotalCols
      /\ r \in 1 .. ZipRows
      /\ Holds(h, m, Numbers(Taken(cs, r, d, e)))
      /\ Len(indptr) = at_row /\ indptr[at_row] = Len(out)
      /\ RowsAre(out, indptr, whole, at_row - 1)
  BY <1>1, <1>4 DEF ZipInv, RowOK
<1>6. IsInput(cs, w) /\ HasRow(cs, r) /\ cs \in Seq(ZipChunk) /\ TotalCols \in Nat /\ TotalCols = WidthOf(cs)
  BY <1>4, <1>5, ZipCallFacts DEF ZipInv, ZipCallOK, TotalCols
<1>7. /\ d \in 1 .. Len(cs) /\ e \in Nat \ {0} /\ n_set \in Nat
      /\ heap \subseteq [order : 0 .. n_set - 1, idx : 0 .. ncols - 1, val : Int]
  <2>1. d \in 0 .. Len(cs) /\ e \in Nat \ {0}
    BY <1>4 DEF ZipInv, ZipTyped, ZipTypeOK
  <2>2. Len(cs) \in Nat
    BY <1>6, ChunkFacts
  <2> QED
    BY <1>1, <1>4, <2>1, <2>2 DEF ZipInv, ZipTyped, ZipTypeOK
<1>8. PICK row : row = cs[d].rows[r] /\ row = ChunkRow
  BY <1>4 DEF ChunkRow
<1>9. Len(row) \in Nat /\ IsAt(cs, r, d, e) /\ e \in 1 .. Len(row)
  <2>1. Len(row) \in Nat
    BY <1>6, <1>7, <1>8, RowFacts
  <2>2. e \in 1 .. Len(row)
    BY <1>1, <1>4, <1>7, <1>8, <2>1
  <2> QED
    BY <1>7, <1>8, <2>1, <2>2 DEF IsAt
<1>10. PICK o : o = CellAt(cs, r, d, e)
  OBVIOUS
<1>11. /\ o \in Cell /\ o.idx < WidthOf(cs)
       /\ Taken(cs, r, d, e + 1) = Taken(cs, r, d, e) \cup {o}
       /\ \A u \in Taken(cs, r, d, e) : u \in Cell /\ u.idx # o.idx
  BY <1>6, <1>9, <1>10, NextCell
<1>12. o.val = ChunkRow[at_entry].val /\ o.idx = Offset(at_chunk) + ChunkRow[at_entry].idx
  BY <1>4, <1>8, <1>10 DEF CellAt, Offset
<1>13. PICK R, S : R = Numbers(Taken(cs, r, d, e)) /\ S = Numbers(Taken(cs, r, d, e + 1))
  OBVIOUS
<1>14. /\ R \subseteq Number /\ S = R \cup Numbers({o}) /\ \A u \in R : u.idx # o.idx
       /\ o.idx \in Nat /\ o.idx \in 0 .. ncols - 1
  <2>1. R \subseteq Number
    BY <1>11, <1>13 DEF Numbers, Number, Cell, Value
  <2>2. o.idx \in Nat /\ o.idx \in 0 .. ncols - 1
    BY <1>5, <1>6, <1>11 DEF Cell
  <2> QED
    BY <1>11, <1>13, <2>1, <2>2 DEF Numbers
<1>15. /\ heap' \subseteq [order : 0 .. n_set' - 1, idx : 0 .. ncols - 1, val : Int]
       /\ n_set' \in Nat /\ min' \in Int /\ Holds(heap', min', S)
  <2>1. CASE Gt(o.val, min)
    <3>1. PICK entry : entry = [order |-> n_set, val |-> o.val, idx |-> o.idx]
      OBVIOUS
    <3>2. heap' \in Pushed(heap, entry) /\ n_set' = n_set + 1 /\ min' \in Root(heap')
      BY <1>12, <2>1, <3>1 DEF Merge
    <3>3. o.val \in Int /\ o.val > m /\ o.val # NaN
      BY <1>4, <1>11, <2>1, ZipConstants DEF Gt, Cell, Value
    <3>4. entry \in HeapEntry /\ entry.val = o.val /\ entry.idx = o.idx
      BY <1>7, <1>14, <3>1, <3>3 DEF HeapEntry
    <3>5. AsCell(entry) = o
      BY <1>11, <3>4 DEF AsCell, Cell
    <3>6. PICK g, l : g = heap' /\ l = min'
      OBVIOUS
    <3>7. g \in Pushed(h, entry) /\ l \in Root(g)
      BY <1>4, <3>2, <3>6
    <3>8. Holds(h, m, R)
      BY <1>5, <1>13
    <3>9. entry.val > m /\ \A u \in R : u.idx # entry.idx
      BY <1>14, <3>3, <3>4
    <3>10. Holds(g, l, R \cup {o}) /\ g \subseteq h \cup {entry} /\ l \in Int
      <4>1. R \subseteq Number /\ entry \in HeapEntry
        BY <1>14, <3>4
      <4>2. /\ Holds(g, l, R \cup {AsCell(entry)})
            /\ g \subseteq h \cup {entry} /\ l \in Int
        BY <3>7, <3>8, <3>9, <4>1, HoldsPush
      <4> QED
        BY <3>5, <4>2
    <3>11. S = R \cup {o}
      BY <1>14, <3>3 DEF Numbers
    <3>12. entry \in [order : 0 .. (n_set + 1) - 1, idx : 0 .. ncols - 1, val : Int]
      BY <1>7, <1>14, <3>1, <3>3
    <3>13. heap \subseteq [order : 0 .. (n_set + 1) - 1, idx : 0 .. ncols - 1, val : Int]
      BY <1>7
    <3> QED
      <4>1. heap' \subseteq [order : 0 .. (n_set + 1) - 1, idx : 0 .. ncols - 1, val : Int]
        BY <1>4, <3>6, <3>10, <3>12, <3>13
      <4>2. Holds(heap', min', S) /\ min' \in Int /\ n_set' \in Nat
        <5>1. n_set' \in Nat
          BY <1>7, <3>2
        <5>2. Holds(g, l, S)
          BY <3>10, <3>11
        <5> QED
          BY <3>6, <3>10, <5>1, <5>2
      <4> QED
        BY <3>2, <4>1, <4>2
  <2>2. CASE ~ Gt(o.val, min)
    <3>1. UNCHANGED <<heap, n_set, min>>
      BY <1>12, <2>2 DEF Merge, selection
    <3>2. \A u \in S : u \in R \/ ~ (u.val > m)
      BY <1>4, <1>14, <2>2, ZipConstants, RootFacts, <1>5 DEF Numbers, Gt
    <3>3. Holds(h, m, S)
      BY <1>5, <1>13, <1>14, <3>2, HoldsMore
    <3>4. m \in Int
      BY <3>3, RootFacts
    <3> QED
      BY <1>4, <1>7, <3>1, <3>3, <3>4
  <2> QED
    BY <2>1, <2>2
<1>16. ZipTyped'
  <2>1. at_entry' \in Nat \ {0}
    BY <1>1, <1>4, <1>7
  <2> QED
    BY <1>2, <1>15, <2>1 DEF ZipInv, ZipTyped, ZipTypeOK
<1>17. RowOK'
  <2>1. at_entry' <= Len(ChunkRow') + 1
    BY <1>1, <1>3, <1>4, <1>8, <1>9
  <2>2. Holds(heap', min', Numbers(Taken(chunks', at_row', at_chunk', at_entry')))
    BY <1>1, <1>2, <1>4, <1>13, <1>15
  <2>3. at_chunk' # 0 /\ at_row' \in 1 .. ZipRows'
    BY <1>2, <1>3, <1>4, <1>5, <1>7
  <2> QED
    BY <1>2, <1>3, <1>5, <2>1, <2>2, <2>3 DEF RowOK
<1> QED
  BY <1>1, <1>2, <1>16, <1>17 DEF ZipInv, ZipStartOK, ResultsAre

\* Going on to the chunk before passes nothing.
LEMMA NextChunkTakes ==
  ASSUME ZipInv, NextChunk
  PROVE  /\ chunks \in Seq(ZipChunk) /\ Len(chunks) \in Nat /\ HasRow(chunks, at_row)
         /\ at_chunk \in 1 .. Len(chunks)
         /\ Taken(chunks, at_row, at_chunk - 1, 1) = Taken(chunks, at_row, at_chunk, at_entry)
<1>1. phase = "row" /\ at_chunk > 0 /\ at_entry > Len(ChunkRow)
  BY DEF NextChunk
<1>2. PICK cs, r, d, e :
        cs = chunks /\ r = at_row /\ d = at_chunk /\ e = at_entry
  OBVIOUS
<1>3. /\ cs # <<>> /\ SameRows /\ r \in 1 .. ZipRows /\ e <= Len(ChunkRow) + 1
      /\ Holds(heap, min, Numbers(Taken(cs, r, d, e)))
  BY <1>1, <1>2 DEF ZipInv, RowOK
<1>4. HasRow(cs, r) /\ cs \in Seq(ZipChunk) /\ Len(cs) \in Nat
  BY <1>2, <1>3, ZipCallFacts DEF ZipInv
<1>5. d \in 1 .. Len(cs) /\ e \in Nat
  <2>1. d \in 0 .. Len(cs) /\ e \in Nat \ {0}
    BY <1>2 DEF ZipInv, ZipTyped, ZipTypeOK
  <2> QED
    BY <1>1, <1>2, <1>4, <2>1
<1>6. ChunkRow = cs[d].rows[r]
  BY <1>2 DEF ChunkRow
<1>7. Len(cs[d].rows[r]) \in Nat /\ e = Len(cs[d].rows[r]) + 1
  <2>1. Len(cs[d].rows[r]) \in Nat
    BY <1>4, <1>5, RowFacts
  <2> QED
    BY <1>1, <1>2, <1>3, <1>5, <1>6, <2>1
<1>8. Taken(cs, r, d - 1, 1) = Taken(cs, r, d, e)
  BY <1>3, <1>4, <1>5, <1>7, TakenGrows
<1> QED
  BY <1>2, <1>4, <1>5, <1>8

LEMMA NextChunkInv == ASSUME ZipInv, NextChunk PROVE ZipInv'
<1>1. /\ UNCHANGED <<arguments, phase, at_row, selection, indptr, out, ncols>>
      /\ phase = "row" /\ at_chunk > 0 /\ at_entry > Len(ChunkRow)
      /\ at_chunk' = at_chunk - 1 /\ at_entry' = 1
  BY DEF NextChunk
<1>2. /\ ZipCallOK' /\ chunks' = chunks /\ top_n' = top_n /\ whole' = whole
      /\ out' = out /\ indptr' = indptr /\ phase' = phase /\ at_row' = at_row
      /\ ncols' = ncols /\ heap' = heap /\ n_set' = n_set /\ min' = min
  BY <1>1, ZipCallStays DEF ZipInv, arguments, selection
<1>3. SameRows' /\ ZipRows' = ZipRows /\ TotalCols' = TotalCols /\ WidthFits'
  BY <1>1, <1>2 DEF ZipInv, RowOK, SameRows, ZipRows, TotalCols, WidthFits
<1>4. /\ chunks \in Seq(ZipChunk) /\ Len(chunks) \in Nat /\ HasRow(chunks, at_row)
      /\ at_chunk \in 1 .. Len(chunks)
      /\ Taken(chunks, at_row, at_chunk - 1, 1) = Taken(chunks, at_row, at_chunk, at_entry)
  BY NextChunkTakes
<1>5. Holds(heap', min', Numbers(Taken(chunks', at_row', at_chunk', at_entry')))
  <2>1. Holds(heap, min, Numbers(Taken(chunks, at_row, at_chunk, at_entry)))
    BY <1>1 DEF ZipInv, RowOK
  <2> QED
    BY <1>1, <1>2, <1>4, <2>1
<1>6. IF at_chunk' = 0 THEN at_entry' = 1 ELSE at_entry' <= Len(ChunkRow') + 1
  <2>1. CASE at_chunk - 1 = 0
    BY <1>1, <2>1
  <2>2. CASE at_chunk - 1 # 0
    <3>1. at_chunk - 1 \in 1 .. Len(chunks)
      BY <1>4, <2>2
    <3>2. Len(chunks[at_chunk - 1].rows[at_row]) \in Nat
      BY <1>4, <3>1, RowFacts
    <3>3. ChunkRow' = chunks[at_chunk - 1].rows[at_row]
      BY <1>1, <1>2 DEF ChunkRow
    <3> QED
      BY <1>1, <2>2, <3>2, <3>3
  <2> QED
    BY <2>1, <2>2
<1>7. RowOK'
  BY <1>1, <1>2, <1>3, <1>5, <1>6 DEF ZipInv, RowOK
<1>8. at_chunk' \in 0 .. Len(chunks') /\ at_entry' \in Nat \ {0}
  BY <1>1, <1>2, <1>4
<1>9. ZipTyped'
  BY <1>2, <1>8 DEF ZipInv, ZipTyped, ZipTypeOK
<1> QED
  BY <1>1, <1>2, <1>7, <1>9 DEF ZipInv, ZipStartOK, ResultsAre

LEMMA DescByValue == \A e, f : ByValueDesc(e, f) <=> e.val > f.val
BY DEF ByValueDesc

\* What is emitted of a row.
LEMMA EmittedRow ==
  ASSUME NEW cs, NEW w, IsInput(cs, w), NEW r, HasRow(cs, r), cs # <<>>,
         NEW h, NEW m, Holds(h, m, Numbers(Taken(cs, r, 0, 1))),
         \A e \in h : e.idx \in 0 .. MaxIndex,
         NEW f \in Listings(h, ByValueDesc),
         NEW g, g = [p \in DOMAIN f |-> [idx |-> f[p].idx, val |-> f[p].val]]
  PROVE  ResultIs(g, w, r, Capacity) /\ g \in Seq([idx : 0 .. MaxIndex, val : Int])
<1> DEFINE row == {AsCell(e) : e \in h}
<1>1. PICK R : R = Numbers(Taken(cs, r, 0, 1))
  OBVIOUS
<1>2. R \subseteq Number
  <2>1. R \subseteq WholeRow(w, r) /\ DOMAIN w[r] = 0 .. WidthOf(cs) - 1
        /\ \A c \in DOMAIN w[r] : w[r][c] \in Value
    BY <1>1, CellsAreWhole
  <2> QED
    BY <2>1 DEF WholeRow, Number, Value
<1>3. Holds(h, m, R)
  BY <1>1
<1>4. Merged!IsTopN(row, R) /\ Cardinality(row) = Cardinality(h) /\ IsFiniteSet(row)
  BY <1>2, <1>3, HoldsIsTopN
<1>5. PICK n \in Nat : n = Cardinality(h)
  BY <1>3, RootFacts
<1>6. /\ f \in [1 .. n -> h] /\ {f[p] : p \in 1 .. n} = h
      /\ \A p, s \in 1 .. n : p < s => ~ (f[s].val > f[p].val)
  <2>1. f \in [1 .. Cardinality(h) -> h]
    BY DEF Listings
  <2>2. DOMAIN f = 1 .. n
    BY <1>5, <2>1
  <2>3. {f[p] : p \in DOMAIN f} = h /\ \A p, s \in DOMAIN f : p < s => ~ ByValueDesc(f[s], f[p])
    BY DEF Listings
  <2> QED
    BY <1>5, <2>1, <2>2, <2>3, DescByValue
<1>7. /\ DOMAIN g = 1 .. n /\ Len(g) = n
      /\ \A p \in 1 .. n : g[p] = AsCell(f[p]) /\ g[p].val = f[p].val /\ f[p].val \in Int
  <2>1. DOMAIN f = 1 .. n
    BY <1>6
  <2>2. g = [p \in 1 .. n |-> AsCell(f[p])]
    BY <2>1 DEF AsCell
  <2>3. \A p \in 1 .. n : f[p] \in h /\ f[p].val \in Int
    BY <1>3, <1>6, RootFacts
  <2>4. \A p \in 1 .. n : AsCell(f[p]).val = f[p].val
    BY DEF AsCell
  <2>5. Len(g) = n
    BY <2>2
  <2> QED
    BY <2>2, <2>3, <2>4, <2>5
<1>8. {g[p] : p \in DOMAIN g} = row
  <2>1. {g[p] : p \in DOMAIN g} = {AsCell(f[p]) : p \in 1 .. n}
    BY <1>7
  <2>2. {AsCell(f[p]) : p \in 1 .. n} = row
    BY <1>6
  <2> QED
    BY <2>1, <2>2
<1>9. \A p, s \in DOMAIN g : p < s => g[p].val >= g[s].val
  BY <1>6, <1>7
<1>10. Cardinality(row) = Len(g)
  BY <1>4, <1>5, <1>7
<1> HIDE DEF row
<1>11. Merged!IsTopN(row, WholeRow(w, r))
  BY <1>1, <1>4, PartsSelectWhole
<1>12. g \in Seq([idx : 0 .. MaxIndex, val : Int])
  <2>1. ASSUME NEW p \in 1 .. n PROVE g[p] \in [idx : 0 .. MaxIndex, val : Int]
    <3>1. f[p] \in h
      BY <1>6
    <3>2. f[p].idx \in 0 .. MaxIndex /\ f[p].val \in Int
      BY <1>7, <3>1
    <3> QED
      BY <1>7, <3>2 DEF AsCell
  <2>2. g = [p \in 1 .. n |-> g[p]]
    BY <1>7
  <2> QED
    BY <2>1, <2>2
<1> QED
  BY <1>8, <1>9, <1>10, <1>11, <1>12 DEF ResultIs

\* Appending a row and its offset.
LEMMA AppendedRow ==
  ASSUME NEW T, NEW o \in Seq(T), NEW g \in Seq(T), NEW n \in Nat \ {0},
         NEW ip, ip \in Seq(Nat), Len(ip) = n, ip[n] = Len(o), NEW w,
         NEW m, m = n - 1, RowsAre(o, ip, w, m), ResultIs(g, w, n, Capacity),
         NEW total, total = o \o g, NEW jp, jp = Append(ip, Len(total))
  PROVE  RowsAre(total, jp, w, n)
<1>1. PICK k, l \in Nat : k = Len(o) /\ l = Len(g)
  BY LenProperties
<1>2. total \in Seq(T) /\ Len(total) = k + l
  BY <1>1, ConcatProperties
<1>3. Len(jp) = n + 1 /\ jp[n + 1] = k + l /\ \A r \in 1 .. n : jp[r] = ip[r] /\ ip[r] \in Nat
  <2>1. Len(total) \in Nat
    BY <1>1, <1>2
  <2>2. Len(jp) = n + 1 /\ jp[n + 1] = Len(total) /\ \A r \in 1 .. n : jp[r] = ip[r]
    BY <2>1, AppendProperties
  <2>3. \A r \in 1 .. n : ip[r] \in Nat
    BY ElementOfSeq
  <2> QED
    BY <1>2, <2>2, <2>3
<1>4. ASSUME NEW r \in 1 .. n
      PROVE  /\ jp[r] <= jp[r + 1] /\ jp[r + 1] <= Len(total)
             /\ ResultIs(SubSeq(total, jp[r] + 1, jp[r + 1]), w, r, Capacity)
  <2>1. CASE r = n
    <3>1. jp[r] = k /\ jp[r + 1] = k + l
      BY <1>1, <1>3, <2>1
    <3>2. SubSeq(total, k + 1, k + l) = g
      <4>1. CASE l = 0
        <5>1. SubSeq(total, k + 1, k + l) = <<>>
          BY <4>1, SubSeqEmpty
        <5>2. g = <<>>
          BY <1>1, <4>1, EmptySeq
        <5> QED
          BY <5>1, <5>2
      <4>2. CASE l # 0
        <5>1. k + 1 \in Len(o) + 1 .. Len(o) + Len(g) /\ k + l \in Len(o) + 1 .. Len(o) + Len(g)
          BY <1>1, <4>2
        <5>2. SubSeq(total, k + 1, k + l) = SubSeq(g, (k + 1) - Len(o), (k + l) - Len(o))
          BY <5>1, SubSeqOfConcat2
        <5>3. (k + 1) - Len(o) = 1 /\ (k + l) - Len(o) = Len(g)
          BY <1>1
        <5>4. SubSeq(g, 1, Len(g)) = g
          BY SubSeqFull
        <5> QED
          BY <5>2, <5>3, <5>4
      <4> QED
        BY <4>1, <4>2
    <3> QED
      <4>1. k <= k + l /\ k + l <= Len(total)
        BY <1>1, <1>2
      <4> QED
        BY <2>1, <3>1, <3>2, <4>1
  <2>2. CASE r # n
    <3>1. r \in 1 .. n - 1 /\ r + 1 \in 1 .. n
      BY <2>2
    <3>2. PICK from, to \in Nat : from = ip[r] /\ to = ip[r + 1] /\ jp[r] = from /\ jp[r + 1] = to
      BY <1>3, <3>1
    <3>3. /\ from <= to /\ to <= k
          /\ ResultIs(SubSeq(o, from + 1, to), w, r, Capacity)
      BY <1>1, <3>1, <3>2 DEF RowsAre
    <3>4. SubSeq(total, from + 1, to) = SubSeq(o, from + 1, to)
      <4>1. CASE from = to
        <5>1. to < from + 1
          BY <4>1
        <5> QED
          BY <5>1, SubSeqEmpty
      <4>2. CASE from # to
        <5>1. from + 1 \in 1 .. Len(o) /\ to \in 1 .. Len(o)
          BY <1>1, <3>3, <4>2
        <5> QED
          BY <5>1, SubSeqOfConcat1
      <4> QED
        BY <4>1, <4>2
    <3> QED
      <4>1. to <= Len(total)
        BY <1>1, <1>2, <3>3
      <4> QED
        BY <3>2, <3>3, <3>4, <4>1
  <2> QED
    BY <2>1, <2>2
<1> QED
  BY <1>2, <1>3, <1>4 DEF RowsAre

LEMMA EmitRowInv == ASSUME ZipInv, EmitRow PROVE ZipInv'
<1>1. /\ UNCHANGED <<arguments, at_entry, ncols>>
      /\ phase = "row" /\ at_chunk = 0
  BY DEF EmitRow
<1>2. PICK f \in Listings(heap, ByValueDesc) :
        out' = out \o [p \in DOMAIN f |-> [idx |-> f[p].idx, val |-> f[p].val]]
  BY DEF EmitRow
<1>3. /\ ZipCallOK' /\ chunks' = chunks /\ top_n' = top_n /\ whole' = whole
      /\ at_entry' = at_entry /\ ncols' = ncols
  BY <1>1, ZipCallStays DEF ZipInv, arguments
<1>4. /\ chunks # <<>> /\ SameRows /\ WidthFits /\ top_n = Capacity /\ ncols = TotalCols
      /\ at_row \in 1 .. ZipRows /\ at_entry = 1
      /\ Holds(heap, min, Numbers(Taken(chunks, at_row, 0, 1)))
      /\ Len(indptr) = at_row /\ indptr[at_row] = Len(out)
      /\ RowsAre(out, indptr, whole, at_row - 1)
  BY <1>1 DEF ZipInv, RowOK
<1>5. SameRows' /\ ZipRows' = ZipRows /\ TotalCols' = TotalCols /\ WidthFits'
  BY <1>3, <1>4 DEF SameRows, ZipRows, TotalCols, WidthFits
<1>6. /\ HasRow(chunks, at_row) /\ chunks \in Seq(ZipChunk) /\ TotalCols \in Nat /\ ZipRows \in Nat
      /\ Len(chunks) \in Nat /\ Len(chunks) > 0 /\ \A r \in 1 .. ZipRows : HasRow(chunks, r)
      /\ at_row \in Nat \ {0}
  BY <1>4, ZipCallFacts DEF ZipInv
<1>7. /\ heap \subseteq [order : 0 .. n_set - 1, idx : 0 .. ncols - 1, val : Int]
      /\ indptr \in Seq(0 .. MaxIndex) /\ out \in Seq([idx : 0 .. MaxIndex, val : Int])
      /\ n_set \in Nat /\ min \in Int /\ ncols \in Nat
  BY DEF ZipInv, ZipTyped, ZipTypeOK
<1>8. \A e \in heap : e.idx \in 0 .. MaxIndex
  <2>1. ncols - 1 <= MaxIndex
    BY <1>4 DEF WidthFits
  <2>2. \A e \in heap : e.idx \in 0 .. ncols - 1
    BY <1>7
  <2> QED
    BY <1>7, <2>1, <2>2, ZipConstants
<1>9. PICK g : g = [p \in DOMAIN f |-> [idx |-> f[p].idx, val |-> f[p].val]] /\ out' = out \o g
  BY <1>2
<1>10. PICK cs, w, r, h, m, o, ip, total, jp :
         /\ cs = chunks /\ w = whole /\ r = at_row /\ h = heap /\ m = min /\ o = out
         /\ ip = indptr /\ total = out' /\ jp = Append(ip, Len(total))
  OBVIOUS
<1>11. ResultIs(g, w, r, Capacity) /\ g \in Seq([idx : 0 .. MaxIndex, val : Int])
  <2>1. IsInput(cs, w) /\ HasRow(cs, r) /\ cs # <<>>
    BY <1>4, <1>6, <1>10 DEF ZipInv, ZipCallOK
  <2>2. Holds(h, m, Numbers(Taken(cs, r, 0, 1))) /\ f \in Listings(h, ByValueDesc)
    BY <1>2, <1>4, <1>10
  <2>3. \A e \in h : e.idx \in 0 .. MaxIndex
    BY <1>8, <1>10
  <2> QED
    BY <1>9, <2>1, <2>2, <2>3, EmittedRow
<1>12. /\ RowsAre(total, jp, w, r) /\ Len(jp) = r + 1 /\ jp[r + 1] = Len(total)
       /\ total \in Seq([idx : 0 .. MaxIndex, val : Int])
  <2>1. PICK T : T = [idx : 0 .. MaxIndex, val : Int]
    OBVIOUS
  <2>2. o \in Seq(T) /\ g \in Seq(T) /\ r \in Nat \ {0}
    BY <1>6, <1>7, <1>10, <1>11, <2>1
  <2>3. ip \in Seq(Nat)
    <3>1. PICK n \in Nat : ip \in [1 .. n -> 0 .. MaxIndex]
      BY <1>7, <1>10, LenProperties
    <3>2. ip \in [1 .. n -> Nat]
      BY <3>1
    <3> QED
      BY <3>2
  <2>4. Len(ip) = r /\ ip[r] = Len(o) /\ RowsAre(o, ip, w, r - 1) /\ total = o \o g
    BY <1>4, <1>9, <1>10
  <2>5. total \in Seq(T)
    BY <2>2, <2>4, ConcatProperties
  <2> QED
    <3>1. ResultIs(g, w, r, Capacity) /\ jp = Append(ip, Len(total))
      BY <1>10, <1>11
    <3>2. RowsAre(total, jp, w, r) /\ Len(jp) = r + 1 /\ jp[r + 1] = Len(total)
      <4>1. PICK k : k = r - 1
        OBVIOUS
      <4>2. RowsAre(o, ip, w, k) /\ ResultIs(g, w, r, Capacity) /\ Len(ip) = r /\ ip[r] = Len(o)
        BY <2>4, <3>1, <4>1
      <4>3. total = o \o g /\ jp = Append(ip, Len(total))
        BY <2>4, <3>1
      <4>4. RowsAre(total, jp, w, r)
        BY <2>2, <2>3, <4>1, <4>2, <4>3, AppendedRow
      <4>5. Len(total) \in Nat
        BY <2>5, LenProperties
      <4> QED
        BY <2>3, <4>2, <4>3, <4>4, <4>5, AppendProperties
    <3> QED
      BY <2>1, <2>5, <3>2
<1>13. Len(total) \in Nat
  BY <1>12, LenProperties
<1>14. CASE Narrows(Len(out')) /\ indptr' = Append(indptr, Len(out')) /\ at_row < ZipRows
            /\ at_row' = at_row + 1 /\ at_chunk' = Len(chunks)
            /\ heap' = {} /\ n_set' = 0 /\ min' = MinOfReset /\ phase' = phase
  <2>1. indptr' = jp /\ out' = total /\ Len(total) \in 0 .. MaxIndex
    BY <1>10, <1>13, <1>14, ZipConstants DEF Narrows
  <2>2. indptr' \in Seq(0 .. MaxIndex)
    BY <1>7, <1>10, <2>1, AppendProperties
  <2>3. at_row' \in 1 .. ZipRows /\ at_row' = r + 1
    BY <1>4, <1>6, <1>10, <1>14
  <2>4. Holds({}, Threshold, Numbers({}))
    BY EmptyHolds
  <2>5. HasRow(chunks, at_row') /\ Taken(chunks, at_row', Len(chunks), 1) = {}
    <3>1. HasRow(chunks, at_row')
      BY <1>6, <2>3
    <3> QED
      BY <1>4, <1>6, <3>1, TakenGrows
  <2>6. Holds(heap', min', Numbers(Taken(chunks', at_row', at_chunk', at_entry')))
    BY <1>3, <1>4, <1>14, <2>4, <2>5 DEF MinOfReset
  <2>7. at_entry' <= Len(ChunkRow') + 1 /\ at_chunk' # 0
    <3>1. Len(chunks[Len(chunks)].rows[at_row']) \in Nat
      BY <1>6, <2>5, RowFacts
    <3> QED
      <4>1. ChunkRow' = chunks[Len(chunks)].rows[at_row']
        BY <1>3, <1>14 DEF ChunkRow
      <4> QED
        <5>1. Len(ChunkRow') \in Nat
          BY <3>1, <4>1
        <5>2. at_entry' = 1 /\ at_chunk' = Len(chunks)
          BY <1>3, <1>4, <1>14
        <5>3. at_chunk' # 0
          BY <1>6, <5>2
        <5> HIDE DEF ChunkRow
        <5> QED
          BY <5>1, <5>2, <5>3
  <2>8. /\ Len(indptr') = at_row' /\ indptr'[at_row'] = Len(out')
        /\ RowsAre(out', indptr', whole', at_row' - 1)
    <3>1. at_row' - 1 = r
      BY <1>6, <1>10, <2>3
    <3> QED
      BY <1>3, <1>10, <1>12, <2>1, <2>3, <3>1
  <2>9. ZipTyped'
    <3>1. \A p \in DOMAIN indptr' : indptr'[p] \in 0 .. MaxIndex
      BY <2>2, LenProperties
    <3>2. at_chunk' \in 0 .. Len(chunks') /\ at_entry' \in Nat \ {0} /\ at_row' \in Nat
      BY <1>3, <1>4, <1>6, <1>14, <2>3
    <3>3. n_set' \in Nat /\ min' \in Int /\ out' \in Seq([idx : 0 .. MaxIndex, val : Int])
      BY <1>12, <1>14, <2>1, ZipConstants DEF MinOfReset
    <3> QED
      BY <1>1, <1>3, <1>7, <1>14, <2>2, <3>1, <3>2, <3>3 DEF ZipTyped, ZipTypeOK
  <2>10. RowOK'
    BY <1>3, <1>4, <1>5, <2>3, <2>6, <2>7, <2>8 DEF RowOK
  <2> QED
    BY <1>1, <1>3, <1>14, <2>9, <2>10 DEF ZipInv, ZipStartOK, ResultsAre
<1>15. CASE Narrows(Len(out')) /\ indptr' = Append(indptr, Len(out')) /\ ~ (at_row < ZipRows)
            /\ phase' = "done" /\ UNCHANGED <<at_row, at_chunk, selection>>
  <2>1. indptr' = jp /\ out' = total /\ Len(total) \in 0 .. MaxIndex
    BY <1>10, <1>13, <1>15, ZipConstants DEF Narrows
  <2>2. indptr' \in Seq(0 .. MaxIndex)
    BY <1>7, <1>10, <2>1, AppendProperties
  <2>3. ZipRows = r
    BY <1>4, <1>6, <1>10, <1>15
  <2>4. ResultsAre'
    <3>1. \A s \in 1 .. r : ResultIs(SubSeq(total, jp[s] + 1, jp[s + 1]), w, s, Capacity)
      BY <1>12 DEF RowsAre
    <3>2. top_n' = Capacity /\ whole' = w /\ ZipRows' = r /\ Len(indptr') = r + 1
      BY <1>3, <1>4, <1>5, <1>10, <1>12, <2>1, <2>3
    <3> QED
      BY <2>1, <3>1, <3>2 DEF ResultsAre
  <2>5. ZipTyped'
    <3>1. \A p \in DOMAIN indptr' : indptr'[p] \in 0 .. MaxIndex
      BY <2>2, LenProperties
    <3> QED
      BY <1>1, <1>3, <1>12, <1>15, <2>1, <2>2, <3>1 DEF ZipInv, ZipTyped, ZipTypeOK, selection
  <2> QED
    BY <1>3, <1>15, <2>4, <2>5 DEF ZipInv, ZipStartOK, RowOK
<1>16. CASE phase' = "panic" /\ UNCHANGED <<at_row, at_chunk, selection, indptr>>
  <2>1. ZipTyped'
    BY <1>1, <1>3, <1>10, <1>12, <1>16 DEF ZipInv, ZipTyped, ZipTypeOK, selection
  <2> QED
    BY <1>3, <1>16, <2>1 DEF ZipInv, ZipStartOK, RowOK, ResultsAre
<1> QED
  BY <1>14, <1>15, <1>16 DEF EmitRow

LEMMA ZipStutterInv == ASSUME ZipInv, UNCHANGED zipVars PROVE ZipInv'
<1>1. /\ UNCHANGED <<arguments, phase, at_row, at_chunk, at_entry, indptr, out, ncols>>
      /\ UNCHANGED <<whole, chunks, top_n>> /\ UNCHANGED <<heap, n_set, min>>
  BY DEF zipVars, arguments, selection
<1>2. ZipCallOK'
  BY <1>1, ZipCallStays DEF ZipInv
<1>3. ZipTyped'
  BY <1>1 DEF ZipInv, ZipTyped, ZipTypeOK
<1>4. SameRows' = SameRows /\ ZipRows' = ZipRows /\ TotalCols' = TotalCols /\ WidthFits' = WidthFits
      /\ ChunkRow' = ChunkRow
  BY <1>1 DEF SameRows, ZipRows, TotalCols, WidthFits, ChunkRow
<1>5. ZipStartOK' /\ ResultsAre'
  BY <1>1, <1>4 DEF ZipInv, ZipStartOK, ResultsAre
<1>6. RowOK'
  BY <1>1, <1>4 DEF ZipInv, RowOK
<1> QED
  BY <1>2, <1>3, <1>5, <1>6 DEF ZipInv

LEMMA ZipStepInv == ZipInv /\ [ZipNext]_zipVars => ZipInv'
BY StopInv, ZerosInv, StartInv, MergeInv, NextChunkInv, EmitRowInv, ZipStutterInv DEF ZipNext

\* The inductive invariant of the zip.
THEOREM ZipInvariant == ZipSpec => []ZipInv
BY ZipInitInv, ZipStepInv, PTL DEF ZipSpec

\* Type correctness: no column and no offset of the zip exceeds the index type.
THEOREM ZipTypes == ZipSpec => []ZipTypeOK
<1>1. ZipInv => ZipTypeOK
  BY DEF ZipInv, ZipTyped
<1> QED
  BY <1>1, ZipInvariant, PTL

\* Whatever the widths of the chunks, and whichever top-n each of them kept, the
\* zip returns a top-n of every row of the whole (zip_sp_matmul_topn).
THEOREM ZipIsTopN == ZipSpec => []ZipIsTopNOfWhole
<1>1. ZipInv => ZipIsTopNOfWhole
  BY ResultsAreTopN DEF ZipInv
<1> QED
  BY <1>1, ZipInvariant, PTL

-----------------------------------------------------------------------------
(* The refinement *)

LEMMA OfferedIs ==
  /\ phase = "row" => Offered = Numbers(Taken(chunks, at_row, at_chunk, at_entry))
  /\ phase # "row" => Offered = {}
BY DEF Offered, Passed, Taken, Numbers, Offset

LEMMA KeptIs ==
  /\ phase = "row" => Kept = {AsCell(e) : e \in heap}
  /\ phase # "row" => Kept = {}
BY DEF Kept, AsCell

LEMMA OfferedThen ==
  /\ phase' = "row" => Offered' = Numbers(Taken(chunks', at_row', at_chunk', at_entry'))
  /\ phase' # "row" => Offered' = {}
BY DEF Offered, Passed, Taken, Numbers, Offset

LEMMA KeptThen ==
  /\ phase' = "row" => Kept' = {AsCell(e) : e \in heap'}
  /\ phase' # "row" => Kept' = {}
BY DEF Kept, AsCell

\* Outside a row, and at its start, the selection is empty.
LEMMA NothingOffered ==
  ASSUME NEW cs, cs \in Seq(ZipChunk), cs # <<>>, Len(cs) \in Nat, NEW r, HasRow(cs, r)
  PROVE  Numbers(Taken(cs, r, Len(cs), 1)) = {}
<1>1. Taken(cs, r, Len(cs), 1) = {}
  BY TakenGrows
<1> QED
  BY <1>1 DEF Numbers

LEMMA StartOffersNothing ==
  ASSUME ZipInv, Start
  PROVE  Offered = {} /\ Kept = {} /\ Offered' = {} /\ Kept' = {}
<1>1. /\ UNCHANGED <<arguments, selection>>
      /\ phase = "start" /\ phase' = "row" /\ chunks # <<>> /\ SameRows
      /\ ZipRows > 0
      /\ at_row' = 1 /\ at_chunk' = Len(chunks) /\ at_entry' = 1
  BY DEF Start
<1>2. chunks' = chunks /\ heap' = {}
  BY <1>1 DEF ZipInv, ZipStartOK, arguments, selection
<1>3. /\ chunks \in Seq(ZipChunk) /\ Len(chunks) \in Nat /\ HasRow(chunks, 1)
  BY <1>1, ZipCallFacts DEF ZipInv
<1>4. Numbers(Taken(chunks, 1, Len(chunks), 1)) = {}
  BY <1>1, <1>3, NothingOffered
<1>5. Offered' = {}
  BY <1>1, <1>2, <1>4, OfferedThen
<1>6. Kept' = {}
  BY <1>1, <1>2, KeptThen
<1>7. Offered = {} /\ Kept = {}
  BY <1>1, OfferedIs, KeptIs
<1> QED
  BY <1>5, <1>6, <1>7

\* What the heap holds is a selection of what the walk has passed.
LEMMA KeptIsTopN ==
  ASSUME NEW cs, NEW w, IsInput(cs, w), NEW r, HasRow(cs, r),
         NEW d, NEW e, d \in 1 .. Len(cs), e \in 1 .. Len(cs[d].rows[r]) + 1,
         NEW h, NEW m, Holds(h, m, Numbers(Taken(cs, r, d, e)))
  PROVE  Merged!IsTopN({AsCell(x) : x \in h}, Numbers(Taken(cs, r, d, e)))
<1>1. cs \in Seq(ZipChunk) /\ Len(cs) \in Nat
  BY InputFacts, ChunkFacts
<1>2. Len(cs[d].rows[r]) \in Nat
  BY <1>1, RowFacts
<1>3. PICK W : /\ IsWidths(W, cs) /\ WidthOf(cs) = W[Len(cs)]
               /\ \A x \in 1 .. Len(cs) + 1 : WidthOf(SubSeq(cs, 1, x - 1)) = W[x - 1]
  BY <1>1, WidthsExist
<1>4. PICK R : R = Numbers(Taken(cs, r, d, e))
  OBVIOUS
<1>5. ASSUME NEW u \in R PROVE u \in Number
  <2>1. d \in Nat /\ e \in Nat /\ d <= Len(cs) /\ e - 1 <= Len(cs[d].rows[r])
    BY <1>1, <1>2
  <2>2. u \in Taken(cs, r, d, e) /\ u.val # NaN
    BY <1>4 DEF Numbers
  <2>3. PICK c, p : IsAt(cs, r, c, p) /\ u = CellAt(cs, r, c, p)
    BY <1>1, <2>1, <2>2, TakenIs
  <2>4. u \in Cell
    BY <1>1, <1>3, <2>3, CellFacts
  <2> QED
    BY <2>2, <2>4 DEF Cell, Value, Number
<1> QED
  <2>1. R \subseteq Number /\ Holds(h, m, R)
    BY <1>4, <1>5
  <2> QED
    BY <1>4, <2>1, HoldsIsTopN

LEMMA MergeOffers == ASSUME ZipInv, ZipInv', Merge PROVE Merged!Offer
<1>1. /\ UNCHANGED <<arguments, phase, at_row, at_chunk>>
      /\ phase = "row" /\ at_chunk > 0 /\ at_entry <= Len(ChunkRow) /\ at_entry' = at_entry + 1
  BY DEF Merge
<1>2. /\ chunks' = chunks /\ phase' = "row" /\ at_row' = at_row /\ at_chunk' = at_chunk
  BY <1>1 DEF arguments
<1>3. PICK cs, w, r, d, e, g, l :
        /\ cs = chunks /\ w = whole /\ r = at_row /\ d = at_chunk /\ e = at_entry
        /\ g = heap' /\ l = min'
  OBVIOUS
<1>4. chunks # <<>> /\ SameRows /\ r \in 1 .. ZipRows
  BY <1>1, <1>3 DEF ZipInv, RowOK
<1>5. IsInput(cs, w) /\ HasRow(cs, r) /\ cs \in Seq(ZipChunk) /\ Len(cs) \in Nat
  BY <1>3, <1>4, ZipCallFacts DEF ZipInv, ZipCallOK
<1>6. d \in 1 .. Len(cs) /\ e \in Nat \ {0}
  <2>1. d \in 0 .. Len(cs) /\ e \in Nat \ {0}
    BY <1>3 DEF ZipInv, ZipTyped, ZipTypeOK
  <2> QED
    BY <1>1, <1>3, <1>5, <2>1
<1>7. PICK row : row = cs[d].rows[r] /\ row = ChunkRow
  BY <1>3 DEF ChunkRow
<1>8. IsAt(cs, r, d, e) /\ e + 1 \in 1 .. Len(row) + 1
  <2>1. Len(row) \in Nat
    BY <1>5, <1>6, <1>7, RowFacts
  <2>2. e \in 1 .. Len(row)
    BY <1>1, <1>3, <1>6, <1>7, <2>1
  <2> QED
    BY <1>6, <1>7, <2>1, <2>2 DEF IsAt
<1>9. PICK o : o = CellAt(cs, r, d, e)
  OBVIOUS
<1>10. /\ o \in Cell
       /\ Taken(cs, r, d, e + 1) = Taken(cs, r, d, e) \cup {o}
       /\ \A u \in Taken(cs, r, d, e) : u \in Cell /\ u.idx # o.idx
  BY <1>5, <1>8, <1>9, NextCell
<1>11. /\ Offered = Numbers(Taken(cs, r, d, e)) /\ Kept = {AsCell(x) : x \in heap}
       /\ Offered' = Numbers(Taken(cs, r, d, e + 1)) /\ Kept' = {AsCell(x) : x \in heap'}
  <2>1. Offered' = Numbers(Taken(chunks', at_row', at_chunk', at_entry'))
    BY <1>2, OfferedThen
  <2> QED
    BY <1>1, <1>2, <1>3, <2>1, OfferedIs, KeptIs, KeptThen
<1>12. Offered \subseteq Offered'
  BY <1>10, <1>11 DEF Numbers
<1>13. Kept' \subseteq Kept \cup (Offered' \ Offered)
  <2>1. o.val = ChunkRow[at_entry].val /\ o.idx = Offset(at_chunk) + ChunkRow[at_entry].idx
    BY <1>3, <1>7, <1>9 DEF CellAt, Offset
  <2>2. CASE Gt(o.val, min)
    <3>1. PICK entry : entry = [order |-> n_set, val |-> o.val, idx |-> o.idx]
      OBVIOUS
    <3>2. heap' \in Pushed(heap, entry)
      BY <2>1, <2>2, <3>1 DEF Merge
    <3>3. heap' \subseteq heap \cup {entry}
      BY <3>2 DEF Pushed
    <3>4. AsCell(entry) = o
      BY <1>10, <3>1 DEF AsCell, Cell
    <3>5. o.val # NaN
      BY <2>2 DEF Gt
    <3>6. o \in Offered' \ Offered
      BY <1>10, <1>11, <3>5 DEF Numbers
    <3> QED
      BY <1>11, <3>3, <3>4, <3>6
  <2>3. CASE ~ Gt(o.val, min)
    <3>1. heap' = heap
      BY <2>1, <2>3 DEF Merge, selection
    <3> QED
      BY <1>11, <3>1
  <2> QED
    BY <2>2, <2>3
<1>14. Merged!IsTopN({AsCell(x) : x \in g}, Numbers(Taken(cs, r, d, e + 1)))
  <2>1. Holds(heap', min', Numbers(Taken(chunks', at_row', at_chunk', at_entry')))
    BY <1>2 DEF ZipInv, RowOK
  <2>2. Holds(g, l, Numbers(Taken(cs, r, d, e + 1)))
    BY <1>1, <1>2, <1>3, <2>1
  <2>3. e + 1 \in 1 .. Len(cs[d].rows[r]) + 1
    BY <1>7, <1>8
  <2> QED
    BY <1>5, <1>6, <2>2, <2>3, KeptIsTopN
<1>15. Merged!IsTopN(Kept', Offered')
  BY <1>3, <1>11, <1>14
<1> QED
  BY <1>12, <1>13, <1>15 DEF Merged!Offer

LEMMA NextChunkOffersNothing ==
  ASSUME ZipInv, NextChunk PROVE Offered' = Offered /\ Kept' = Kept
<1>1. /\ UNCHANGED <<arguments, phase, at_row, selection>>
      /\ phase = "row" /\ at_chunk' = at_chunk - 1 /\ at_entry' = 1
  BY DEF NextChunk
<1>2. chunks' = chunks /\ at_row' = at_row /\ heap' = heap /\ phase' = "row"
  BY <1>1 DEF arguments, selection
<1>3. Taken(chunks, at_row, at_chunk - 1, 1) = Taken(chunks, at_row, at_chunk, at_entry)
  BY NextChunkTakes
<1>4. Offered' = Numbers(Taken(chunks, at_row, at_chunk - 1, 1))
  BY <1>1, <1>2, OfferedThen
<1> QED
  BY <1>1, <1>2, <1>3, <1>4, OfferedIs, KeptIs, KeptThen

LEMMA EmitRowResets == ASSUME ZipInv, EmitRow PROVE Merged!Reset
<1>1. phase = "row" /\ UNCHANGED <<arguments, at_entry>> /\ at_chunk = 0
  BY DEF EmitRow
<1>2. CASE phase' # "row"
  BY <1>2, OfferedThen, KeptThen DEF Merged!Reset
<1>3. CASE phase' = "row"
  <2>1. /\ at_row < ZipRows /\ at_row' = at_row + 1 /\ at_chunk' = Len(chunks) /\ heap' = {}
    BY <1>3 DEF EmitRow
  <2>2. chunks # <<>> /\ SameRows /\ at_row \in 1 .. ZipRows /\ at_entry = 1
    BY <1>1 DEF ZipInv, RowOK
  <2>3. /\ chunks \in Seq(ZipChunk) /\ Len(chunks) \in Nat /\ ZipRows \in Nat
        /\ \A r \in 1 .. ZipRows : HasRow(chunks, r)
    BY <2>2, ZipCallFacts DEF ZipInv
  <2>4. HasRow(chunks, at_row')
    BY <2>1, <2>2, <2>3
  <2>5. Numbers(Taken(chunks, at_row', Len(chunks), 1)) = {}
    BY <2>2, <2>3, <2>4, NothingOffered
  <2>6. chunks' = chunks /\ at_entry' = 1
    BY <1>1, <2>2 DEF arguments
  <2>7. Offered' = {}
    BY <1>3, <2>1, <2>5, <2>6, OfferedThen
  <2>8. Kept' = {}
    BY <1>3, <2>1, KeptThen
  <2> QED
    BY <2>7, <2>8 DEF Merged!Reset
<1> QED
  BY <1>2, <1>3

\* The zip of a row is a selection of its cells, and each row a new one.
THEOREM ZipSelects == ZipSpec => ImplementsTopN
<1>1. ZipInit => Merged!Init
  BY DEF ZipInit, Merged!Init, Offered, Kept
<1>2. ZipInv /\ ZipInv' /\ [ZipNext]_zipVars => [Merged!Next]_(Merged!vars)
  <2> SUFFICES ASSUME ZipInv, ZipInv', [ZipNext]_zipVars
               PROVE  Merged!Next \/ (Offered' = Offered /\ Kept' = Kept)
    BY DEF Merged!vars
  <2>1. CASE NoChunks \/ Refuse \/ Zeros
    <3>1. phase # "row" /\ phase' # "row"
      BY <2>1 DEF NoChunks, Refuse, Zeros
    <3> QED
      BY <3>1 DEF Offered, Kept
  <2>2. CASE Start
    BY <2>2, StartOffersNothing
  <2>3. CASE Merge
    BY <2>3, MergeOffers DEF Merged!Next
  <2>4. CASE NextChunk
    BY <2>4, NextChunkOffersNothing
  <2>5. CASE EmitRow
    BY <2>5, EmitRowResets DEF Merged!Next
  <2>6. CASE UNCHANGED zipVars
    BY <2>6 DEF zipVars, arguments, selection, Offered, Kept, Passed, Offset
  <2> QED
    BY <2>1, <2>2, <2>3, <2>4, <2>5, <2>6 DEF ZipNext
<1> QED
  BY <1>1, <1>2, ZipInvariant, PTL DEF ZipSpec, ImplementsTopN, Merged!Spec
=============================================================================
