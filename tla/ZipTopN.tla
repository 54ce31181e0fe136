------------------------------- MODULE ZipTopN -------------------------------
(***************************************************************************)
(* The zip of partial results (src/src/zip.rs): chunks of columns whose    *)
(* top-n were computed apart, side by side, are merged row by row into the *)
(* top-n of the whole.  The chunks of a row are walked last to first; the  *)
(* heap is shared by all rows.  Threshold is cpp_numeric_limits_min: the   *)
(* smallest positive float (0 here), the least integer.                    *)
(*                                                                         *)
(* `whole` is a ghost: the matrix the chunks were selected from.           *)
(***************************************************************************)
EXTENDS Scores, SequencesExt

CONSTANTS
  MaxIndex,    \* I::max_usize
  Inputs       \* the arguments: [whole, chunks], a chunk being [ncols, rows]

WidthOf(cs) == FoldLeft(LAMBDA s, c : s + c.ncols, 0, cs)

\* A row of a chunk is a top-n of the columns from .. from + width - 1 of f: some
\* of them, each once, and n that are no smaller than any that is missing.
IsPartOf(row, f, from, width) ==
  /\ \A p \in DOMAIN row :
       row[p].idx \in 0 .. width - 1 /\ row[p].val = f[from + row[p].idx]
  /\ \A p, q \in DOMAIN row : row[p].idx = row[q].idx => p = q
  /\ \A c \in 0 .. width - 1 : Gt(f[from + c], Threshold) =>
       \/ \E p \in DOMAIN row : row[p].idx = c
       \/ Cardinality({p \in DOMAIN row : row[p].val # NaN /\ row[p].val >= f[from + c]})
            >= Capacity

ASSUME ZipAssumption ==
  /\ Capacity \in Nat \ {0} /\ Threshold \in Int /\ MaxIndex \in Nat /\ NaN \notin Int
  /\ \A input \in Inputs :
       /\ input.chunks \in Seq([ncols : Nat, rows : Seq(Seq([idx : Nat, val : Value]))])
       /\ input.whole \in Seq([0 .. WidthOf(input.chunks) - 1 -> Value])
       /\ \A c \in DOMAIN input.chunks : \A r \in DOMAIN input.chunks[c].rows :
            /\ r \in DOMAIN input.whole
            /\ IsPartOf(input.chunks[c].rows[r], input.whole[r],
                        WidthOf(SubSeq(input.chunks, 1, c - 1)), input.chunks[c].ncols)

VARIABLES
  whole, chunks, top_n,   \* the call
  phase,                  \* "start", "row", "done", "panic"
  at_row, at_chunk,       \* row, chunk (0 after the last)
  at_entry,               \* position in the chunk's row
  heap, n_set, min,
  indptr, out,
  ncols                   \* of the result

arguments == <<whole, chunks, top_n>>
selection == <<heap, n_set, min>>
zipVars == <<arguments, phase, at_row, at_chunk, at_entry, selection, indptr, out, ncols>>

-----------------------------------------------------------------------------

ZipRows == Len(chunks[1].rows)
SameRows == \A c \in DOMAIN chunks : Len(chunks[c].rows) = ZipRows

TotalCols == WidthOf(chunks)

\* Mutant: the offset counts the chunk itself.
OffsetInclusive(c) == WidthOf(SubSeq(chunks, 1, c))

\* Mutant: the offset counts the chunks walked before.
OffsetReversed(c) == WidthOf(SubSeq(chunks, c + 1, Len(chunks)))

Offset(c) == WidthOf(SubSeq(chunks, 1, c - 1))

\* check_index_capacity on the width; narrow_indptr on the entries.
WidthFits == TotalCols - 1 <= MaxIndex
Narrows(total) == total <= MaxIndex

ChunkRow == chunks[at_chunk].rows[at_row]

-----------------------------------------------------------------------------

ZipInit ==
  /\ \E input \in Inputs : whole = input.whole /\ chunks = input.chunks
  /\ top_n \in {0, Capacity}
  /\ phase = "start"
  /\ at_row = 0 /\ at_chunk = 0 /\ at_entry = 1
  /\ heap = {} /\ n_set = 0 /\ min = Threshold
  /\ indptr = <<0>> /\ out = <<>> /\ ncols = 0

\* No chunks: a result of no rows and no columns.
NoChunks ==
  /\ phase = "start" /\ chunks = <<>>
  /\ phase' = "done"
  /\ UNCHANGED <<arguments, at_row, at_chunk, at_entry, selection, indptr, out, ncols>>

Refuse ==
  /\ phase = "start" /\ chunks # <<>>
  /\ ~ SameRows \/ ~ WidthFits
  /\ phase' = "panic"
  /\ UNCHANGED <<arguments, at_row, at_chunk, at_entry, selection, indptr, out, ncols>>

Zeros ==
  /\ phase = "start" /\ chunks # <<>> /\ SameRows /\ WidthFits
  /\ top_n = 0 \/ ZipRows = 0
  /\ indptr' = [r \in 1 .. ZipRows + 1 |-> 0] /\ ncols' = TotalCols
  /\ phase' = "done"
  /\ UNCHANGED <<arguments, at_row, at_chunk, at_entry, selection, out>>

Start ==
  /\ phase = "start" /\ chunks # <<>> /\ SameRows /\ WidthFits
  /\ top_n > 0 /\ ZipRows > 0
  /\ at_row' = 1 /\ at_chunk' = Len(chunks) /\ at_entry' = 1
  /\ ncols' = TotalCols
  /\ phase' = "row"
  /\ UNCHANGED <<arguments, selection, indptr, out>>

Merge ==
  /\ phase = "row" /\ at_chunk > 0 /\ at_entry <= Len(ChunkRow)
  /\ LET val == ChunkRow[at_entry].val IN
     \/ /\ Gt(val, min)
        /\ heap' \in Pushed(heap, [order |-> n_set, val |-> val,
                                    idx |-> Offset(at_chunk) + ChunkRow[at_entry].idx])
        /\ n_set' = n_set + 1
        /\ min' \in Root(heap')
     \/ ~ Gt(val, min) /\ UNCHANGED selection
  /\ at_entry' = at_entry + 1
  /\ UNCHANGED <<arguments, phase, at_row, at_chunk, indptr, out, ncols>>

NextChunk ==
  /\ phase = "row" /\ at_chunk > 0 /\ at_entry > Len(ChunkRow)
  /\ at_chunk' = at_chunk - 1 /\ at_entry' = 1
  /\ UNCHANGED <<arguments, phase, at_row, selection, indptr, out, ncols>>

\* Mutant: the next row keeps the threshold this one reached.
MinOfLastRow == min

MinOfReset == Threshold

ByValueDesc(e, f) == e.val > f.val

\* The row is sorted and appended, and the next one starts on a reset heap;
\* its offset is narrowed after its entries are out.
EmitRow ==
  /\ phase = "row" /\ at_chunk = 0
  /\ \E f \in Listings(heap, ByValueDesc) :
       out' = out \o [p \in DOMAIN f |-> [idx |-> f[p].idx, val |-> f[p].val]]
  /\ \/ /\ Narrows(Len(out'))
        /\ indptr' = Append(indptr, Len(out'))
        /\ IF at_row < ZipRows
           THEN /\ at_row' = at_row + 1 /\ at_chunk' = Len(chunks)
                /\ heap' = {} /\ n_set' = 0 /\ min' = MinOfReset
                /\ UNCHANGED phase
           ELSE phase' = "done" /\ UNCHANGED <<at_row, at_chunk, selection>>
     \/ /\ ~ Narrows(Len(out'))
        /\ phase' = "panic"
        /\ UNCHANGED <<at_row, at_chunk, selection, indptr>>
  /\ UNCHANGED <<arguments, at_entry, ncols>>

ZipNext == NoChunks \/ Refuse \/ Zeros \/ Start \/ Merge \/ NextChunk \/ EmitRow

ZipSpec == ZipInit /\ [][ZipNext]_zipVars

-----------------------------------------------------------------------------
(* Properties *)

ZipTypeOK ==
  /\ phase \in {"start", "row", "done", "panic"}
  /\ at_row \in Nat /\ at_chunk \in 0 .. Len(chunks) /\ at_entry \in Nat \ {0}
  /\ heap \subseteq [order : 0 .. n_set - 1, idx : 0 .. ncols - 1, val : Int]
  /\ n_set \in Nat /\ min \in Int
  /\ \A p \in DOMAIN indptr : indptr[p] \in 0 .. MaxIndex
  /\ out \in Seq([idx : 0 .. MaxIndex, val : Int])

\* What the walk has passed of the row, in columns of the result.
Passed ==
  UNION {{[idx |-> Offset(c) + chunks[c].rows[at_row][p].idx,
            val |-> chunks[c].rows[at_row][p].val] :
            p \in IF c > at_chunk THEN DOMAIN chunks[c].rows[at_row] ELSE 1 .. at_entry - 1} :
         c \in {d \in DOMAIN chunks : d >= at_chunk}}

Offered == IF phase = "row" THEN {c \in Passed : c.val # NaN} ELSE {}
Kept == IF phase = "row" THEN {[idx |-> e.idx, val |-> e.val] : e \in heap} ELSE {}

\* The row's selection goes through a top-n of the entries of all chunks,
\* however many rows were zipped before it.
Merged == INSTANCE TopN WITH N <- Capacity, offered <- Offered, kept <- Kept

ImplementsTopN == Merged!Spec

\* When each chunk holds a top-n of its own columns of `whole`, each row of the
\* zip is a top-n of that row of `whole`, largest first, and indptr cuts it out:
\* computing the chunks apart does not show.
ZipIsTopNOfWhole ==
  phase = "done" /\ chunks # <<>> =>
    /\ Len(indptr) = ZipRows + 1
    /\ \A r \in 1 .. ZipRows :
         LET rows == SubSeq(out, indptr[r] + 1, indptr[r + 1])
             all == {[idx |-> c, val |-> whole[r][c]] :
                      c \in {d \in DOMAIN whole[r] : whole[r][d] # NaN}}
         IN  /\ top_n > 0 => Merged!IsTopN({rows[p] : p \in DOMAIN rows}, all)
             /\ \A p, q \in DOMAIN rows : p < q => rows[p].val >= rows[q].val
             /\ Cardinality({rows[p] : p \in DOMAIN rows}) = Len(rows)
=============================================================================
