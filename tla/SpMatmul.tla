------------------------------ MODULE SpMatmul ------------------------------
(***************************************************************************)
(* The plain product of src/src/matmul.rs.  A size pass counts the columns *)
(* each row touches, in a mask stamped with the row's number, and extends  *)
(* indptr; a fill pass computes the row in a dense accumulator threaded    *)
(* with a list of touched columns, and pops the list into the output.      *)
(* The two passes never look at each other's arrays.                       *)
(*                                                                         *)
(* A row is the sequence of its products [k, val], in the order of the two *)
(* inner loops.  Rows of B may be in any order and repeat a column.        *)
(***************************************************************************)
EXTENDS Integers, Sequences, FiniteSets, SequencesExt

CONSTANTS
  NCols,        \* columns of B
  MaxIndex,     \* I::max_usize
  AMatrices,    \* matrices A: sequences of rows, sequences of [j, v]
  BMatrices     \* matrices B: functions from row j to sequences of [k, x]

Columns == 0 .. NCols - 1

UNVISITED == -1
HEAD_NIL == -2

ASSUME ProductAssumption ==
  /\ NCols \in Nat /\ MaxIndex \in Nat
  /\ AMatrices \subseteq Seq(Seq([j : Nat, v : Int]))
  /\ \A m \in BMatrices : \A j \in DOMAIN m : m[j] \in Seq([k : Columns, x : Int])
  /\ \A a \in AMatrices, m \in BMatrices : \A i \in DOMAIN a : \A e \in DOMAIN a[i] :
       a[i][e].j \in DOMAIN m

VARIABLES
  a, b,                       \* the call
  pc,                         \* "start", "size", "fill", "pop", "done", "panic"
  i, at,                      \* row, counted from 0; position in its products
  mask, row_nnz, indptr,      \* size pass
  sums, next, head, length,   \* accumulator of the fill pass
  out                         \* C_indices and C_data

call == <<a, b>>
size == <<mask, row_nnz, indptr>>
accumulator == <<sums, next, head, length>>
vars == <<call, pc, i, at, size, accumulator, out>>

-----------------------------------------------------------------------------

\* The products of a row of A, in loop order.
ProductsOf(r) ==
  FlattenSeq([e \in DOMAIN r |->
    [p \in DOMAIN b[r[e].j] |-> [k |-> b[r[e].j][p].k, val |-> r[e].v * b[r[e].j][p].x]]])

Products == ProductsOf(a[i + 1])
K == Products[at].k

Empty == (\A r \in DOMAIN a : a[r] = <<>>) \/ (\A j \in DOMAIN b : b[j] = <<>>)

\* Mutant: the largest index is refused.
FitsBelow(total) == total < MaxIndex

\* Mutant: one entry too many is accepted.
FitsOnePast(total) == total <= MaxIndex + 1

\* narrow_indptr
Fits(total) == total <= MaxIndex

-----------------------------------------------------------------------------

Init ==
  /\ a \in AMatrices /\ b \in BMatrices
  /\ pc = "start" /\ i = 0 /\ at = 1
  /\ mask = [k \in Columns |-> UNVISITED] /\ row_nnz = 0 /\ indptr = <<0>>
  /\ sums = [k \in Columns |-> 0] /\ next = [k \in Columns |-> UNVISITED]
  /\ head = HEAD_NIL /\ length = 0
  /\ out = <<>>

\* No rows, or no entries on one side: CsrMatrix::zeros.
ShortCircuit ==
  /\ pc = "start" /\ Empty
  /\ indptr' = [r \in 1 .. Len(a) + 1 |-> 0]
  /\ pc' = "done"
  /\ UNCHANGED <<call, i, at, mask, row_nnz, accumulator, out>>

Start ==
  /\ pc = "start" /\ ~ Empty
  /\ pc' = "size"
  /\ UNCHANGED <<call, i, at, size, accumulator, out>>

SizeProduct ==
  /\ pc = "size" /\ at <= Len(Products)
  /\ row_nnz' = IF mask[K] # i THEN row_nnz + 1 ELSE row_nnz
  /\ mask' = [mask EXCEPT ![K] = i]
  /\ at' = at + 1
  /\ UNCHANGED <<call, pc, i, indptr, accumulator, out>>

EndSizeRow ==
  /\ pc = "size" /\ at > Len(Products)
  /\ LET total == indptr[i + 1] + row_nnz IN
     \/ /\ ~ Fits(total)
        /\ pc' = "panic"
        /\ UNCHANGED <<i, at, row_nnz, indptr>>
     \/ /\ Fits(total)
        /\ indptr' = Append(indptr, total)
        /\ row_nnz' = 0 /\ at' = 1
        /\ IF i + 1 < Len(a) THEN i' = i + 1 /\ UNCHANGED pc
                             ELSE i' = 0 /\ pc' = "fill"
  /\ UNCHANGED <<call, mask, accumulator, out>>

FillProduct ==
  /\ pc = "fill" /\ at <= Len(Products)
  /\ sums' = [sums EXCEPT ![K] = @ + Products[at].val]
  /\ IF next[K] = UNVISITED
     THEN next' = [next EXCEPT ![K] = head] /\ head' = K /\ length' = length + 1
     ELSE UNCHANGED <<next, head, length>>
  /\ at' = at + 1
  /\ UNCHANGED <<call, pc, i, size, out>>

StartPop ==
  /\ pc = "fill" /\ at > Len(Products)
  /\ pc' = "pop"
  /\ UNCHANGED <<call, i, at, size, accumulator, out>>

\* Mutant: a sum that cancelled is not a result, as in the C++ original.
PoppedNonZero == IF sums[head] # 0 THEN <<[k |-> head, val |-> sums[head]]>> ELSE <<>>

Popped == <<[k |-> head, val |-> sums[head]]>>

\* Mutant: the sum of a popped column stays for the next row.
SumsKept == sums

SumsCleared == [sums EXCEPT ![head] = 0]

Pop ==
  /\ pc = "pop" /\ length > 0
  /\ out' = out \o Popped
  /\ head' = next[head]
  /\ next' = [next EXCEPT ![head] = UNVISITED]
  /\ sums' = SumsCleared
  /\ length' = length - 1
  /\ UNCHANGED <<call, pc, i, at, size>>

EndRow ==
  /\ pc = "pop" /\ length = 0
  /\ IF i + 1 < Len(a) THEN i' = i + 1 /\ pc' = "fill" /\ at' = 1
                       ELSE pc' = "done" /\ UNCHANGED <<i, at>>
  /\ head' = HEAD_NIL
  /\ UNCHANGED <<call, size, sums, next, length, out>>

Next ==
  \/ ShortCircuit \/ Start \/ SizeProduct \/ EndSizeRow
  \/ FillProduct \/ StartPop \/ Pop \/ EndRow

Spec == Init /\ [][Next]_vars

-----------------------------------------------------------------------------
(* Properties *)

TypeOK ==
  /\ pc \in {"start", "size", "fill", "pop", "done", "panic"}
  /\ i \in 0 .. Len(a) /\ at \in Nat \ {0}
  /\ mask \in [Columns -> {UNVISITED} \cup 0 .. Len(a) - 1]
  /\ row_nnz \in 0 .. NCols
  /\ \A p \in DOMAIN indptr : indptr[p] \in 0 .. MaxIndex
  /\ sums \in [Columns -> Int]
  /\ next \in [Columns -> Columns \cup {UNVISITED, HEAD_NIL}]
  /\ head \in Columns \cup {HEAD_NIL} /\ length \in 0 .. NCols
  /\ out \in Seq([k : Columns, val : Int])

\* The passes agree on every row boundary although each keeps its own record
\* of what a row touches: what is out and what is listed is what was counted.
PassesAgree ==
  /\ pc = "fill" => /\ Len(out) = indptr[i + 1]
                    /\ Len(out) + length <= indptr[i + 2]
  /\ pc = "pop" => Len(out) + length = indptr[i + 2]
  /\ pc = "done" => Len(out) = indptr[Len(indptr)] /\ Len(indptr) = Len(a) + 1

TouchedBy(r) == {ProductsOf(r)[p].k : p \in DOMAIN ProductsOf(r)}

\* The sum of a sequence of numbers.
Total(s) ==
  LET acc[p \in 0 .. Len(s)] == IF p = 0 THEN 0 ELSE acc[p - 1] + s[p]
  IN  acc[Len(s)]

\* What the first n of the products s contribute to column k.
Contribution(s, n, k) ==
  Total([p \in 1 .. n |-> IF s[p].k = k THEN s[p].val ELSE 0])

RowTotal(r, k) == Contribution(ProductsOf(r), Len(ProductsOf(r)), k)

\* Each finished row holds every column its products touch, once, with their
\* full sum, a cancelled one as an explicit zero, whatever the rows before it
\* left in the accumulator.
ProductIsExact ==
  pc = "done" => \A r \in DOMAIN a :
    LET Row == {out[p] : p \in indptr[r] + 1 .. indptr[r + 1]}
    IN  /\ Row = {[k |-> k, val |-> RowTotal(a[r], k)] : k \in TouchedBy(a[r])}
        /\ Cardinality(Row) = indptr[r + 1] - indptr[r]

TouchedUpTo(n) == Total([r \in 1 .. n |-> Cardinality(TouchedBy(a[r]))])

\* A result that does not fit the index type is refused in the size pass, at
\* the first row whose total does not fit, with nothing filled; one that just
\* fits is not.
OverflowAborts ==
  /\ pc = "panic" => /\ out = <<>> /\ \A k \in Columns : sums[k] = 0
                     /\ TouchedUpTo(i) <= MaxIndex /\ TouchedUpTo(i + 1) > MaxIndex
  /\ pc \in {"fill", "pop", "done"} => TouchedUpTo(Len(a)) <= MaxIndex
=============================================================================
