---------------------------- MODULE MCBlockKernel ----------------------------
(* BlockKernel on four columns in chunks of three, three rows of A in blocks  *)
(* of one, two or three rows, so the last block can be shorter, for a row of  *)
(* B of every sparsity beside a row with a NaN, an empty or a long row.       *)
EXTENDS BlockKernel

MCThreshold == -1
MCMinValue == -9

AsRow(f) == LET ks == SetToSortSeq(DOMAIN f, <)
            IN  [p \in DOMAIN ks |-> [k |-> ks[p], x |-> f[ks[p]]]]
A(j, v) == [j |-> j, v |-> v]

\* Entries of the first row of B, by column.
First == [k \in 0 .. 3 |-> IF k = 2 THEN -1 ELSE 1]
FirstRows == {AsRow([k \in S |-> First[k]]) : S \in SUBSET (0 .. 3)}
SecondRows == {<<>>,
               AsRow([k \in {0, 1, 3} |-> 2]),
               AsRow([k \in {1, 2} |-> IF k = 1 THEN NaN ELSE 1])}
MCBMatrices == {[j \in 0 .. 1 |-> IF j = 0 THEN r0 ELSE r1] : r0 \in FirstRows, r1 \in SecondRows}

\* Rows of one, two and no entries; rows that cancel or name a row of B twice.
MCAMatrices == {<<<<A(0, 2), A(1, -1)>>, <<A(1, 1)>>, <<A(0, 1), A(0, -1), A(1, 1)>>>>,
                <<<<A(1, 1), A(0, 2)>>, <<>>, <<A(0, -1)>>>>}
=============================================================================
