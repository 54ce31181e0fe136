----------------------------- MODULE MCRowKernel -----------------------------
(* RowKernel on four columns in chunks of three, so the last chunk is short, *)
(* with two-lane groups, so a chunk has a full group and a remainder.  Every *)
(* sparsity of the first row of B; products cancel, go negative, repeat (a row of *)
(* A may name a row of B twice) and become NaN.                              *)
EXTENDS RowKernel, SequencesExt

\* The canonical row with the entries of f.
AsRow(f) == LET ks == SetToSortSeq(DOMAIN f, <)
            IN  [p \in DOMAIN ks |-> [k |-> ks[p], x |-> f[ks[p]]]]

Rows(values) == {AsRow(f) : f \in UNION {[S -> values] : S \in SUBSET (0 .. NCols - 1)}}

MCThreshold == -1
MCMinValue == -9

A(j, v) == [j |-> j, v |-> v]

\* Float matrices: the second row of B is empty, crosses the chunk boundary,
\* or holds a NaN.
SecondRows == {<<>>,
               AsRow([k \in {0, 1, 3} |-> 2]),
               AsRow([k \in {1, 2} |-> IF k = 1 THEN NaN ELSE 1])}
MCBMatrices == {[j \in 0 .. 1 |-> IF j = 0 THEN r0 ELSE r1] :
                  r0 \in Rows({1, -1}), r1 \in SecondRows}
MCARows == {<<>>, <<A(0, 2), A(1, -1)>>, <<A(0, 1), A(0, -1), A(1, 1)>>}
=============================================================================
