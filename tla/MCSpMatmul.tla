----------------------------- MODULE MCSpMatmul -----------------------------
(* SpMatmul for every first row of B of up to three entries in three columns, *)
(* in any order and with repeats; products cancel, and results have up to    *)
(* seven entries where four can be indexed.                                  *)
EXTENDS SpMatmul

A(j, v) == [j |-> j, v |-> v]
B(k, x) == [k |-> k, x |-> x]

RowsUpTo(n) == UNION {[1 .. l -> [k : Columns, x : {1, -1}]] : l \in 0 .. n}
MCBMatrices == {[j \in 0 .. 1 |-> IF j = 0 THEN r ELSE s] :
                  r \in RowsUpTo(3), s \in {<<>>, <<B(2, 1), B(0, 1)>>, <<B(1, 1)>>}}
MCAMatrices == {<<>>, <<<<>>, <<>>>>,
                <<<<A(0, 1), A(1, 1)>>, <<A(0, 2)>>>>,
                <<<<A(1, 1)>>, <<>>, <<A(0, 1), A(0, -1)>>>>}
=============================================================================
