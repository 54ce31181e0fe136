----------------------------- MODULE MCRouting -----------------------------
(* Routing for four columns, in every combination of the options that steer   *)
(* a call; u16 numbers two columns and u32 counts five entries, so that tiles *)
(* do not always fit.  The default width is one column, two or, cut, four.    *)
EXTENDS Routing

MCMinValue == -9

A(j, v) == [j |-> j, v |-> v]
B(k, x) == [k |-> k, x |-> x]

\* No rows, no entries, a row that may cancel, and enough entries to tile.
MCAMatrices == {<<>>, <<<<>>>>, <<<<A(0, 1), A(1, -1)>>>>,
                <<<<A(0, 1), A(1, 1)>>, <<A(1, 2), A(0, -1)>>>>}

\* No entries; products that cancel; a NaN; more entries than u32 can number.
MCBMatrices ==
  {[j \in 0 .. 1 |-> IF j = 0 THEN r[1] ELSE r[2]] :
     r \in {<<<<>>, <<>>>>,
               <<<<B(0, 1), B(2, 1)>>, <<B(0, 1), B(3, 2)>>>>,
               <<<<B(1, 1), B(2, NaN)>>, <<B(1, 2)>>>>,
               <<<<B(0, 1), B(1, 2), B(3, 1)>>, <<B(0, 1), B(1, 1), B(3, -1)>>>>}}

OptionsOf(tops, chunk_cols, threads) ==
  [top_n : tops, threshold : {None, 0}, sort : SortMode,
   chunk_cols : chunk_cols, n_threads : threads,
   accum_mode : AccumMode, projection : {None, "Cursor"},
   row_block : {None, 0, 2}, tile_b : BOOLEAN]

MCOptions == OptionsOf({0, 2, 4}, {None, 0, 2, 9}, {None, 0, 2})

ASSUME MCSums == SumsExceedMin
=============================================================================
