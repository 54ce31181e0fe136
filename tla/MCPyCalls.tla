------------------------------- MODULE MCPyCalls -------------------------------
(* PyCalls with two Python threads.  Three rows are sliced in twos: two slices, *)
(* the last one short, of each call on pools of two or three workers that both *)
(* threads share.  Of the works one just fits the index type, with an empty    *)
(* row, one has one entry too many, and in one a row panics after too many     *)
(* entries.  Results are as wide as the index type allows, or one wider.       *)
EXTENDS PyCalls

MCWork(nnz) == [r \in 0 .. NRows - 1 |-> nnz[r + 1]]
MCWorks == {MCWork(<<2, 0, 1>>), MCWork(<<1, 2, 1>>), MCWork(<<2, 2, Panics>>)}

Good(binding, n, ncols) ==
  [binding |-> binding, n_threads |-> n, ncols |-> ncols, flaws |-> {}]
Bad(binding, flaws) == [Good(binding, 0, 1) EXCEPT !.flaws = flaws]

MCArguments ==
  {Good("sp_matmul_topn", n, IndexMax + 1) : n \in Requests}
    \cup {Good("sp_matmul_topn", 2, IndexMax + 2),
          Good("sp_matmul", 3, IndexMax + 1),
          Good("zip_sp_matmul_topn", 0, IndexMax + 2),
          Bad("zip_sp_matmul_topn", {"lists", "widths"}),
          Bad("zip_sp_matmul_topn", {"widths", "count"}),
          Bad("sp_matmul", {"dtypes", "length"}),
          Bad("sp_matmul_topn", {"kind", "length", "threshold"}),
          Bad("sp_matmul_topn", {"threshold"})}
=============================================================================
