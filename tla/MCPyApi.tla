-------------------------------- MODULE MCPyApi --------------------------------
(* PyApi on matrices of up to three columns: square ones, wide and tall ones  *)
(* whose product is defined one way, the other way or both, in every format,  *)
(* with a product that cancels, one without entries, and dtypes that differ   *)
(* or are not supported; integers and floats; widths of one and two columns.  *)
EXTENDS PyApi

MCMinValue == -99

Line(s) == [p \in 1 .. Len(s) |-> [k |-> s[p][1], x |-> s[p][2]]]
Matrix(fmt, nrows, ncols, dtype, lines) ==
  [fmt |-> fmt, nrows |-> nrows, ncols |-> ncols, dtype |-> dtype,
   lines |-> [n \in DOMAIN lines |-> Line(lines[n])]]

\* A csr matrix in another format.
As(m, fmt) ==
  [m EXCEPT !.fmt = fmt,
            !.lines = IF fmt = "csc" THEN ToCsr(Transpose(ToCsr(m))).lines ELSE m.lines]

Square(dtype) == Matrix("csr", 2, 2, dtype, << <<<<0, 1>>, <<1, 2>>>>, <<<<1, 1>>>> >>)
Cancels(dtype) == Matrix("csr", 2, 2, dtype, << <<<<0, 2>>, <<1, 1>>>>, <<<<0, -4>>>> >>)
Wide(dtype) == Matrix("csr", 1, 2, dtype, << <<<<0, 1>>, <<1, 2>>>> >>)
Tall(dtype) == Matrix("csr", 2, 1, dtype, << <<<<0, 3>>>>, <<<<0, 1>>>> >>)
Long(dtype) == Matrix("csr", 2, 3, dtype, << <<<<0, 1>>, <<2, 1>>>>, <<<<1, 2>>, <<2, 2>>>> >>)
Empty(dtype) == Matrix("csr", 2, 2, dtype, << <<>>, <<>> >>)

Ints == {Square("int64"), Wide("int64"), Tall("int64")}

MCPairs ==
  {[A |-> As(a, f), B |-> As(b, g)] :
     a \in Ints, b \in Ints \cup {Long("int64")}, f \in Formats, g \in Formats}
  \cup {[A |-> As(Square("float64"), f), B |-> b] :
           f \in Formats \cup {"bsr"},
           b \in {Cancels("float64"), Empty("float64"), Square("float32"),
                  Square("int64"), Square("int8")}}
  \cup {[A |-> Square("float32"), B |-> Square("float64")],
        [A |-> Square("int8"), B |-> Square("int8")]}

MCOptionsOf(tops, thresholds, widths, threads, idx) ==
  [top_n : tops, threshold : thresholds, sort : BOOLEAN, chunk_cols : widths,
   n_threads : threads, idx_dtype : idx]

MCOptions ==
  MCOptionsOf({1, 2}, {None, 3}, {None, 1}, {None}, {None})
    \cup MCOptionsOf({0, 2}, {None}, {0, 2}, {0, -1}, {"int64", "int8"})
=============================================================================
