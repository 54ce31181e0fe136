----------------------------- MODULE MCZipTopN -----------------------------
(* ZipTopN on two rows of four columns cut into one, two or three chunks, one *)
(* of them without columns, each holding any top-n of its columns in any     *)
(* order; five columns or five entries do not fit the index.                 *)
EXTENDS ZipTopN

Scored == {-1, 1, 2}
Firsts == [0 .. 3 -> Scored]
Seconds == {[c \in 0 .. 3 |-> 1], [c \in 0 .. 3 |-> c - 2]}
Widths == {<<4>>, <<2, 2>>, <<1, 0, 3>>}

\* Some top-n listings of the columns from .. from + w - 1 of row f.
Cut(f, from, w) == {[idx |-> c, val |-> f[from + c]] : c \in 0 .. w - 1}
Lists(f, from, w) ==
  {SetToSeq(S) : S \in {T \in SUBSET Cut(f, from, w) :
     /\ Cardinality(T) = IF w < Capacity THEN w ELSE Capacity
     /\ \A t \in T, u \in Cut(f, from, w) \ T : t.val >= u.val}}

Start_(ws, c) == FoldLeft(LAMBDA s, w : s + w, 0, SubSeq(ws, 1, c - 1))

ChunkSeqs(ws, f, g) ==
  {[c \in DOMAIN ws |-> [ncols |-> ws[c],
                         rows |-> <<l[c], CHOOSE m \in Lists(g, Start_(ws, c), ws[c]) : TRUE>>]] :
     l \in {x \in [DOMAIN ws -> UNION {Lists(f, Start_(ws, c), ws[c]) : c \in DOMAIN ws}] :
              \A c \in DOMAIN ws : x[c] \in Lists(f, Start_(ws, c), ws[c])}}

Square == [ncols |-> 2, rows |-> <<<<>>, <<>>>>]
Wide == [ncols |-> 4, rows |-> <<<<>>, <<>>>>]
Flat == [ncols |-> 2, rows |-> <<>>]
Zero == [c \in 0 .. 3 |-> 0]
Six == [c \in 0 .. 5 |-> 0]

\* A chunk that was not selected by a kernel may hold a NaN.
Holed == [c \in 0 .. 3 |-> IF c = 1 THEN NaN ELSE c]
Half(from) == [ncols |-> 2, rows |-> <<<<[idx |-> 0, val |-> Holed[from]],
                                         [idx |-> 1, val |-> Holed[from + 1]]>>, <<>>>>]

MCInputs ==
  UNION {{[whole |-> <<f, g>>, chunks |-> cs] : cs \in ChunkSeqs(ws, f, g)} :
           ws \in Widths, f \in Firsts, g \in Seconds}
  \cup {[whole |-> <<Holed, Zero>>, chunks |-> <<Half(0), Half(2)>>],
        [whole |-> <<>>, chunks |-> <<>>],
        [whole |-> <<>>, chunks |-> <<Flat, Flat>>],
        [whole |-> <<Zero, Zero>>, chunks |-> <<Square, Flat>>],
        [whole |-> <<Six, Six>>, chunks |-> <<Wide, Square>>]}
=============================================================================
