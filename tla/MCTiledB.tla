------------------------------ MODULE MCTiledB ------------------------------
(* TiledB for every matrix of two rows and four columns with up to four      *)
(* entries, in any column order and with repeats, and some with five; three  *)
(* columns can be numbered and four entries counted.                         *)
EXTENDS TiledB

Entry == [j : 0 .. NRows - 1, k : 0 .. NCols - 1]
MCMatrices ==
  {m \in UNION {[1 .. n -> Entry] : n \in 0 .. 4} : \A p, q \in DOMAIN m : p < q => m[p].j <= m[q].j}
  \cup {[p \in 1 .. 5 |-> [j |-> 0, k |-> c]] : c \in 0 .. NCols - 1}
=============================================================================
