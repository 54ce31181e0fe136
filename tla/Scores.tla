-------------------------------- MODULE Scores --------------------------------
(***************************************************************************)
(* What the kernels share: scores and how they are compared and added,     *)
(* rows of B in column order, the product of a row, and the top-n heap as  *)
(* a set of entries.                                                       *)
(* Scores are integers or NaN (src/src/scalar.rs).  The heap follows the   *)
(* contract proved in MaxHeapProofs: while it is not full its root is a    *)
(* sentinel; after that a push evicts one of the smallest entries, any of  *)
(* them, and returns the new smallest score.                               *)
(***************************************************************************)
EXTENDS Integers, Sequences, FiniteSets

CONSTANTS
  Capacity,    \* top_n
  Threshold,   \* exclusive lower bound of an output score
  NaN          \* the float that compares with nothing

Value == Int \cup {NaN}

\* Mutant: partial_cmp may also be Some(Equal).
GtOrEqual(x, y) == x # NaN /\ y # NaN /\ x >= y

Gt(x, y) == x # NaN /\ y # NaN /\ x > y
FMAdd(v, x, acc) == IF NaN \in {v, x, acc} THEN NaN ELSE v * x + acc

Canonical(r) == \A p, q \in DOMAIN r : p < q => r[p].k < r[q].k

\* First position of a row of B at or past column c: partition_point, plus one.
PartitionPoint(r, c) == Cardinality({p \in DOMAIN r : r[p].k < c}) + 1

\* Column k of the product of u, a row of A, with the matrix m, summed in the
\* order of u's entries.
Has(r, k) == \E p \in DOMAIN r : r[p].k = k
At(r, k) == r[CHOOSE p \in DOMAIN r : r[p].k = k].x
DotProduct(u, m, k) ==
  LET acc[p \in 0 .. Len(u)] ==
        IF p = 0 THEN 0
        ELSE IF Has(m[u[p].j], k) THEN FMAdd(u[p].v, At(m[u[p].j], k), acc[p - 1])
        ELSE acc[p - 1]
  IN  acc[Len(u)]

Largest(S) == {m \in S : \A s \in S : s <= m}

\* The score at the root of h, a sentinel's while h is not full.
Lowest(h) == {e \in h : \A f \in h : e.val <= f.val}
Root(h) == IF Cardinality(h) < Capacity THEN {Threshold} ELSE {e.val : e \in Lowest(h)}

\* The heaps push_pop may leave when it is given entry e.
Pushed(h, e) ==
  {(h \ evicted) \cup {e} :
     evicted \in IF Cardinality(h) < Capacity THEN {{}} ELSE {{f} : f \in Lowest(h)}}

\* The entries of h in an order that does not contradict Before.
Listings(h, Before(_, _)) ==
  {f \in [1 .. Cardinality(h) -> h] :
     /\ {f[p] : p \in DOMAIN f} = h
     /\ \A p, q \in DOMAIN f : p < q => ~ Before(f[q], f[p])}
=============================================================================
