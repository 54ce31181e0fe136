-------------------------------- MODULE TopN --------------------------------
(***************************************************************************)
(* What a row's selection promises, whatever data structure computes it.   *)
(* A row offers candidates, each a column index with a score; of those     *)
(* strictly above Threshold the selection keeps N of the largest, or all   *)
(* of them when there are fewer.  Which of several equal scores on the     *)
(* boundary survives is left open.  A candidate once dropped never comes   *)
(* back.  MaxHeap (src/src/maxheap.rs), RowKernel and BlockKernel          *)
(* (src/src/chunked.rs) and ZipTopN (src/src/zip.rs) are shown to          *)
(* implement this specification.                                           *)
(***************************************************************************)
EXTENDS Integers, FiniteSets

CONSTANTS N,         \* top_n
          Threshold  \* exclusive lower bound of a kept score

VARIABLES offered,   \* every candidate [idx, val] this row has produced
          kept       \* the candidates the selection holds

vars == <<offered, kept>>

Eligible(S) == {c \in S : c.val > Threshold}

\* K is a selection of the N best candidates of S.
IsTopN(K, S) ==
  /\ K \subseteq Eligible(S)
  /\ \/ K = Eligible(S)
     \/ Cardinality(K) = N
  /\ Cardinality(K) <= N
  /\ \A k \in K, s \in Eligible(S) \ K : k.val >= s.val

Init == offered = {} /\ kept = {}

\* Some candidates are offered; only they and the ones held can be kept.
Offer ==
  /\ offered \subseteq offered'
  /\ kept' \subseteq kept \cup (offered' \ offered)
  /\ IsTopN(kept', offered')

\* The next row starts.
Reset == offered' = {} /\ kept' = {}

Next == Offer \/ Reset

Spec == Init /\ [][Next]_vars
=============================================================================
