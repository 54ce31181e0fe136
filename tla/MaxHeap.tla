------------------------------- MODULE MaxHeap -------------------------------
(***************************************************************************)
(* The bounded heap of src/src/maxheap.rs, one loop iteration per step.    *)
(* The array `heap` holds Capacity scores, smallest at the root; unused    *)
(* slots are sentinels whose score is the threshold.  The caller (the two  *)
(* drains of src/src/chunked.rs) carries the last returned root in `min`   *)
(* and calls push_pop only for a score strictly above it.                  *)
(*                                                                         *)
(* A row offers each column at most once, in any order.                    *)
(***************************************************************************)
EXTENDS Integers, Functions

CONSTANTS Capacity,   \* number of slots: top_n
          Cols,       \* column indices a row may offer
          Values,     \* scores a row may offer
          Threshold,  \* score of a sentinel
          OrderMax    \* u32::MAX: order of a sentinel, where n_set saturates

ASSUME HeapAssumption ==
  /\ Capacity \in Nat \ {0}
  /\ Cols \subseteq Nat /\ 0 \in Cols
  /\ Values \subseteq Int
  /\ Threshold \in Int
  /\ OrderMax \in Nat /\ Capacity <= OrderMax

VARIABLES heap,     \* the array, indexed from 0
          n_set,    \* push_pop calls since the last reset, saturating
          pc,       \* "idle", or inside push_pop "down" / "up", or "sorted"
          i,        \* the loop index of sift_down / sift_up
          cand,     \* the arguments of the push_pop under way
          min,      \* the caller's running threshold
          offered   \* history: the candidates the row has produced so far

vars == <<heap, n_set, pc, i, cand, min, offered>>

Slots == 0 .. Capacity - 1
Last == Capacity - 1
Candidate == [idx : Cols, val : Values]
Score == [order : 0 .. OrderMax, idx : Cols, val : Values \cup {Threshold}]

Sentinel == [order |-> OrderMax, idx |-> 0, val |-> Threshold]

\* Mutant: the order is taken after n_set is incremented.
EntryNumberedAfter(c) == [order |-> n_set + 1, idx |-> c.idx, val |-> c.val]

Entry(c) == [order |-> n_set, idx |-> c.idx, val |-> c.val]
Swap(h, p, q) == [h EXCEPT ![p] = h[q], ![q] = h[p]]

Parent(p) == (p - 1) \div 2
Children(p) == {2 * p + 1, 2 * p + 2}

\* Mutant: the right child is never looked at.
SmallestLeftOnly(h, p, len) ==
  IF 2 * p + 1 < len /\ h[2 * p + 1].val < h[p].val THEN 2 * p + 1 ELSE p

\* The slot sift_down moves to from p over heap[0..len): p itself when no
\* child is strictly smaller, the left child on a tie of the two.
Smallest(h, p, len) ==
  LET left  == 2 * p + 1
      right == 2 * p + 2
      s     == IF left < len /\ h[left].val < h[p].val THEN left ELSE p
  IN  IF right < len /\ h[right].val < h[s].val THEN right ELSE s

\* MaxHeap::n_set: how many entries the row is said to hold.
NSet == IF n_set < Capacity THEN n_set ELSE Capacity

\* Mutant: the contract "strictly greater" is read as "not smaller".
DisplacesEqual(val) == val >= min

\* The caller's guard before push_pop.
Displaces(val) == val > min

Init ==
  /\ heap = [p \in Slots |-> Sentinel]
  /\ n_set = 0
  /\ pc = "idle"
  /\ i = 0
  /\ cand = [idx |-> 0, val |-> Threshold]
  /\ min = Threshold
  /\ offered = {}

New(c) == \A o \in offered : o.idx # c.idx

\* The drain drops a candidate that does not beat the running threshold.
Skip(c) ==
  /\ pc = "idle" /\ New(c)
  /\ ~ Displaces(c.val)
  /\ offered' = offered \cup {c}
  /\ UNCHANGED <<heap, n_set, pc, i, cand, min>>

\* Mutant: the root stays where it is and the back slot is lost instead.
PushOverBack(c) ==
  /\ pc = "idle" /\ New(c)
  /\ Displaces(c.val)
  /\ cand' = c
  /\ i' = 0
  /\ pc' = "down"
  /\ UNCHANGED <<heap, n_set, min, offered>>

\* push_pop begins: the root goes to the back slot.
Push(c) ==
  /\ pc = "idle" /\ New(c)
  /\ Displaces(c.val)
  /\ heap' = Swap(heap, 0, Last)
  /\ cand' = c
  /\ i' = 0
  /\ pc' = "down"
  /\ UNCHANGED <<n_set, min, offered>>

SiftDown ==
  /\ pc = "down"
  /\ Smallest(heap, i, Last) # i
  /\ heap' = Swap(heap, i, Smallest(heap, i, Last))
  /\ i' = Smallest(heap, i, Last)
  /\ UNCHANGED <<n_set, pc, cand, min, offered>>

\* sift_down has returned; the back slot takes the new entry.
Overwrite ==
  /\ pc = "down"
  /\ Smallest(heap, i, Last) = i
  /\ heap' = [heap EXCEPT ![Last] = Entry(cand)]
  /\ n_set' = IF n_set = OrderMax THEN OrderMax ELSE n_set + 1
  /\ offered' = offered \cup {cand}
  /\ i' = Last
  /\ pc' = "up"
  /\ UNCHANGED <<cand, min>>

\* Mutant: the loop ends one level below the root.
RisesBelowRoot == i > 2 /\ heap[i].val < heap[Parent(i)].val

Rises == i > 0 /\ heap[i].val < heap[Parent(i)].val

SiftUp ==
  /\ pc = "up"
  /\ Rises
  /\ heap' = Swap(heap, i, Parent(i))
  /\ i' = Parent(i)
  /\ UNCHANGED <<n_set, pc, cand, min, offered>>

\* push_pop returns the root; the caller keeps it as its new minimum.
Return ==
  /\ pc = "up"
  /\ ~ Rises
  /\ min' = heap[0].val
  /\ i' = 0
  /\ pc' = "idle"
  /\ UNCHANGED <<heap, n_set, cand, offered>>

\* Stable sort of the whole array, sentinels included, when no entry may
\* stand behind a later one that Before puts first.
Sort(Before(_, _)) ==
  /\ pc = "idle"
  /\ \E perm \in Bijection(Slots, Slots) :
       /\ \A p, q \in Slots : p < q =>
            \/ Before(heap[perm[p]], heap[perm[q]])
            \/ /\ ~ Before(heap[perm[q]], heap[perm[p]])
               /\ perm[p] < perm[q]
       /\ heap' = [p \in Slots |-> heap[perm[p]]]
  /\ pc' = "sorted"
  /\ UNCHANGED <<n_set, i, cand, min, offered>>

ByOrder(s, t) == s.order < t.order
ByValueDesc(s, t) == s.val > t.val

SortByInsertionOrder == Sort(ByOrder)
SortByValueDesc == Sort(ByValueDesc)

\* The next row reuses the allocation.
Reset ==
  /\ pc = "sorted"
  /\ heap' = [p \in Slots |-> Sentinel]
  /\ n_set' = 0
  /\ min' = Threshold
  /\ offered' = {}
  /\ pc' = "idle"
  /\ UNCHANGED <<i, cand>>

Next ==
  \/ \E c \in Candidate : Skip(c)
  \/ \E c \in Candidate : Push(c)
  \/ SiftDown
  \/ Overwrite
  \/ SiftUp
  \/ Return
  \/ SortByInsertionOrder
  \/ SortByValueDesc
  \/ Reset

Spec == Init /\ [][Next]_vars

-----------------------------------------------------------------------------
(* Properties *)

TypeOK ==
  /\ heap \in [Slots -> Score]
  /\ n_set \in 0 .. OrderMax
  /\ pc \in {"idle", "down", "up", "sorted"}
  /\ i \in Slots
  /\ cand \in [idx : Cols, val : Values \cup {Threshold}]
  /\ min \in Values \cup {Threshold}
  /\ offered \subseteq Candidate

\* Between two push_pop calls the root is a smallest score and is what the
\* caller believes it to be, so the caller's guard compares a candidate with
\* the entry it would evict (maxheap.rs, push_pop and its two sifts).
RootIsMinimum ==
  pc = "idle" => /\ min = heap[0].val
                 /\ \A p \in Slots : heap[0].val <= heap[p].val

Holds(o) == \E p \in Slots : heap[p].idx = o.idx /\ heap[p].val = o.val

\* At every step, push_pop's loops included, an eligible candidate missing
\* from the array is beaten or equalled by every slot, so a sentinel left in
\* the array means nothing eligible was lost; and every slot above the
\* threshold is a candidate of this row, never one of an earlier row.
TopNRetained ==
  /\ \A o \in offered : o.val > Threshold =>
       Holds(o) \/ \A p \in Slots : heap[p].val >= o.val
  /\ \A p \in Slots : heap[p].val > Threshold =>
       \E o \in offered : o.idx = heap[p].idx /\ o.val = heap[p].val

\* entries() is the prefix of n_set() slots of the sorted array: under either
\* sort it shows every real entry and no sentinel, although the sorts know
\* nothing of sentinels and n_set counts calls and saturates.
EntriesAreReal ==
  pc = "sorted" => \A p \in Slots : p < NSet <=> heap[p].val > Threshold

\* The heap is a TopN selection of what it is offered.
Kept == {[idx |-> heap[p].idx, val |-> heap[p].val] :
           p \in {q \in Slots : heap[q].val > Threshold}}

Selection == INSTANCE TopN WITH N <- Capacity, kept <- Kept

ImplementsTopN == Selection!Spec
=============================================================================
