---------------------------- MODULE MaxHeapProofs ----------------------------
(***************************************************************************)
(* Proofs about MaxHeap for every capacity, column set, score set and      *)
(* threshold.  HeapInv is inductive: TypeOK, the heap order with its one   *)
(* open place while a sift runs (Shape), the caller's threshold, and       *)
(* TopNRetained.  RootIsMinimum follows from Shape by the least-number     *)
(* principle: the first slot below the root would have a parent that is    *)
(* also below the root.                                                    *)
(*                                                                         *)
(* CountInv adds what n_set counts: entries() cuts a sorted array at n_set *)
(* and finds neither sentinels nor holes.  With both, push_pop and its     *)
(* sifts implement the abstract selection TopN.                            *)
(***************************************************************************)
EXTENDS MaxHeap, FiniteSets, WellFoundedInduction, FiniteSetTheorems, TLAPS

\* The heap order between a slot and its children, on the first len slots.
OrderedAt(p, len) ==
  \A c \in Children(p) : c < len => heap[p].val <= heap[c].val

\* In the middle of push_pop the order fails at most below slot i ("down",
\* over the first Last slots) or above it ("up"); there the parent of i is
\* still in order with the children of i.
Shape ==
  /\ pc = "idle" => \A p \in Slots : OrderedAt(p, Capacity)
  /\ pc = "down" =>
       /\ \A p \in 0 .. Last - 1 : p # i => OrderedAt(p, Last)
       /\ i > 0 => \A c \in Children(i) : c < Last => heap[Parent(i)].val <= heap[c].val
       /\ \A p \in Slots : heap[Last].val <= heap[p].val
       /\ cand.val > heap[Last].val
  /\ pc = "up" =>
       /\ \A p \in Slots : \A c \in Children(p) :
            c < Capacity /\ c # i => heap[p].val <= heap[c].val
       /\ i > 0 => \A c \in Children(i) : c < Capacity => heap[Parent(i)].val <= heap[c].val

Threaded ==
  /\ pc \in {"down", "up"} => cand \in Candidate /\ cand.val > Threshold
  /\ pc = "up" => cand \in offered
  /\ pc = "idle" => min = heap[0].val
  /\ \A p \in Slots : heap[p].val >= Threshold

HeapInv == TypeOK /\ Shape /\ Threaded /\ TopNRetained

-----------------------------------------------------------------------------

\* Every non-empty set of naturals has a least element.
LEMMA LeastNatural ==
  ASSUME NEW T \in SUBSET Nat, T # {}
  PROVE  \E x \in T : \A y \in T : x <= y
<1>1. PICK x \in T : \A y \in T : ~ (<<y, x>> \in OpToRel(<, Nat))
  BY NatLessThanWellFounded, WFMin
<1>2. \A y \in T : ~ (y < x)
  BY <1>1 DEF OpToRel
<1> QED
  BY <1>2

\* Slot arithmetic of the implicit tree.
LEMMA ParentChild ==
  /\ \A p \in Nat \ {0} : Parent(p) \in Nat /\ Parent(p) < p /\ p \in Children(Parent(p))
  /\ \A p \in Nat : \A c \in Children(p) : c \in Nat /\ c > p /\ Parent(c) = p
BY DEF Parent, Children

\* Scores are integers.
LEMMA SlotFacts ==
  ASSUME TypeOK
  PROVE  /\ 0 \in Slots /\ Last \in Slots
         /\ \A p \in Slots : p \in Nat /\ heap[p] \in Score /\ heap[p].val \in Int
<1>1. Values \cup {Threshold} \subseteq Int
  BY HeapAssumption
<1>2. \A s \in Score : s.val \in Int
  BY <1>1 DEF Score
<1> QED
  BY <1>2, HeapAssumption DEF TypeOK, Slots, Last

\* In an ordered heap no slot is below the root.
LEMMA RootLeast ==
  ASSUME TypeOK, \A p \in Slots : OrderedAt(p, Capacity)
  PROVE  \A p \in Slots : heap[0].val <= heap[p].val
<1> DEFINE Bad == {p \in Slots : heap[p].val < heap[0].val}
<1>1. ASSUME Bad # {} PROVE FALSE
  <2>1. Bad \in SUBSET Nat
    BY SlotFacts
  <2>2. PICK x \in Bad : \A y \in Bad : x <= y
    BY <1>1, <2>1, LeastNatural
  <2>3. x \in Nat \ {0} /\ x \in Slots /\ heap[x].val < heap[0].val
    BY SlotFacts
  <2>4. Parent(x) \in Slots /\ Parent(x) < x /\ x \in Children(Parent(x))
    BY <2>3, ParentChild, HeapAssumption DEF Slots
  <2>5. Parent(x) \notin Bad
    BY <2>1, <2>2, <2>3, <2>4
  <2>6. heap[Parent(x)].val <= heap[x].val
    BY <2>3, <2>4, HeapAssumption DEF OrderedAt, Slots
  <2>7. heap[x].val \in Int /\ heap[0].val \in Int /\ heap[Parent(x)].val \in Int
    BY SlotFacts, <2>3, <2>4
  <2>8. heap[Parent(x)].val < heap[0].val
    BY <2>3, <2>6, <2>7
  <2> QED
    BY <2>4, <2>5, <2>8
<1>2. ASSUME NEW p \in Slots PROVE heap[0].val <= heap[p].val
  <2>1. ~ (heap[p].val < heap[0].val)
    BY <1>1
  <2> QED
    BY <2>1, SlotFacts
<1> QED
  BY <1>2

\* One level of sift_down: it stops only in order, and otherwise descends to
\* a smallest child, strictly below the slot it leaves.
LEMMA SmallestFacts ==
  ASSUME TypeOK, NEW s, s = Smallest(heap, i, Last)
  PROVE  /\ s = i => OrderedAt(i, Last)
         /\ s # i => /\ s \in Slots /\ s < Last /\ s \in Children(i)
                     /\ heap[s].val < heap[i].val
                     /\ \A c \in Children(i) : c < Last => heap[s].val <= heap[c].val
<1>1. i \in Slots /\ i \in Nat /\ Last \in Nat /\ Last = Capacity - 1 /\ Capacity \in Nat
  BY HeapAssumption DEF TypeOK, Slots, Last
<1> DEFINE l == 2 * i + 1
           r == 2 * i + 2
<1>2. l \in Nat /\ r \in Nat /\ Children(i) = {l, r} /\ l # i /\ r # i
  BY <1>1 DEF Children
<1>3. (l < Last => l \in Slots) /\ (r < Last => r \in Slots)
  BY <1>1, <1>2 DEF Slots
<1>4. heap[i].val \in Int
  BY <1>1, SlotFacts
<1>5. (l < Last => heap[l].val \in Int) /\ (r < Last => heap[r].val \in Int)
  BY <1>3, SlotFacts
<1> DEFINE m == IF l < Last /\ heap[l].val < heap[i].val THEN l ELSE i
<1>6. s = IF r < Last /\ heap[r].val < heap[m].val THEN r ELSE m
  BY DEF Smallest
<1> HIDE DEF l, r
<1>7. CASE s = i
  BY <1>2, <1>4, <1>5, <1>6, <1>7 DEF OrderedAt
<1>8. CASE s # i
  BY <1>1, <1>2, <1>3, <1>4, <1>5, <1>6, <1>8
<1> QED
  BY <1>7, <1>8

\* A swap of two slots is a permutation of the array.
LEMMA SwapFacts ==
  ASSUME TypeOK, NEW p \in Slots, NEW q \in Slots
  PROVE  /\ Swap(heap, p, q) \in [Slots -> Score]
         /\ \A x \in Slots : Swap(heap, p, q)[x] =
              IF x = p THEN heap[q] ELSE IF x = q THEN heap[p] ELSE heap[x]
BY DEF TypeOK, Swap

Permuted ==
  /\ \A p \in Slots : \E q \in Slots : heap'[p] = heap[q]
  /\ \A q \in Slots : \E p \in Slots : heap'[p] = heap[q]

\* Rearranging the array keeps what it retains.
LEMMA PermutedRetains ==
  ASSUME Permuted, UNCHANGED offered, TopNRetained
  PROVE  TopNRetained'
<1>1. ASSUME NEW o \in offered, o.val > Threshold
      PROVE  Holds(o)' \/ \A p \in Slots : heap'[p].val >= o.val
  <2>1. CASE Holds(o)
    <3>1. PICK q \in Slots : heap[q].idx = o.idx /\ heap[q].val = o.val
      BY <2>1 DEF Holds
    <3>2. PICK p \in Slots : heap'[p] = heap[q]
      BY DEF Permuted
    <3> QED
      BY <3>1, <3>2 DEF Holds
  <2>2. CASE \A q \in Slots : heap[q].val >= o.val
    <3>1. ASSUME NEW p \in Slots PROVE heap'[p].val >= o.val
      <4>1. PICK q \in Slots : heap'[p] = heap[q]
        BY DEF Permuted
      <4> QED
        BY <4>1, <2>2
    <3> QED
      BY <3>1
  <2> QED
    BY <1>1, <2>1, <2>2 DEF TopNRetained
<1>2. ASSUME NEW p \in Slots, heap'[p].val > Threshold
      PROVE  \E o \in offered : o.idx = heap'[p].idx /\ o.val = heap'[p].val
  <2>1. PICK q \in Slots : heap'[p] = heap[q]
    BY DEF Permuted
  <2>2. heap[q].val > Threshold
    BY <2>1, <1>2
  <2> QED
    BY <2>1, <2>2 DEF TopNRetained
<1>3. offered' = offered
  OBVIOUS
<1> QED
  BY <1>1, <1>2, <1>3 DEF TopNRetained

LEMMA SwapPermutes ==
  ASSUME TypeOK, NEW p \in Slots, NEW q \in Slots, heap' = Swap(heap, p, q)
  PROVE  Permuted
<1>1. \A x \in Slots : heap'[x] =
        IF x = p THEN heap[q] ELSE IF x = q THEN heap[p] ELSE heap[x]
  BY SwapFacts
<1> QED
  BY <1>1 DEF Permuted

-----------------------------------------------------------------------------

LEMMA InitInv == Init => HeapInv
<1> SUFFICES ASSUME Init PROVE HeapInv
  OBVIOUS
<1> USE HeapAssumption
<1>1. Sentinel \in Score /\ Sentinel.val = Threshold
  BY DEF Sentinel, Score
<1>2. TypeOK
  BY <1>1 DEF Init, TypeOK, Slots
<1>3. \A p \in Slots : heap[p].val = Threshold
  BY <1>1 DEF Init
<1>4. Shape
  BY <1>3, ParentChild DEF Init, Shape, OrderedAt, Slots
<1>5. Threaded
  BY <1>3 DEF Init, Threaded, Slots
<1>6. TopNRetained
  BY <1>3 DEF Init, TopNRetained
<1> QED
  BY <1>2, <1>4, <1>5, <1>6 DEF HeapInv

LEMMA PushInv ==
  ASSUME HeapInv, NEW c \in Candidate, Push(c)
  PROVE  HeapInv'
<1> USE HeapAssumption
<1>1. /\ TypeOK /\ Shape /\ Threaded /\ TopNRetained
      /\ pc = "idle" /\ pc' = "down" /\ i' = 0 /\ cand' = c
      /\ heap' = Swap(heap, 0, Last) /\ c.val > heap[0].val
      /\ n_set' = n_set /\ min' = min /\ offered' = offered
  BY DEF HeapInv, Push, Threaded, Displaces
<1>2. 0 \in Slots /\ Last \in Slots /\ Last = Capacity - 1 /\ Last \in Nat
  BY <1>1, SlotFacts, HeapAssumption DEF Last
<1>3. TypeOK'
  <2>1. c \in [idx : Cols, val : Values \cup {Threshold}]
    BY DEF Candidate
  <2>2. heap' \in [Slots -> Score]
    BY <1>1, <1>2, SwapFacts
  <2> QED
    BY <1>1, <1>2, <2>1, <2>2 DEF TypeOK
<1>4. \A p \in Slots : heap[0].val <= heap[p].val
  BY <1>1, RootLeast DEF Shape
<1>5. \A p \in Slots : heap'[p] = IF p = 0 THEN heap[Last]
                                  ELSE IF p = Last THEN heap[0] ELSE heap[p]
  BY <1>1, <1>2, SwapFacts
<1>6. Shape'
  <2>1. ASSUME NEW p \in 0 .. Last - 1, p # 0, NEW d \in Children(p), d < Last
        PROVE  heap'[p].val <= heap'[d].val
    <3>1. p \in Slots /\ p # Last /\ d \in Slots /\ d # 0 /\ d # Last /\ d < Capacity
      BY <2>1, <1>2, ParentChild DEF Slots
    <3>2. heap[p].val <= heap[d].val
      BY <3>1, <2>1, <1>1 DEF Shape, OrderedAt
    <3> QED
      BY <2>1, <3>1, <3>2, <1>5
  <2>2. \A p \in Slots : heap'[Last].val <= heap'[p].val
    BY <1>2, <1>4, <1>5
  <2>3. c.val > heap'[Last].val
    BY <1>1, <1>2, <1>5
  <2> QED
    BY <1>1, <2>1, <2>2, <2>3 DEF Shape, OrderedAt
<1>7. Threaded'
  <2>1. c.val > Threshold
    <3>1. c.val \in Int /\ heap[0].val \in Int /\ heap[0].val >= Threshold
      BY <1>1, <1>2, SlotFacts DEF Threaded, Candidate
    <3> QED
      BY <3>1, <1>1
  <2> QED
    BY <1>1, <1>2, <1>5, <2>1 DEF Threaded
<1>8. TopNRetained'
  BY <1>1, <1>2, SwapPermutes, PermutedRetains
<1> QED
  BY <1>3, <1>6, <1>7, <1>8 DEF HeapInv

LEMMA SiftDownInv ==
  ASSUME HeapInv, SiftDown
  PROVE  HeapInv'
<1> USE HeapAssumption
<1> DEFINE s == Smallest(heap, i, Last)
<1>1. /\ TypeOK /\ Shape /\ Threaded /\ TopNRetained
      /\ pc = "down" /\ pc' = "down" /\ i' = s /\ s # i
      /\ heap' = Swap(heap, i, s)
      /\ n_set' = n_set /\ min' = min /\ offered' = offered /\ cand' = cand
  BY DEF HeapInv, SiftDown
<1>2. /\ s \in Slots /\ s < Last /\ s \in Children(i) /\ heap[s].val < heap[i].val
      /\ \A c \in Children(i) : c < Last => heap[s].val <= heap[c].val
  BY <1>1, SmallestFacts
<1> HIDE DEF s
<1>3. i \in Slots /\ i \in Nat /\ Last \in Slots /\ Last = Capacity - 1 /\ Last \in Nat
  BY <1>1, SlotFacts DEF TypeOK, Last
<1>4. i < s /\ Parent(s) = i /\ i # Last /\ s # Last
  BY <1>2, <1>3, ParentChild DEF Slots
<1>5. \A p \in Slots : heap'[p] = IF p = i THEN heap[s]
                                  ELSE IF p = s THEN heap[i] ELSE heap[p]
  BY <1>1, <1>2, <1>3, SwapFacts
<1>6. \A p \in Slots : heap[p].val \in Int
  BY <1>1, SlotFacts
<1>7. TypeOK'
  BY <1>1, <1>2, <1>3, SwapFacts DEF TypeOK
<1>8. Shape'
  <2>1. ASSUME NEW p \in 0 .. Last - 1, p # s, NEW d \in Children(p), d < Last
        PROVE  heap'[p].val <= heap'[d].val
    <3>1. p \in Slots /\ p \in Nat /\ d \in Slots /\ d > p /\ Parent(d) = p
      BY <2>1, <1>3, ParentChild DEF Slots
    <3>2. CASE p = i
      BY <3>1, <3>2, <2>1, <1>2, <1>5, <1>6
    <3>3. CASE p # i
      <4>1. d # s
        BY <3>1, <3>3, <1>4
      <4>2. heap[p].val <= heap[d].val
        BY <3>3, <2>1, <1>1 DEF Shape, OrderedAt
      <4>3. CASE d # i
        BY <4>1, <4>2, <4>3, <3>1, <3>3, <2>1, <1>5
      <4>4. CASE d = i
        <5>1. i > 0 /\ Parent(i) = p
          BY <4>4, <3>1
        <5>2. heap[p].val <= heap[s].val
          BY <5>1, <1>1, <1>2 DEF Shape
        <5> QED
          BY <5>2, <4>4, <3>1, <3>3, <2>1, <1>3, <1>5
      <4> QED
        BY <4>3, <4>4
    <3> QED
      BY <3>2, <3>3
  <2>2. ASSUME NEW d \in Children(s), d < Last
        PROVE  heap'[Parent(s)].val <= heap'[d].val
    <3>1. d \in Slots /\ d > s /\ s \in 0 .. Last - 1
      BY <2>2, <1>2, <1>3, ParentChild DEF Slots
    <3>2. heap[s].val <= heap[d].val
      BY <3>1, <2>2, <1>1, <1>4 DEF Shape, OrderedAt
    <3> QED
      BY <3>1, <3>2, <1>3, <1>4, <1>5, <1>2
  <2>3. \A p \in Slots : heap'[Last].val <= heap'[p].val
    BY <1>1, <1>2, <1>3, <1>4, <1>5 DEF Shape
  <2>4. cand.val > heap'[Last].val
    BY <1>1, <1>3, <1>4, <1>5 DEF Shape
  <2> QED
    BY <1>1, <2>1, <2>2, <2>3, <2>4 DEF Shape, OrderedAt
<1>9. Threaded'
  BY <1>1, <1>2, <1>3, <1>5 DEF Threaded
<1>10. TopNRetained'
  BY <1>1, <1>2, <1>3, SwapPermutes, PermutedRetains
<1> QED
  BY <1>7, <1>8, <1>9, <1>10 DEF HeapInv

LEMMA OverwriteInv ==
  ASSUME HeapInv, Overwrite
  PROVE  HeapInv'
<1> USE HeapAssumption
<1>1. /\ TypeOK /\ Shape /\ Threaded /\ TopNRetained
      /\ pc = "down" /\ pc' = "up" /\ i' = Last
      /\ heap' = [heap EXCEPT ![Last] = Entry(cand)]
      /\ n_set' \in 0 .. OrderMax /\ cand' = cand /\ min' = min
      /\ offered' = offered \cup {cand}
  BY DEF HeapInv, Overwrite, TypeOK
<1>2. /\ Last \in Slots /\ Last = Capacity - 1 /\ Last \in Nat
      /\ i \in Slots /\ cand \in Candidate
  BY <1>1, SlotFacts DEF TypeOK, Last, Threaded
<1>3. OrderedAt(i, Last)
  BY <1>1, SmallestFacts DEF Overwrite
<1>4. Entry(cand) \in Score /\ Entry(cand).val = cand.val /\ Entry(cand).idx = cand.idx
  BY <1>1, <1>2 DEF Entry, Score, TypeOK, Candidate
<1>5. \A p \in Slots : heap'[p] = IF p = Last THEN Entry(cand) ELSE heap[p]
  BY <1>1 DEF TypeOK
<1>6. TypeOK'
  BY <1>1, <1>2, <1>4, <1>5 DEF TypeOK
<1>7. Shape'
  <2>1. ASSUME NEW p \in Slots, NEW d \in Children(p), d < Capacity, d # Last
        PROVE  heap'[p].val <= heap'[d].val
    <3>1. p \in 0 .. Last - 1 /\ p # Last /\ d \in Slots /\ d < Last
      BY <2>1, <1>2, ParentChild DEF Slots
    <3>2. heap[p].val <= heap[d].val
      BY <3>1, <2>1, <1>1, <1>3 DEF Shape, OrderedAt
    <3> QED
      BY <3>1, <3>2, <2>1, <1>5
  <2>2. ASSUME NEW d \in Children(Last), d < Capacity
        PROVE  FALSE
    BY <2>2, <1>2, ParentChild
  <2> QED
    BY <1>1, <2>1, <2>2 DEF Shape
<1>8. Threaded'
  <2>1. cand.val \in Int /\ cand.val > Threshold
    BY <1>1, <1>2 DEF Threaded, Candidate
  <2>2. cand.val >= Threshold
    BY <2>1
  <2> QED
    BY <1>1, <1>2, <1>4, <1>5, <2>1, <2>2 DEF Threaded
<1>9. TopNRetained'
  <2>1. /\ cand.val \in Int /\ heap[Last].val \in Int /\ cand.val > heap[Last].val
        /\ \A p \in Slots : heap[p].val \in Int /\ heap[Last].val <= heap[p].val
    BY <1>1, <1>2, SlotFacts DEF Shape, Candidate
  <2>2. \A p \in Slots : heap'[p].val >= heap[Last].val
    BY <2>1, <1>4, <1>5
  <2>3. ASSUME NEW o \in offered, o.val > Threshold
        PROVE  Holds(o)' \/ \A p \in Slots : heap'[p].val >= o.val
    <3>1. o.val \in Int
      BY <1>1 DEF TypeOK, Candidate
    <3>2. CASE \A p \in Slots : heap[p].val >= o.val
      BY <3>1, <3>2, <2>1, <1>2, <1>4, <1>5
    <3>3. ASSUME NEW q \in Slots, heap[q].idx = o.idx, heap[q].val = o.val
          PROVE  Holds(o)' \/ \A p \in Slots : heap'[p].val >= o.val
      <4>1. CASE q = Last
        BY <4>1, <3>3, <2>2
      <4>2. CASE q # Last
        BY <4>2, <3>3, <1>5 DEF Holds
      <4> QED
        BY <4>1, <4>2
    <3> QED
      BY <1>1, <2>3, <3>2, <3>3 DEF TopNRetained, Holds
  <2>4. Holds(cand)'
    BY <1>1, <1>2, <1>4, <1>5 DEF Holds
  <2>5. ASSUME NEW p \in Slots, heap'[p].val > Threshold
        PROVE  \E o \in offered' : o.idx = heap'[p].idx /\ o.val = heap'[p].val
    <3>1. CASE p = Last
      BY <3>1, <1>1, <1>4, <1>5
    <3>2. CASE p # Last
      BY <3>2, <2>5, <1>1, <1>5 DEF TopNRetained
    <3> QED
      BY <3>1, <3>2
  <2>6. \A o \in offered' : o \in offered \/ o = cand
    BY <1>1
  <2>7. ASSUME NEW o \in offered', o.val > Threshold
        PROVE  Holds(o)' \/ \A p \in Slots : heap'[p].val >= o.val
    BY <2>3, <2>4, <2>6, <2>7, <1>1
  <2> QED
    BY <2>5, <2>7 DEF TopNRetained
<1> QED
  BY <1>6, <1>7, <1>8, <1>9 DEF HeapInv

LEMMA SiftUpInv ==
  ASSUME HeapInv, SiftUp
  PROVE  HeapInv'
<1> USE HeapAssumption
<1> DEFINE u == Parent(i)
<1>1. /\ TypeOK /\ Shape /\ Threaded /\ TopNRetained
      /\ pc = "up" /\ pc' = "up" /\ i' = u /\ i > 0 /\ heap[i].val < heap[u].val
      /\ heap' = Swap(heap, i, u)
      /\ n_set' = n_set /\ min' = min /\ offered' = offered /\ cand' = cand
  BY DEF HeapInv, SiftUp, Rises
<1>2. /\ i \in Slots /\ i \in Nat \ {0} /\ u \in Slots /\ u \in Nat /\ u < i
      /\ i \in Children(u) /\ i < Capacity
  BY <1>1, ParentChild DEF TypeOK, Slots
<1> HIDE DEF u
<1>3. \A p \in Slots : heap'[p] = IF p = i THEN heap[u]
                                  ELSE IF p = u THEN heap[i] ELSE heap[p]
  BY <1>1, <1>2, SwapFacts
<1>4. \A p \in Slots : heap[p].val \in Int
  BY <1>1, SlotFacts
<1>5. TypeOK'
  BY <1>1, <1>2, SwapFacts DEF TypeOK
<1>6. Shape'
  <2>1. ASSUME NEW p \in Slots, NEW d \in Children(p), d < Capacity, d # u
        PROVE  heap'[p].val <= heap'[d].val
    <3>1. p \in Nat /\ d \in Slots /\ d > p /\ Parent(d) = p
      BY <2>1, ParentChild DEF Slots
    <3>2. CASE p = i
      <4>1. heap[u].val <= heap[d].val
        BY <3>2, <2>1, <1>1, <1>2 DEF Shape, u
      <4> QED
        BY <4>1, <3>1, <3>2, <2>1, <1>3
    <3>3. CASE p = u
      <4>1. CASE d = i
        BY <4>1, <3>1, <3>3, <1>1, <1>2, <1>3, <1>4
      <4>2. CASE d # i
        <5>1. heap[u].val <= heap[d].val
          BY <4>2, <3>3, <2>1, <1>1 DEF Shape
        <5> QED
          BY <5>1, <4>2, <3>1, <3>3, <2>1, <1>1, <1>2, <1>3, <1>4
      <4> QED
        BY <4>1, <4>2
    <3>4. CASE p # i /\ p # u
      <4>1. d # i
        BY <3>1, <3>4 DEF u
      <4>2. heap[p].val <= heap[d].val
        BY <4>1, <2>1, <1>1 DEF Shape
      <4> QED
        BY <4>1, <4>2, <3>1, <3>4, <2>1, <1>3
    <3> QED
      BY <3>2, <3>3, <3>4
  <2>2. ASSUME u > 0, NEW d \in Children(u), d < Capacity
        PROVE  heap'[Parent(u)].val <= heap'[d].val
    <3>1. /\ Parent(u) \in Slots /\ Parent(u) < u /\ u \in Children(Parent(u))
          /\ d \in Slots /\ d > u /\ u < Capacity
      BY <2>2, <1>2, ParentChild DEF Slots
    <3>2. heap[Parent(u)].val <= heap[u].val
      BY <3>1, <1>1, <1>2 DEF Shape
    <3>3. CASE d = i
      BY <3>1, <3>2, <3>3, <1>2, <1>3
    <3>4. CASE d # i
      <4>1. heap[u].val <= heap[d].val
        BY <3>4, <2>2, <1>1, <1>2 DEF Shape
      <4>2. heap'[d] = heap[d]
        BY <3>1, <3>4, <1>2, <1>3
      <4>3. Parent(u) # u /\ Parent(u) # i
        BY <3>1, <1>2 DEF Slots
      <4>4. heap'[Parent(u)] = heap[Parent(u)]
        BY <3>1, <4>3, <1>3
      <4>5. /\ heap[Parent(u)].val \in Int /\ heap[u].val \in Int
            /\ heap[d].val \in Int
        BY <3>1, <1>2, <1>4
      <4> QED
        BY <3>2, <4>1, <4>2, <4>4, <4>5
    <3> QED
      BY <3>3, <3>4
  <2> QED
    BY <1>1, <2>1, <2>2 DEF Shape
<1>7. Threaded'
  BY <1>1, <1>2, <1>3 DEF Threaded
<1>8. TopNRetained'
  BY <1>1, <1>2, SwapPermutes, PermutedRetains
<1> QED
  BY <1>5, <1>6, <1>7, <1>8 DEF HeapInv

LEMMA SortInv ==
  ASSUME HeapInv, SortByInsertionOrder \/ SortByValueDesc
  PROVE  HeapInv'
<1>1. PICK perm \in Bijection(Slots, Slots) : heap' = [p \in Slots |-> heap[perm[p]]]
  BY DEF SortByInsertionOrder, SortByValueDesc, Sort
<1>2. /\ TypeOK /\ Threaded /\ TopNRetained /\ pc' = "sorted"
      /\ n_set' = n_set /\ i' = i /\ cand' = cand /\ min' = min /\ offered' = offered
  BY DEF HeapInv, SortByInsertionOrder, SortByValueDesc, Sort
<1>3. perm \in [Slots -> Slots] /\ \A q \in Slots : \E p \in Slots : perm[p] = q
  BY <1>1 DEF Bijection, Injection, Surjection
<1>4. TypeOK'
  BY <1>1, <1>2, <1>3 DEF TypeOK
<1>5. Permuted
  BY <1>1, <1>3 DEF Permuted
<1>6. TopNRetained'
  BY <1>2, <1>5, PermutedRetains
<1>7. Shape'
  BY <1>2 DEF Shape
<1>8. Threaded'
  BY <1>2, <1>5 DEF Threaded, Permuted
<1> QED
  BY <1>4, <1>6, <1>7, <1>8 DEF HeapInv

LEMMA StepInv == HeapInv /\ [Next]_vars => HeapInv'
<1> SUFFICES ASSUME HeapInv, [Next]_vars PROVE HeapInv'
  OBVIOUS
<1>0. TypeOK /\ Shape /\ Threaded /\ TopNRetained
  BY DEF HeapInv
<1>1. ASSUME NEW c \in Candidate, Skip(c) PROVE HeapInv'
  <2>1. c.val \in Int /\ min \in Int /\ min = heap[0].val /\ c.val <= min
    <3>1. c.val \in Int /\ min \in Int
      BY <1>0, HeapAssumption DEF TypeOK, Candidate
    <3>2. min = heap[0].val /\ ~ (c.val > min)
      BY <1>0, <1>1 DEF Skip, Threaded, Displaces
    <3> QED
      BY <3>1, <3>2
  <2>2. \A p \in Slots : heap[p].val >= c.val
    <3>1. \A p \in Slots : heap[0].val <= heap[p].val
      BY <1>0, <1>1, RootLeast DEF Shape, Skip
    <3> QED
      BY <1>0, <2>1, <3>1, SlotFacts
  <2>3. TypeOK'
    BY <1>0, <1>1 DEF Skip, TypeOK
  <2>4. Shape' /\ Threaded'
    BY <1>0, <1>1 DEF Skip, Shape, Threaded, OrderedAt
  <2>5. TopNRetained'
    <3>1. \A o \in offered' : o \in offered \/ o = c
      BY <1>1 DEF Skip
    <3>2. heap' = heap /\ offered \subseteq offered'
      BY <1>1 DEF Skip
    <3> QED
      BY <1>0, <2>2, <3>1, <3>2 DEF TopNRetained, Holds
  <2> QED
    BY <2>3, <2>4, <2>5 DEF HeapInv
<1>2. CASE Return
  <2>1. /\ heap' = heap /\ offered' = offered /\ cand' = cand /\ n_set' = n_set
        /\ min' = heap[0].val /\ i' = 0 /\ pc = "up" /\ pc' = "idle" /\ ~ Rises
    BY <1>2 DEF Return
  <2>2. 0 \in Slots /\ heap[0].val \in Values \cup {Threshold}
    <3>1. 0 \in Slots /\ heap[0] \in Score
      BY <1>0, SlotFacts
    <3> QED
      BY <3>1 DEF Score
  <2>3. TypeOK'
    BY <1>0, <2>1, <2>2 DEF TypeOK
  <2>4. ASSUME NEW p \in Slots, NEW d \in Children(p), d < Capacity
        PROVE  heap[p].val <= heap[d].val
    <3>1. d \in Slots /\ p \in Nat /\ d > 0 /\ Parent(d) = p
      BY <2>4, ParentChild, HeapAssumption DEF Slots
    <3>2. CASE d = i
      BY <1>0, <2>1, <3>1, <3>2, SlotFacts DEF Rises
    <3>3. CASE d # i
      BY <1>0, <2>1, <2>4, <3>3 DEF Shape
    <3> QED
      BY <3>2, <3>3
  <2>5. Shape'
    BY <2>1, <2>4 DEF Shape, OrderedAt
  <2>6. Threaded' /\ TopNRetained'
    BY <1>0, <2>1 DEF Threaded, TopNRetained, Holds
  <2> QED
    BY <2>3, <2>5, <2>6 DEF HeapInv
<1>3. CASE Reset
  <2>1. Sentinel \in Score /\ Sentinel.val = Threshold
    BY HeapAssumption DEF Sentinel, Score
  <2>2. /\ heap' = [p \in Slots |-> Sentinel] /\ n_set' = 0 /\ min' = Threshold
        /\ offered' = {} /\ pc' = "idle" /\ i' = i /\ cand' = cand
    BY <1>3 DEF Reset
  <2>3. \A p \in Slots : heap'[p].val = Threshold
    BY <2>1, <2>2
  <2>4. TypeOK'
    BY <1>0, <2>1, <2>2, HeapAssumption DEF TypeOK
  <2>5. Shape'
    <3>1. ASSUME NEW p \in Slots, NEW d \in Children(p), d < Capacity
          PROVE  heap'[p].val <= heap'[d].val
      <4>1. d \in Slots
        BY <3>1, ParentChild, HeapAssumption DEF Slots
      <4> QED
        BY <4>1, <2>3, HeapAssumption
    <3> QED
      BY <2>2, <3>1 DEF Shape, OrderedAt
  <2>6. Threaded' /\ TopNRetained'
    BY <1>0, <2>2, <2>3, SlotFacts, HeapAssumption DEF Threaded, TopNRetained
  <2> QED
    BY <2>4, <2>5, <2>6 DEF HeapInv
<1>4. CASE UNCHANGED vars
  BY <1>0, <1>4 DEF vars, HeapInv, TypeOK, Shape, Threaded, TopNRetained, Holds, OrderedAt
<1> QED
  BY <1>1, <1>2, <1>3, <1>4, PushInv, SiftDownInv, OverwriteInv, SiftUpInv, SortInv
  DEF Next

-----------------------------------------------------------------------------

\* Every reachable state satisfies the inductive invariant.
THEOREM HeapInvariant == Spec => []HeapInv
<1>1. Init => HeapInv
  BY InitInv
<1>2. HeapInv /\ [Next]_vars => HeapInv'
  BY StepInv
<1> QED
  BY <1>1, <1>2, PTL DEF Spec

\* maxheap.rs, types of the heap's fields: orders never leave the u32 range
\* and every index and score in the array was given to push_pop.
THEOREM TypeCorrect == Spec => []TypeOK
<1>1. HeapInv => TypeOK
  BY DEF HeapInv
<1> QED
  BY <1>1, HeapInvariant, PTL

\* maxheap.rs, push_pop: whenever it has returned, the caller's running
\* threshold is the root and no slot is below it, for every capacity.
THEOREM RootIsAlwaysMinimum == Spec => []RootIsMinimum
<1>1. HeapInv => RootIsMinimum
  BY RootLeast DEF HeapInv, Shape, Threaded, RootIsMinimum
<1> QED
  BY <1>1, HeapInvariant, PTL

\* maxheap.rs, the selection: no candidate above the threshold is lost to a
\* worse one, and nothing in the array is left over from an earlier row, for
\* every capacity and every order of arrival.
THEOREM BestAreRetained == Spec => []TopNRetained
<1>1. HeapInv => TopNRetained
  BY DEF HeapInv
<1> QED
  BY <1>1, HeapInvariant, PTL
-----------------------------------------------------------------------------
(* What the heap holds is counted by n_set *)

\* The slots with an entry.
Real == {p \in Slots : heap[p].val > Threshold}

\* Every other slot is a sentinel, there are as many entries as n_set says, they
\* are numbered below n_set until it saturates, and none is there twice.
Counted ==
  /\ \A p \in Slots : heap[p].val > Threshold \/ heap[p] = Sentinel
  /\ IsFiniteSet(Real) /\ Cardinality(Real) = NSet
  /\ \A p \in Real : heap[p].order < n_set \/ n_set = OrderMax
  /\ \A p, q \in Real : heap[p].idx = heap[q].idx => p = q

\* The column under way has not been offered before; a sorted array begins with
\* its entries.
Listed ==
  /\ pc = "down" => New(cand)
  /\ pc = "sorted" => \A p, q \in Slots : p < q /\ q \in Real => p \in Real

CountInv == HeapInv /\ Counted /\ Listed

SlotsFinite == IsFiniteSet(Slots) /\ Cardinality(Slots) = Capacity

LEMMA SlotsAreFinite == SlotsFinite
<1>1. 0 \in Int /\ Capacity - 1 \in Int /\ Capacity - 1 >= 0
  BY HeapAssumption
<1> QED
  BY <1>1, FS_Interval, HeapAssumption DEF SlotsFinite, Slots

\* A finite set keeps its size under a bijection.
LEMMA PermutedCounted ==
  ASSUME TypeOK, Counted, UNCHANGED n_set, NEW perm \in Bijection(Slots, Slots),
         \A p \in Slots : heap'[p] = heap[perm[p]]
  PROVE  Counted'
<1>1. /\ perm \in [Slots -> Slots]
      /\ \A p, q \in Slots : perm[p] = perm[q] => p = q
      /\ \A q \in Slots : \E p \in Slots : perm[p] = q
  BY DEF Bijection, Injection, Surjection, IsInjective
<1> DEFINE R == Real
           T == Real'
           f == [p \in T |-> perm[p]]
<1>2. T = {p \in Slots : perm[p] \in R}
  BY <1>1 DEF Real
<1>3. IsFiniteSet(T)
  BY <1>2, SlotsAreFinite, FS_Subset DEF SlotsFinite
<1>4. R \subseteq Slots /\ IsFiniteSet(R) /\ Cardinality(R) = NSet
  BY DEF Real, Counted
<1> HIDE DEF R, T
<1>5. f \in [T -> R]
  BY <1>2
<1>6. \A p, q \in T : f[p] = f[q] => p = q
  BY <1>1, <1>2
<1>7. \A r \in R : \E p \in T : f[p] = r
  BY <1>1, <1>2, <1>4
<1>8. f \in Bijection(T, R)
  BY <1>5, <1>6, <1>7 DEF Bijection, Injection, Surjection, IsInjective
<1>9. Cardinality(R) = Cardinality(T)
  BY <1>3, <1>8, FS_Bijection DEF ExistsBijection
<1>10. IsFiniteSet(Real') /\ Cardinality(Real') = NSet'
  BY <1>3, <1>4, <1>9 DEF T, NSet
<1>11. \A p \in Slots : heap'[p].val > Threshold \/ heap'[p] = Sentinel
  BY <1>1 DEF Counted
<1>12. \A p \in Real' : perm[p] \in Real /\ p \in Slots
  BY <1>2 DEF R, T
<1>13. \A p \in Real' : heap'[p].order < n_set \/ n_set = OrderMax
  BY <1>12 DEF Counted
<1>14. \A p, q \in Real' : heap'[p].idx = heap'[q].idx => p = q
  BY <1>1, <1>12 DEF Counted
<1> QED
  BY <1>10, <1>11, <1>13, <1>14 DEF Counted, Sentinel

LEMMA SwapCounted ==
  ASSUME TypeOK, Counted, UNCHANGED n_set, NEW p \in Slots, NEW q \in Slots, heap' = Swap(heap, p, q)
  PROVE  Counted'
<1> DEFINE perm == [x \in Slots |-> IF x = p THEN q ELSE IF x = q THEN p ELSE x]
<1>1. \A x \in Slots : heap'[x] = heap[perm[x]]
  BY SwapFacts
<1>2. perm \in [Slots -> Slots]
  OBVIOUS
<1>3. \A x, y \in Slots : perm[x] = perm[y] => x = y
  OBVIOUS
<1>4. \A y \in Slots : perm[perm[y]] = y /\ perm[y] \in Slots
  OBVIOUS
<1>5. \A y \in Slots : \E x \in Slots : perm[x] = y
  BY <1>4
<1> HIDE DEF perm
<1>6. perm \in Bijection(Slots, Slots)
  BY <1>2, <1>3, <1>5 DEF Bijection, Injection, Surjection, IsInjective
<1> QED
  BY <1>1, <1>6, PermutedCounted

\* The new entry takes the place of a sentinel while there is one, and else of
\* an entry.
LEMMA OverwriteCounted ==
  ASSUME CountInv, Overwrite
  PROVE  Counted'
<1>1. /\ TypeOK /\ Shape /\ Threaded /\ TopNRetained /\ Counted /\ pc = "down" /\ New(cand)
      /\ cand \in Candidate /\ cand.val > Threshold
  BY DEF CountInv, HeapInv, Overwrite, Listed, Threaded
<1>2. /\ Last \in Slots /\ Capacity \in Nat /\ Capacity > 0 /\ Threshold \in Int /\ cand.val \in Int
      /\ OrderMax \in Nat /\ Capacity <= OrderMax /\ n_set \in 0 .. OrderMax
      /\ \A p \in Slots : heap[p].val \in Int /\ heap[p].val >= Threshold
  <2>1. /\ Last \in Slots /\ Capacity \in Nat /\ Capacity > 0 /\ Threshold \in Int
        /\ OrderMax \in Nat /\ Capacity <= OrderMax
    BY <1>1, SlotFacts, HeapAssumption
  <2>2. cand.val \in Int /\ n_set \in 0 .. OrderMax
    BY <1>1, HeapAssumption DEF TypeOK, Candidate
  <2>3. ASSUME NEW p \in Slots PROVE heap[p].val \in Int /\ heap[p].val >= Threshold
    <3>1. heap[p] \in Score /\ (heap[p].val > Threshold \/ heap[p] = Sentinel)
      BY <1>1 DEF TypeOK, Counted
    <3>2. heap[p].val \in Int
      BY <3>1, HeapAssumption DEF Score
    <3>3. Sentinel.val = Threshold
      BY DEF Sentinel
    <3> QED
      BY <2>1, <3>1, <3>2, <3>3
  <2> QED
    BY <2>1, <2>2, <2>3
<1>3. \A p \in Slots : heap'[p] = IF p = Last THEN Entry(cand) ELSE heap[p]
  BY <1>1 DEF TypeOK, Overwrite
<1>4. Entry(cand).val = cand.val /\ Entry(cand).idx = cand.idx /\ Entry(cand).order = n_set
  BY DEF Entry
<1>5. n_set' = IF n_set = OrderMax THEN OrderMax ELSE n_set + 1
  BY DEF Overwrite
<1>6. Real' = Real \cup {Last}
  BY <1>1, <1>2, <1>3, <1>4 DEF Real
<1>7. IsFiniteSet(Real) /\ Cardinality(Real) = NSet /\ Real \subseteq Slots
  BY <1>1 DEF Counted, Real
<1>8. /\ IsFiniteSet(Real')
      /\ Cardinality(Real') = IF Last \in Real THEN Cardinality(Real) ELSE Cardinality(Real) + 1
  BY <1>6, <1>7, FS_AddElement
<1>9. Last \in Real <=> n_set >= Capacity
  <2>1. IsFiniteSet(Slots) /\ Cardinality(Slots) = Capacity
    BY SlotsAreFinite DEF SlotsFinite
  <2>2. CASE Last \in Real
    <3>1. \A p \in Slots : heap[Last].val <= heap[p].val
      BY <1>1 DEF Shape
    <3>2. Real = Slots
      BY <1>2, <2>2, <3>1 DEF Real
    <3> QED
      BY <1>2, <1>7, <2>1, <2>2, <3>2 DEF NSet
  <2>3. CASE n_set >= Capacity
    <3>1. Cardinality(Real) = Cardinality(Slots)
      BY <1>2, <1>7, <2>1, <2>3 DEF NSet
    <3>2. Real = Slots
      BY <1>7, <2>1, <3>1, FS_Subset
    <3> QED
      BY <1>2, <2>3, <3>2
  <2> QED
    BY <2>2, <2>3
<1>10. Cardinality(Real') = NSet'
  BY <1>2, <1>5, <1>7, <1>8, <1>9 DEF NSet
<1>11. \A p \in Slots : heap'[p].val > Threshold \/ heap'[p] = Sentinel
  BY <1>1, <1>3, <1>4 DEF Counted
<1>12. \A p \in Real' : heap'[p].order < n_set' \/ n_set' = OrderMax
  <2> SUFFICES ASSUME NEW p \in Real', n_set' # OrderMax PROVE heap'[p].order < n_set'
    OBVIOUS
  <2>1. n_set' = n_set + 1 /\ n_set # OrderMax
    BY <1>2, <1>5
  <2>2. CASE p = Last
    BY <1>2, <1>3, <1>4, <2>1, <2>2
  <2>3. CASE p # Last
    <3>1. p \in Real /\ p \in Slots
      BY <1>6, <1>7, <2>3
    <3>2. heap[p].order < n_set /\ heap[p] \in Score
      BY <1>1, <2>1, <3>1 DEF Counted, TypeOK
    <3>3. heap[p].order \in Nat
      BY <1>2, <3>2 DEF Score
    <3> QED
      BY <1>2, <1>3, <2>1, <2>3, <3>1, <3>2, <3>3
  <2> QED
    BY <2>2, <2>3
<1>13. \A p \in Real : heap[p].idx # cand.idx
  BY <1>1 DEF TopNRetained, New, Real
<1>14. \A p, q \in Real' : heap'[p].idx = heap'[q].idx => p = q
  <2>1. \A p, q \in Real : heap[p].idx = heap[q].idx => p = q
    BY <1>1 DEF Counted
  <2>2. heap'[Last].idx = cand.idx
    BY <1>2, <1>3, <1>4
  <2>3. \A p \in Real : p # Last => heap'[p] = heap[p]
    BY <1>3, <1>7
  <2> QED
    BY <1>6, <1>13, <2>1, <2>2, <2>3
<1> QED
  BY <1>8, <1>10, <1>11, <1>12, <1>14 DEF Counted, Sentinel

\* Both sorts put the entries before the sentinels.
LEMMA SortLists ==
  ASSUME CountInv, SortByInsertionOrder \/ SortByValueDesc
  PROVE  Counted' /\ Listed'
<1>0. TypeOK /\ Threaded /\ Counted
  BY DEF CountInv, HeapInv
<1> DEFINE Before(s, t) == IF SortByValueDesc THEN ByValueDesc(s, t) ELSE ByOrder(s, t)
<1>1. PICK perm \in Bijection(Slots, Slots) :
        /\ \A p, q \in Slots : p < q => ~ Before(heap[perm[q]], heap[perm[p]])
                                        \/ Before(heap[perm[p]], heap[perm[q]])
        /\ heap' = [p \in Slots |-> heap[perm[p]]]
  <2>1. CASE SortByValueDesc
    BY <2>1 DEF SortByValueDesc, Sort
  <2>2. CASE ~ SortByValueDesc
    BY <2>2 DEF SortByInsertionOrder, Sort
  <2> QED
    BY <2>1, <2>2
<1>2. pc' = "sorted" /\ n_set' = n_set
  BY DEF SortByInsertionOrder, SortByValueDesc, Sort
<1>3. perm \in [Slots -> Slots] /\ \A p \in Slots : heap'[p] = heap[perm[p]]
  BY <1>1 DEF Bijection, Injection, Surjection
<1>4. Counted'
  BY <1>0, <1>1, <1>2, <1>3, PermutedCounted
<1>5. ASSUME NEW p \in Slots, NEW q \in Slots, p < q, q \in Real', p \notin Real'
      PROVE  FALSE
  <2> DEFINE s == heap[perm[p]]
             t == heap[perm[q]]
  <2>1. /\ perm[p] \in Slots /\ perm[q] \in Slots /\ s \in Score /\ t \in Score
        /\ Threshold \in Int /\ OrderMax \in Nat
    BY <1>0, <1>3, HeapAssumption DEF TypeOK
  <2>2. s.val \in Int /\ t.val \in Int /\ s.order \in 0 .. OrderMax /\ t.order \in 0 .. OrderMax
    BY <2>1, HeapAssumption DEF Score
  <2>3. t.val > Threshold /\ ~ (s.val > Threshold)
    BY <1>3, <1>5 DEF Real
  <2>4. s = Sentinel
    BY <1>0, <2>1, <2>3 DEF Counted
  <2>5. s.val = Threshold /\ s.order = OrderMax
    BY <2>4 DEF Sentinel
  <2>6. perm[q] \in Real /\ perm[p] \notin Real
    BY <2>1, <2>3 DEF Real
  <2>7. t.order < OrderMax
    <3>1. IsFiniteSet(Slots) /\ Cardinality(Slots) = Capacity
      BY SlotsAreFinite DEF SlotsFinite
    <3>2. IsFiniteSet(Real) /\ Cardinality(Real) = NSet /\ Real \subseteq Slots
      BY <1>0 DEF Counted, Real
    <3>3. Real # Slots
      BY <2>1, <2>6
    <3>4. Cardinality(Real) # Cardinality(Slots)
      BY <3>1, <3>2, <3>3, FS_Subset
    <3>5. n_set < Capacity /\ n_set \in Nat /\ Capacity <= OrderMax
      BY <1>0, <3>1, <3>2, <3>4, HeapAssumption DEF NSet, TypeOK
    <3>6. t.order < n_set \/ n_set = OrderMax
      BY <1>0, <2>6 DEF Counted
    <3> QED
      BY <2>1, <2>2, <3>5, <3>6, HeapAssumption
  <2>8. Before(t, s) <=> (IF SortByValueDesc THEN t.val > s.val ELSE t.order < s.order)
    BY DEF ByValueDesc, ByOrder
  <2>9. Before(s, t) <=> (IF SortByValueDesc THEN s.val > t.val ELSE s.order < t.order)
    BY DEF ByValueDesc, ByOrder
  <2>10. ~ Before(t, s) \/ Before(s, t)
    BY <1>1, <1>5
  <2> HIDE DEF s, t, Before
  <2> QED
    BY <2>1, <2>2, <2>3, <2>5, <2>7, <2>8, <2>9, <2>10
<1>6. Listed'
  BY <1>2, <1>5 DEF Listed
<1> QED
  BY <1>4, <1>6

LEMMA ParentSlot ==
  ASSUME TypeOK, SiftUp
  PROVE  i \in Slots /\ Parent(i) \in Slots
<1>1. i \in Slots /\ i > 0
  BY DEF SiftUp, Rises, TypeOK
<1>2. i \in Nat /\ i < Capacity /\ Capacity \in Nat
  BY <1>1, HeapAssumption DEF Slots
<1>3. Parent(i) \in Nat /\ Parent(i) < i
  BY <1>1, <1>2 DEF Parent
<1> HIDE DEF Parent
<1> QED
  BY <1>1, <1>2, <1>3 DEF Slots

LEMMA CountInit == Init => CountInv
<1> SUFFICES ASSUME Init PROVE CountInv
  OBVIOUS
<1>1. HeapInv
  BY InitInv
<1>2. \A p \in Slots : heap[p] = Sentinel /\ heap[p].val = Threshold
  BY DEF Init, Sentinel
<1>3. Real = {}
  BY <1>2, HeapAssumption DEF Real
<1>4. NSet = 0
  BY HeapAssumption DEF Init, NSet
<1>5. Counted
  BY <1>2, <1>3, <1>4, FS_EmptySet DEF Counted
<1> QED
  BY <1>1, <1>5 DEF CountInv, Init, Listed

LEMMA CountStep == CountInv /\ [Next]_vars => CountInv'
<1> SUFFICES ASSUME CountInv, [Next]_vars PROVE CountInv'
  OBVIOUS
<1>0. HeapInv /\ TypeOK /\ Counted /\ Listed /\ 0 \in Slots /\ Last \in Slots
  BY SlotFacts DEF CountInv, HeapInv
<1>1. HeapInv'
  BY <1>0, StepInv
<1>2. ASSUME UNCHANGED <<heap, n_set>> PROVE Counted' /\ Real' = Real
  BY <1>0, <1>2 DEF Counted, Real, NSet
<1>3. ASSUME NEW c \in Candidate, Skip(c) PROVE Counted' /\ Listed'
  BY <1>2, <1>3 DEF Skip, Listed
<1>4. ASSUME NEW c \in Candidate, Push(c) PROVE Counted' /\ Listed'
  BY <1>0, <1>4, SwapCounted DEF Push, Listed, New
<1>5. CASE SiftDown
  <2>1. i \in Slots /\ Smallest(heap, i, Last) \in Slots
    BY <1>0, <1>5, SmallestFacts DEF SiftDown, TypeOK
  <2> QED
    BY <1>0, <1>1, <1>5, <2>1, SwapCounted DEF SiftDown, Listed, New, CountInv
<1>6. CASE Overwrite
  BY <1>1, <1>6, OverwriteCounted DEF Overwrite, Listed, CountInv
<1>7. CASE SiftUp
  <2>1. i \in Slots /\ Parent(i) \in Slots
    BY <1>0, <1>7, ParentSlot
  <2> QED
    BY <1>0, <1>1, <1>7, <2>1, SwapCounted DEF SiftUp, Listed, CountInv
<1>8. CASE Return
  BY <1>1, <1>2, <1>8 DEF Return, Listed, CountInv
<1>9. CASE SortByInsertionOrder \/ SortByValueDesc
  BY <1>1, <1>9, SortLists DEF CountInv
<1>10. CASE Reset
  <2>1. \A p \in Slots : heap'[p] = Sentinel /\ heap'[p].val = Threshold
    BY <1>10 DEF Reset, Sentinel
  <2>2. Real' = {} /\ NSet' = 0
    BY <1>10, <2>1, HeapAssumption DEF Real, NSet, Reset
  <2>3. Counted'
    BY <2>1, <2>2, FS_EmptySet DEF Counted
  <2> QED
    BY <1>1, <1>10, <2>3 DEF Reset, Listed, CountInv
<1>11. CASE UNCHANGED vars
  <2>1. Counted' /\ Real' = Real
    BY <1>2, <1>11 DEF vars
  <2> QED
    BY <1>0, <1>1, <1>11, <2>1 DEF vars, Listed, New, CountInv
<1> QED
  BY <1>1, <1>3, <1>4, <1>5, <1>6, <1>7, <1>8, <1>9, <1>10, <1>11 DEF Next, CountInv

\* n_set, the entries that are not sentinels and the pushes since the reset account
\* for each other in every state (maxheap.rs, push_pop and reset).
THEOREM CountInvariant == Spec => []CountInv
BY CountInit, CountStep, PTL DEF Spec

\* entries() shows every entry and no sentinel, under either sort, although the
\* sorts know nothing of sentinels and n_set counts calls and saturates.
THEOREM EntriesAreTheReal == Spec => []EntriesAreReal
<1>1. CountInv => EntriesAreReal
  <2> SUFFICES ASSUME CountInv, pc = "sorted", NEW p \in Slots
               PROVE  p < NSet <=> p \in Real
    BY DEF EntriesAreReal, Real
  <2>1. /\ IsFiniteSet(Real) /\ Cardinality(Real) = NSet /\ Real \subseteq Slots
        /\ \A q, r \in Slots : q < r /\ r \in Real => q \in Real
    BY DEF CountInv, Counted, Listed, Real
  <2>2. /\ p \in Nat /\ Slots \subseteq Nat /\ Cardinality(Real) \in Nat
        /\ Capacity \in Nat /\ p < Capacity
    BY <2>1, FS_CardinalityType, HeapAssumption DEF Slots
  <2>3. CASE p \in Real
    <3>1. 0 .. p \subseteq Real
      <4> SUFFICES ASSUME NEW q \in 0 .. p PROVE q \in Real
        OBVIOUS
      <4>1. q \in Slots /\ (q < p \/ q = p)
        BY <2>2 DEF Slots
      <4> QED
        BY <2>1, <2>3, <4>1
    <3>2. Cardinality(0 .. p) = p + 1
      BY <2>2, FS_Interval
    <3>3. Cardinality(0 .. p) <= Cardinality(Real)
      BY <2>1, <3>1, FS_Subset
    <3> QED
      BY <2>1, <2>2, <2>3, <3>2, <3>3
  <2>4. CASE p \notin Real
    <3>1. \A q \in Real : q \in Slots /\ ~ (q > p) /\ q # p
      BY <2>1, <2>2, <2>4
    <3>2. Real \subseteq 0 .. p - 1
      BY <2>2, <3>1 DEF Slots
    <3>3. IsFiniteSet(0 .. p - 1) /\ Cardinality(0 .. p - 1) = p
      <4>1. 0 \in Int /\ p - 1 \in Int
        BY <2>2
      <4>2. IsFiniteSet(0 .. p - 1) /\ Cardinality(0 .. p - 1) = IF 0 > p - 1 THEN 0 ELSE p - 1 - 0 + 1
        BY <4>1, FS_Interval
      <4> QED
        BY <2>2, <4>2
    <3>4. Cardinality(Real) <= Cardinality(0 .. p - 1)
      BY <3>2, <3>3, FS_Subset
    <3> QED
      BY <2>1, <2>2, <2>4, <3>3, <3>4
  <2> QED
    BY <2>3, <2>4
<1> QED
  BY <1>1, CountInvariant, PTL
-----------------------------------------------------------------------------
(* The heap is a selection of the best *)

Best == Selection!IsTopN(Kept, offered)

LEMMA KeptIsBest == CountInv => Best
<1> SUFFICES ASSUME CountInv PROVE Best
  OBVIOUS
<1>1. TypeOK /\ TopNRetained /\ Counted /\ Real \subseteq Slots
  BY DEF CountInv, HeapInv, Real
<1> DEFINE Shown(p) == [idx |-> heap[p].idx, val |-> heap[p].val]
           f == [p \in Real |-> Shown(p)]
<1>2. Kept = {Shown(p) : p \in Real}
  BY DEF Kept, Real
<1>3. \A p \in Slots : heap[p].val \in Int /\ Threshold \in Int /\ Capacity \in Nat
  BY <1>1, SlotFacts, HeapAssumption
<1>4. \A o \in offered : o \in Candidate /\ o.val \in Int
  BY <1>1, HeapAssumption DEF TypeOK, Candidate
<1>5. Kept \subseteq Selection!Eligible(offered)
  <2> SUFFICES ASSUME NEW p \in Real PROVE Shown(p) \in Selection!Eligible(offered)
    BY <1>2
  <2>1. PICK o \in offered : o.idx = heap[p].idx /\ o.val = heap[p].val
    BY <1>1 DEF TopNRetained, Real
  <2>2. o = Shown(p)
    BY <1>4, <2>1 DEF Candidate
  <2> QED
    BY <2>1, <2>2 DEF Selection!Eligible, Real
<1>6. \A o \in offered : o.val > Threshold /\ Holds(o) => o \in Kept
  <2> SUFFICES ASSUME NEW o \in offered, o.val > Threshold, Holds(o) PROVE o \in Kept
    OBVIOUS
  <2>1. PICK p \in Slots : heap[p].idx = o.idx /\ heap[p].val = o.val
    BY DEF Holds
  <2>2. o = Shown(p) /\ p \in Real
    BY <1>4, <2>1 DEF Candidate, Real
  <2> QED
    BY <1>2, <2>2
<1>7. IsFiniteSet(Real) /\ IsFiniteSet(Slots) /\ Cardinality(Slots) = Capacity
  BY <1>1, SlotsAreFinite DEF Counted, SlotsFinite
<1>8. Cardinality(Kept) = Cardinality(Real)
  <2>1. f \in [Real -> Kept]
    BY <1>2
  <2>2. \A p, q \in Real : f[p] = f[q] => p = q
    BY <1>1 DEF Counted
  <2>3. \A k \in Kept : \E p \in Real : f[p] = k
    BY <1>2
  <2> HIDE DEF f
  <2>4. f \in Bijection(Real, Kept)
    BY <2>1, <2>2, <2>3 DEF Bijection, Injection, Surjection, IsInjective
  <2> QED
    BY <1>7, <2>4, FS_Bijection DEF ExistsBijection
<1>9. Cardinality(Kept) <= Capacity
  BY <1>1, <1>7, <1>8, FS_Subset
<1>10. Kept = Selection!Eligible(offered) \/ Cardinality(Kept) = Capacity
  <2>1. CASE Real = Slots
    BY <1>7, <1>8, <2>1
  <2>2. CASE Real # Slots
    <3>1. PICK p \in Slots : p \notin Real
      BY <1>1, <2>2
    <3>2. heap[p].val = Threshold
      BY <1>1, <3>1 DEF Counted, Real, Sentinel
    <3>3. \A o \in offered : o.val > Threshold => o \in Kept
      <4> SUFFICES ASSUME NEW o \in offered, o.val > Threshold PROVE Holds(o)
        BY <1>6
      <4>1. Holds(o) \/ heap[p].val >= o.val
        BY <1>1 DEF TopNRetained
      <4> QED
        BY <1>3, <1>4, <3>2, <4>1
    <3> QED
      BY <1>5, <3>3 DEF Selection!Eligible
  <2> QED
    BY <2>1, <2>2
<1>11. \A k \in Kept, o \in Selection!Eligible(offered) \ Kept : k.val >= o.val
  <2> SUFFICES ASSUME NEW p \in Real, NEW o \in Selection!Eligible(offered) \ Kept
               PROVE  heap[p].val >= o.val
    BY <1>2
  <2>1. o \in offered /\ o.val > Threshold
    BY DEF Selection!Eligible
  <2>2. ~ Holds(o)
    BY <1>6, <2>1
  <2> QED
    BY <1>1, <2>1, <2>2 DEF TopNRetained
<1>12. Selection!Cardinality(Kept) = Cardinality(Kept)
  BY DEF Selection!Cardinality, Cardinality
<1> QED
  BY <1>5, <1>9, <1>10, <1>11, <1>12 DEF Best, Selection!IsTopN

\* A step that only moves slots keeps what is kept.
LEMMA MovesKeep ==
  ASSUME \A p \in Slots : \E q \in Slots : heap'[p] = heap[q]
  PROVE  Kept' \subseteq Kept
<1> SUFFICES ASSUME NEW p \in Slots, heap'[p].val > Threshold
             PROVE  [idx |-> heap'[p].idx, val |-> heap'[p].val] \in Kept
  BY DEF Kept
<1>1. PICK q \in Slots : heap'[p] = heap[q]
  OBVIOUS
<1> QED
  BY <1>1 DEF Kept

LEMMA SelectionStep ==
  ASSUME CountInv, CountInv', Best', [Next]_vars
  PROVE  Selection!Next
<1>0. TypeOK /\ 0 \in Slots /\ Last \in Slots
  BY SlotFacts DEF CountInv, HeapInv
<1> DEFINE Grows == offered \subseteq offered' /\ Kept' \subseteq Kept \cup (offered' \ offered)
           Moves == \A p \in Slots : \E q \in Slots : heap'[p] = heap[q]
<1>1. Moves /\ offered \subseteq offered' => Grows
  BY MovesKeep
<1>2. Grows => Selection!Next
  BY DEF Best, Selection!Next, Selection!Offer
<1>3. \A p, q \in Slots : heap' = Swap(heap, p, q) => Moves
  BY <1>0, SwapFacts
<1>4. heap' = heap => Moves
  OBVIOUS
<1> HIDE DEF Grows, Moves
<1>5. ASSUME NEW c \in Candidate, Skip(c) PROVE Grows
  BY <1>1, <1>4, <1>5 DEF Skip
<1>6. ASSUME NEW c \in Candidate, Push(c) PROVE Grows
  BY <1>0, <1>1, <1>3, <1>6 DEF Push
<1>7. CASE SiftDown
  <2>1. i \in Slots /\ Smallest(heap, i, Last) \in Slots
    BY <1>0, <1>7, SmallestFacts DEF SiftDown, TypeOK
  <2> QED
    BY <1>1, <1>2, <1>3, <1>7, <2>1 DEF SiftDown
<1>8. CASE Overwrite
  <2>1. New(cand) /\ cand \in Candidate /\ offered' = offered \cup {cand}
    BY <1>8 DEF CountInv, Listed, HeapInv, Threaded, Overwrite
  <2>2. cand \in offered' \ offered
    BY <2>1 DEF New
  <2>3. \A p \in Slots : heap'[p] = heap[p] \/ heap'[p] = Entry(cand)
    BY <1>0, <1>8 DEF Overwrite, TypeOK
  <2>4. [idx |-> Entry(cand).idx, val |-> Entry(cand).val] = cand
    BY <2>1 DEF Entry, Candidate
  <2>5. Kept' \subseteq Kept \cup {cand}
    BY <2>3, <2>4 DEF Kept
  <2>6. Grows
    BY <2>1, <2>2, <2>5 DEF Grows
  <2> QED
    BY <1>2, <2>6
<1>9. CASE SiftUp
  <2>1. i \in Slots /\ Parent(i) \in Slots
    BY <1>0, <1>9, ParentSlot
  <2> QED
    BY <1>1, <1>2, <1>3, <1>9, <2>1 DEF SiftUp
<1>10. CASE Return
  BY <1>1, <1>2, <1>4, <1>10 DEF Return
<1>11. CASE SortByInsertionOrder \/ SortByValueDesc
  <2>1. offered' = offered /\ \E perm \in Bijection(Slots, Slots) : heap' = [p \in Slots |-> heap[perm[p]]]
    BY <1>11 DEF SortByInsertionOrder, SortByValueDesc, Sort
  <2>2. Moves
    BY <2>1 DEF Moves, Bijection, Injection, Surjection
  <2> QED
    BY <1>1, <1>2, <2>1, <2>2
<1>12. CASE Reset
  <2>1. \A p \in Slots : ~ (heap'[p].val > Threshold)
    BY <1>12, HeapAssumption DEF Reset, Sentinel
  <2>2. Kept' = {}
    BY <2>1 DEF Kept
  <2> QED
    BY <1>12, <2>2 DEF Reset, Selection!Next, Selection!Reset
<1>13. CASE UNCHANGED vars
  BY <1>1, <1>2, <1>4, <1>13 DEF vars
<1> QED
  BY <1>2, <1>5, <1>6, <1>7, <1>8, <1>9, <1>10, <1>11, <1>12, <1>13 DEF Next

\* Under every interleaving of skips, pushes, sifts and sorts the heap behaves
\* as the abstract selection: of the columns offered so far it holds the best,
\* and one once lost never comes back (maxheap.rs).
THEOREM HeapIsTopN == Spec => ImplementsTopN
<1>1. Init => Selection!Init
  <2> SUFFICES ASSUME Init PROVE Selection!Init
    OBVIOUS
  <2>1. \A p \in Slots : ~ (heap[p].val > Threshold)
    BY HeapAssumption DEF Init, Sentinel
  <2> QED
    BY <2>1 DEF Init, Kept, Selection!Init
<1>2. CountInv /\ CountInv' /\ Best' /\ [Next]_vars => [Selection!Next]_(Selection!vars)
  BY SelectionStep
<1> QED
  BY <1>1, <1>2, KeptIsBest, CountInvariant, PTL DEF Spec, ImplementsTopN, Selection!Spec
=============================================================================
