---------------------------- MODULE ParallelProofs ----------------------------
(***************************************************************************)
(* Proofs about ParallelDriver and the bindings that call it (PyCalls), for *)
(* any number of callers, thread counts, rows and works: partition_rows    *)
(* cuts the rows into slices without gap or overlap, the mutex of pool_for *)
(* admits one caller, callers share a pool exactly when they ask for the   *)
(* same thread count, and a call that succeeds, with one thread or many,   *)
(* returns its rows in order; then, of the bindings, that every exception  *)
(* has its cause and every array a kernel reads is alive.                  *)
(*                                                                         *)
(* IInv says of every slice that has run that it holds its rows and their  *)
(* lengths, and of the rows and blocks put together so far that they are a *)
(* prefix of the result; the order in which slices finish drops out because *)
(* the blocks are sorted by their first row, and these differ.  PyInv adds *)
(* who holds the GIL, what each thread borrows and the cause of a panic.   *)
(***************************************************************************)
EXTENDS PyCalls, SequenceLemmas, FiniteSetTheorems, TLAPS

-----------------------------------------------------------------------------
(* partition_rows *)

\* The quotient of a positive divisor, rounded down.
LEMMA Quotient ==
  ASSUME NEW x \in Nat, NEW y \in Nat \ {0}
  PROVE  /\ x \div y \in Nat
         /\ y * (x \div y) <= x
         /\ x < y * (x \div y) + y
OBVIOUS

\* A slice has at least HINT rows.
LEMMA BlockSizeType ==
  ASSUME NEW n \in Nat
  PROVE  BlockSize(n) \in Nat \ {0} /\ BlockSize(n) >= HINT
<1> DEFINE t == AtLeast(4 * n, 1)
<1>1. t \in Nat \ {0}
  BY DEF AtLeast
<1> HIDE DEF t
<1>2. NRows + t - 1 \in Nat /\ HINT \in Nat \ {0}
  BY <1>1, DriverAssumption
<1>3. CeilDiv(NRows, t) \in Nat
  BY <1>1, <1>2, Quotient DEF CeilDiv
<1> QED
  BY <1>2, <1>3 DEF BlockSize, AtLeast, t

LEMMA Monotone ==
  ASSUME NEW s \in Nat \ {0}, NEW x \in Int, NEW y \in Int
  PROVE  /\ x <= y => x * s <= y * s
         /\ x * s < y * s => x < y
OBVIOUS

\* Every row is in exactly one slice, the slices follow one another in the order
\* of their numbers, and none is empty: no row is computed twice or left out
\* by run_parallel, whatever nrows, n_threads and ROW_BLOCK_HINT.
THEOREM SlicesPartition ==
  ASSUME NEW n \in Nat
  PROVE  /\ \A r \in 0 .. NRows - 1 : \E k \in Slices(n) : Lo(n, k) <= r /\ r < Hi(n, k)
         /\ \A j, k \in Slices(n) : j < k => Hi(n, j) <= Lo(n, k)
         /\ \A k \in Slices(n) : Lo(n, k) < Hi(n, k) /\ Hi(n, k) <= NRows
<1> DEFINE s == BlockSize(n)
           m == CeilDiv(NRows, s)
<1>1. s \in Nat \ {0} /\ NRows \in Nat \ {0}
  BY BlockSizeType, DriverAssumption
<1> HIDE DEF s
<1>2. m \in Nat /\ s * m <= NRows + s - 1 /\ NRows + s - 1 < s * m + s
  BY <1>1, Quotient DEF CeilDiv
<1>3. NRows <= m * s
  BY <1>1, <1>2
<1>4. (m - 1) * s < NRows
  BY <1>1, <1>2
<1>5. /\ Slices(n) = 0 .. m - 1
      /\ \A k : Lo(n, k) = k * s
      /\ \A k : Hi(n, k) = IF k * s + s < NRows THEN k * s + s ELSE NRows
  BY DEF Slices, Lo, Hi, s, m
<1> HIDE DEF m
<1>6. ASSUME NEW r \in 0 .. NRows - 1
      PROVE  \E k \in Slices(n) : Lo(n, k) <= r /\ r < Hi(n, k)
  <2> DEFINE k == r \div s
  <2>1. k \in Nat /\ k * s <= r /\ r < k * s + s
    BY <1>1, Quotient
  <2> HIDE DEF k
  <2>2. k * s < m * s
    BY <1>1, <1>2, <1>3, <2>1
  <2>3. k < m
    BY <1>1, <1>2, <2>1, <2>2, Monotone
  <2>4. k \in Slices(n) /\ Lo(n, k) <= r /\ r < Hi(n, k)
    BY <1>1, <1>2, <1>5, <2>1, <2>3
  <2> QED
    BY <2>4
<1>7. ASSUME NEW j \in Slices(n), NEW k \in Slices(n), j < k
      PROVE  Hi(n, j) <= Lo(n, k)
  <2>1. j \in Int /\ k \in Int /\ j + 1 <= k
    BY <1>2, <1>5, <1>7
  <2>2. (j + 1) * s <= k * s
    BY <1>1, <2>1, Monotone
  <2>3. (j + 1) * s = j * s + s
    BY <1>1, <2>1
  <2>4. j * s \in Int /\ k * s \in Int
    BY <1>1, <2>1
  <2> QED
    BY <1>1, <1>5, <2>2, <2>3, <2>4
<1>8. ASSUME NEW k \in Slices(n)
      PROVE  Lo(n, k) < Hi(n, k) /\ Hi(n, k) <= NRows
  <2>1. k \in Int /\ k <= m - 1 /\ m - 1 \in Int
    BY <1>2, <1>5
  <2>2. k * s <= (m - 1) * s
    BY <1>1, <2>1, Monotone
  <2>3. k * s \in Int /\ (m - 1) * s \in Int
    BY <1>1, <2>1
  <2>4. k * s < NRows
    BY <1>1, <1>4, <2>2, <2>3
  <2> QED
    BY <1>1, <1>5, <2>3, <2>4
<1> QED
  BY <1>6, <1>7, <1>8

-----------------------------------------------------------------------------
(* Rows, one after the other *)

\* The entries of the rows before row n, and the offsets of rows 0 to n in them.
Rows(w, n) == FlattenSeq([p \in 1 .. n |-> Entries(w, p - 1)])
Offsets(w, n) == [p \in 1 .. n + 1 |-> Len(Rows(w, p - 1))]

NoPanic(w, n) == \A r \in 0 .. n - 1 : w[r] # Panics

RowNames == 0 .. NRows - 1

LEMMA EntriesFacts ==
  ASSUME NEW w \in Works, NEW r \in RowNames, w[r] # Panics
  PROVE  /\ w[r] \in Nat
         /\ Entries(w, r) \in Seq(RowNames) /\ Len(Entries(w, r)) = w[r]
         /\ \A e \in 1 .. w[r] : Entries(w, r)[e] = r
<1>1. w[r] \in Nat
  BY DriverAssumption DEF RowNames
<1>2. Entries(w, r) \in [1 .. w[r] -> RowNames]
  BY <1>1 DEF Entries
<1> QED
  BY <1>1, <1>2 DEF Entries

\* Each row is appended to the rows before it.
LEMMA RowsFacts ==
  ASSUME NEW w \in Works, NEW n \in 0 .. NRows, NoPanic(w, n)
  PROVE  /\ Rows(w, 0) = <<>>
         /\ \A m \in 0 .. n : Rows(w, m) \in Seq(RowNames)
         /\ \A m \in 1 .. n : Rows(w, m) = Rows(w, m - 1) \o Entries(w, m - 1)
<1> DEFINE f == [p \in 1 .. n |-> Entries(w, p - 1)]
<1>1. n \in Nat /\ n <= NRows /\ NRows \in Nat
  BY DriverAssumption
<1>2. f \in [1 .. n -> Seq(RowNames)]
  <2> SUFFICES ASSUME NEW p \in 1 .. n PROVE Entries(w, p - 1) \in Seq(RowNames)
    OBVIOUS
  <2>1. p - 1 \in RowNames /\ w[p - 1] # Panics
    BY <1>1 DEF NoPanic, RowNames
  <2> QED
    BY <2>1, EntriesFacts
<1>3. \A m \in 0 .. n : [p \in 1 .. m |-> f[p]] = [p \in 1 .. m |-> Entries(w, p - 1)]
  BY <1>1
<1>4. \A m \in 1 .. n : f[m] = Entries(w, m - 1) /\ m - 1 \in 0 .. n /\ m \in 0 .. n
  BY <1>1
<1>5. 0 \in 0 .. n
  BY <1>1
<1> HIDE DEF f
<1>6. /\ FlattenSeq([p \in 1 .. 0 |-> f[p]]) = <<>>
      /\ \A m \in 0 .. n : FlattenSeq([p \in 1 .. m |-> f[p]]) \in Seq(RowNames)
      /\ \A m \in 1 .. n : FlattenSeq([p \in 1 .. m |-> f[p]])
                           = FlattenSeq([p \in 1 .. m - 1 |-> f[p]]) \o f[m]
  BY <1>1, <1>2, FlattenPrefix
<1>7. \A m \in 0 .. n : FlattenSeq([p \in 1 .. m |-> f[p]]) = Rows(w, m)
  BY <1>3 DEF Rows
<1> QED
  BY <1>4, <1>5, <1>6, <1>7

LEMMA RowsGrow ==
  ASSUME NEW w \in Works, NEW n \in 0 .. NRows, NoPanic(w, n), NEW m \in 1 .. n
  PROVE  /\ Len(Rows(w, m)) = Len(Rows(w, m - 1)) + w[m - 1]
         /\ w[m - 1] \in Nat /\ Len(Rows(w, m - 1)) \in Nat
         /\ \A e \in 1 .. Len(Rows(w, m - 1)) : Rows(w, m)[e] = Rows(w, m - 1)[e]
         /\ \A e \in Len(Rows(w, m - 1)) + 1 .. Len(Rows(w, m)) : Rows(w, m)[e] = m - 1
<1>1. m - 1 \in RowNames /\ w[m - 1] # Panics /\ m - 1 \in 0 .. n
  BY DriverAssumption DEF NoPanic, RowNames
<1>2. /\ Rows(w, m - 1) \in Seq(RowNames)
      /\ Rows(w, m) = Rows(w, m - 1) \o Entries(w, m - 1)
  BY <1>1, RowsFacts
<1>3. /\ w[m - 1] \in Nat
      /\ Entries(w, m - 1) \in Seq(RowNames) /\ Len(Entries(w, m - 1)) = w[m - 1]
      /\ \A e \in 1 .. w[m - 1] : Entries(w, m - 1)[e] = m - 1
  BY <1>1, EntriesFacts
<1> DEFINE s == Rows(w, m - 1)
           t == Entries(w, m - 1)
<1>4. /\ Len(s \o t) = Len(s) + Len(t) /\ Len(s) \in Nat /\ Len(t) \in Nat
      /\ \A e \in 1 .. Len(s) + Len(t) : (s \o t)[e] = IF e <= Len(s) THEN s[e] ELSE t[e - Len(s)]
  BY <1>2, <1>3, ConcatProperties, LenProperties
<1> HIDE DEF s, t
<1>5. \A e \in Len(s) + 1 .. Len(s) + Len(t) : e - Len(s) \in 1 .. Len(t) /\ ~ (e <= Len(s)) /\ e \in 1 .. Len(s) + Len(t)
  BY <1>4
<1>6. \A e \in 1 .. Len(s) : e \in 1 .. Len(s) + Len(t) /\ e <= Len(s)
  BY <1>4
<1>7. Rows(w, m - 1) = s /\ Entries(w, m - 1) = t
  BY DEF s, t
<1>8. Rows(w, m) = s \o t /\ Len(t) = w[m - 1] /\ \A e \in 1 .. Len(t) : t[e] = m - 1
  BY <1>2, <1>3, <1>7
<1>9. \A e \in Len(s) + 1 .. Len(s) + Len(t) : (s \o t)[e] = m - 1
  BY <1>4, <1>5, <1>8
<1>10. \A e \in 1 .. Len(s) : (s \o t)[e] = s[e]
  BY <1>4, <1>6
<1> QED
  BY <1>3, <1>4, <1>7, <1>8, <1>9, <1>10

\* Row m - 1 keeps its place whatever follows it.
LEMMA RowsStay ==
  ASSUME NEW w \in Works, NEW n \in 0 .. NRows, NoPanic(w, n), NEW m \in 0 .. n
  PROVE  /\ Len(Rows(w, m)) <= Len(Rows(w, n))
         /\ \A e \in 1 .. Len(Rows(w, m)) : Rows(w, n)[e] = Rows(w, m)[e]
<1> DEFINE Keeps(k) == /\ Len(Rows(w, m)) <= Len(Rows(w, k))
                       /\ \A e \in 1 .. Len(Rows(w, m)) : Rows(w, k)[e] = Rows(w, m)[e]
           S == {d \in Nat : m + d <= n => Keeps(m + d)}
<1>1. \A k \in 0 .. n : Len(Rows(w, k)) \in Nat
  BY RowsFacts, LenProperties
<1>2. 0 \in S
  BY <1>1
<1>3. ASSUME NEW d \in Nat, d \in S
      PROVE  d + 1 \in S
  <2> SUFFICES ASSUME m + (d + 1) <= n PROVE Keeps(m + (d + 1))
    OBVIOUS
  <2> DEFINE k == m + (d + 1)
  <2>1. k \in 1 .. n /\ k - 1 = m + d /\ m + d <= n
    OBVIOUS
  <2>2. Keeps(k - 1)
    BY <1>3, <2>1
  <2>3. /\ Len(Rows(w, k)) = Len(Rows(w, k - 1)) + w[k - 1]
        /\ w[k - 1] \in Nat /\ Len(Rows(w, k - 1)) \in Nat
        /\ \A e \in 1 .. Len(Rows(w, k - 1)) : Rows(w, k)[e] = Rows(w, k - 1)[e]
    BY <2>1, RowsGrow
  <2>4. Len(Rows(w, m)) \in Nat
    BY <1>1
  <2> HIDE DEF k
  <2>5. Keeps(k)
    BY <2>2, <2>3, <2>4
  <2> QED
    BY <2>5 DEF k
<1> HIDE DEF S
<1>4. n - m \in S
  BY <1>2, <1>3, Induction
<1>5. n - m \in Nat /\ m + (n - m) = n
  OBVIOUS
<1> QED
  BY <1>4, <1>5 DEF S

\* The rows lo to hi - 1 on their own are what lies between the rows before lo
\* and the rows before hi.
Part(w, lo, hi) == FlattenSeq([p \in 1 .. hi - lo |-> Entries(w, lo + p - 1)])

LEMMA PartExtends ==
  ASSUME NEW w \in Works, NEW hi \in 0 .. NRows, NEW lo \in 0 .. hi,
         \A r \in 0 .. hi - 1 : w[r] # Panics
  PROVE  /\ Part(w, lo, hi) \in Seq(RowNames)
         /\ Rows(w, lo) \o Part(w, lo, hi) = Rows(w, hi)
<1> DEFINE n == hi - lo
           f == [p \in 1 .. n |-> Entries(w, lo + p - 1)]
           Prefix(m) == FlattenSeq([p \in 1 .. m |-> f[p]])
           S == {m \in Nat : m <= n => Rows(w, lo) \o Prefix(m) = Rows(w, lo + m)}
<1>1. n \in Nat /\ NRows \in Nat /\ lo \in Nat /\ hi \in Nat /\ NoPanic(w, hi)
  BY DriverAssumption DEF NoPanic
<1>2. f \in [1 .. n -> Seq(RowNames)]
  <2> SUFFICES ASSUME NEW p \in 1 .. n PROVE Entries(w, lo + p - 1) \in Seq(RowNames)
    OBVIOUS
  <2>1. lo + p - 1 \in RowNames /\ w[lo + p - 1] # Panics
    BY <1>1 DEF RowNames, NoPanic
  <2> QED
    BY <2>1, EntriesFacts
<1>3. /\ Prefix(0) = <<>>
      /\ \A m \in 0 .. n : Prefix(m) \in Seq(RowNames)
      /\ \A m \in 1 .. n : Prefix(m) = Prefix(m - 1) \o f[m]
  <2>1. n \in Nat
    BY <1>1
  <2> HIDE DEF f, n
  <2> QED
    BY <1>2, <2>1, FlattenPrefix
<1>4. Prefix(n) = Part(w, lo, hi)
  <2>1. [p \in 1 .. n |-> f[p]] = [p \in 1 .. hi - lo |-> Entries(w, lo + p - 1)]
    OBVIOUS
  <2> QED
    BY <2>1 DEF Part
<1>5. ASSUME NEW m \in 1 .. n
      PROVE  f[m] = Entries(w, (lo + m) - 1) /\ f[m] \in Seq(RowNames) /\ lo + m \in 1 .. hi
  <2>1. f[m] = Entries(w, (lo + m) - 1)
    OBVIOUS
  <2>2. lo + m \in 1 .. hi
    BY <1>1
  <2> HIDE DEF f, n
  <2> QED
    BY <1>2, <2>1, <2>2
<1> HIDE DEF f, n, Prefix
<1>6. \A m \in 0 .. hi : Rows(w, m) \in Seq(RowNames)
  BY <1>1, RowsFacts
<1>7. 0 \in S
  <2>1. lo + 0 = lo /\ lo \in 0 .. hi /\ Rows(w, lo) \in Seq(RowNames)
    BY <1>1, <1>6
  <2>2. Rows(w, lo) \o Prefix(0) = Rows(w, lo + 0)
    BY <2>1, <1>3, ConcatEmptySeq
  <2> QED
    BY <2>2
<1>8. ASSUME NEW m \in Nat, m \in S
      PROVE  m + 1 \in S
  <2> SUFFICES ASSUME m + 1 <= n PROVE Rows(w, lo) \o Prefix(m + 1) = Rows(w, lo + (m + 1))
    OBVIOUS
  <2>1. m + 1 \in 1 .. n /\ (m + 1) - 1 = m /\ m <= n /\ m \in 0 .. n
    BY <1>1
  <2>2. Rows(w, lo) \o Prefix(m) = Rows(w, lo + m)
    BY <1>8, <2>1
  <2>3. Prefix(m + 1) = Prefix(m) \o f[m + 1]
    BY <1>3, <2>1
  <2>4. lo \in 0 .. hi /\ lo + (m + 1) \in 1 .. hi /\ (lo + (m + 1)) - 1 = lo + m
    BY <1>1, <1>5, <2>1
  <2>5. Rows(w, lo + (m + 1)) = Rows(w, lo + m) \o Entries(w, (lo + (m + 1)) - 1)
    BY <1>1, <2>4, RowsFacts
  <2>6. f[m + 1] = Entries(w, (lo + (m + 1)) - 1) /\ f[m + 1] \in Seq(RowNames)
    BY <1>5, <2>1
  <2>7. Rows(w, lo) \in Seq(RowNames) /\ Prefix(m) \in Seq(RowNames)
    BY <1>3, <1>6, <2>1, <2>4
  <2>8. Rows(w, lo) \o (Prefix(m) \o f[m + 1]) = (Rows(w, lo) \o Prefix(m)) \o f[m + 1]
    BY <2>6, <2>7, ConcatAssociative
  <2> QED
    BY <2>2, <2>3, <2>5, <2>6, <2>8
<1> HIDE DEF S
<1>9. n \in S
  BY <1>1, <1>7, <1>8, Induction
<1>10. Rows(w, lo) \o Prefix(n) = Rows(w, lo + n) /\ lo + n = hi
  BY <1>1, <1>9 DEF S, n
<1>11. Prefix(n) \in Seq(RowNames)
  BY <1>1, <1>3
<1> QED
  BY <1>4, <1>10, <1>11

\* The prefix sums of the rows' lengths are the offsets.
LEMMA SumsAreOffsets ==
  ASSUME NEW w \in Works, NoPanic(w, NRows)
  PROVE  PrefixSums([r \in 1 .. NRows |-> w[r - 1]]) = Offsets(w, NRows)
<1> DEFINE nset == [r \in 1 .. NRows |-> w[r - 1]]
           Sums(s) == s = [p \in 0 .. Len(nset) |-> IF p = 0 THEN 0 ELSE s[p - 1] + nset[p]]
           running == CHOOSE s : Sums(s)
           lens == [p \in 0 .. NRows |-> Len(Rows(w, p))]
<1>1. NRows \in Nat /\ NRows \in 0 .. NRows
  BY DriverAssumption
<1>2. Len(nset) = NRows /\ \A p \in 1 .. NRows : nset[p] = w[p - 1]
  BY <1>1
<1>3. Len(Rows(w, 0)) = 0
  BY <1>1, RowsFacts
<1>4. \A p \in 1 .. NRows : Len(Rows(w, p)) = Len(Rows(w, p - 1)) + w[p - 1]
  BY <1>1, RowsGrow
<1> HIDE DEF nset
<1>5. Sums(lens)
  <2>1. ASSUME NEW p \in 0 .. NRows
        PROVE  lens[p] = IF p = 0 THEN 0 ELSE lens[p - 1] + nset[p]
    <3>1. p = 0 \/ (p \in 1 .. NRows /\ p - 1 \in 0 .. NRows /\ p # 0)
      BY <1>1
    <3>2. lens[p] = Len(Rows(w, p)) /\ (p # 0 => lens[p - 1] = Len(Rows(w, p - 1)))
      BY <3>1
    <3> HIDE DEF lens
    <3> QED
      BY <1>2, <1>3, <1>4, <3>1, <3>2
  <2>2. lens = [p \in 0 .. NRows |-> lens[p]]
    OBVIOUS
  <2> HIDE DEF lens
  <2>3. [p \in 0 .. NRows |-> lens[p]]
        = [p \in 0 .. NRows |-> IF p = 0 THEN 0 ELSE lens[p - 1] + nset[p]]
    BY <2>1
  <2> QED
    BY <1>2, <2>2, <2>3
<1>6. Sums(running)
  BY <1>5
<1>7. PrefixSums(nset) = <<0>> \o [p \in 1 .. Len(nset) |-> running[p]]
  BY DEF PrefixSums
<1> HIDE DEF running
<1> DEFINE S == {p \in Nat : p <= NRows => running[p] = Len(Rows(w, p))}
<1>8. 0 \in S
  BY <1>1, <1>2, <1>3, <1>6
<1>9. ASSUME NEW p \in Nat, p \in S
      PROVE  p + 1 \in S
  <2> SUFFICES ASSUME p + 1 <= NRows PROVE running[p + 1] = Len(Rows(w, p + 1))
    OBVIOUS
  <2>1. p + 1 \in 0 .. NRows /\ p + 1 # 0 /\ (p + 1) - 1 = p /\ p + 1 \in 1 .. NRows /\ p <= NRows
    BY <1>1
  <2>2. running[p + 1] = running[p] + nset[p + 1]
    BY <1>2, <1>6, <2>1
  <2>3. Len(Rows(w, p + 1)) = Len(Rows(w, p)) + w[p]
    BY <1>4, <2>1
  <2> QED
    BY <1>2, <1>9, <2>1, <2>2, <2>3
<1>10. \A p \in 0 .. NRows : running[p] = Len(Rows(w, p))
  <2> HIDE DEF S
  <2>1. \A p \in Nat : p \in S
    BY <1>8, <1>9, Induction
  <2> QED
    BY <2>1 DEF S
<1>11. <<0>> \o [p \in 1 .. NRows |-> running[p]] = Offsets(w, NRows)
  <2> DEFINE t == [p \in 1 .. NRows |-> running[p]]
             all == {running[p] : p \in 1 .. NRows} \cup {0}
  <2>1. <<0>> \in Seq(all) /\ t \in Seq(all) /\ Len(<<0>>) = 1 /\ Len(t) = NRows
    BY <1>1
  <2>2. /\ <<0>> \o t \in Seq(all) /\ Len(<<0>> \o t) = 1 + NRows
        /\ \A e \in 1 .. 1 + NRows : (<<0>> \o t)[e] = IF e <= 1 THEN <<0>>[e] ELSE t[e - 1]
    <3> DEFINE z == <<0>>
    <3>1. z \in Seq(all) /\ t \in Seq(all) /\ Len(z) = 1
      BY <2>1
    <3> HIDE DEF z, t, all
    <3>2. /\ z \o t \in Seq(all) /\ Len(z \o t) = Len(z) + Len(t)
          /\ \A e \in 1 .. Len(z) + Len(t) : (z \o t)[e] = IF e <= Len(z) THEN z[e] ELSE t[e - Len(z)]
      BY <3>1, ConcatProperties
    <3>3. /\ z \o t \in Seq(all) /\ Len(z \o t) = 1 + NRows
          /\ \A e \in 1 .. 1 + NRows : (z \o t)[e] = IF e <= 1 THEN z[e] ELSE t[e - 1]
      BY <2>1, <3>1, <3>2
    <3> QED
      BY <3>3 DEF z
  <2>3. \A e \in 1 .. NRows + 1 : (<<0>> \o t)[e] = Len(Rows(w, e - 1))
    <3> SUFFICES ASSUME NEW e \in 1 .. NRows + 1 PROVE (<<0>> \o t)[e] = Len(Rows(w, e - 1))
      OBVIOUS
    <3>1. CASE e = 1
      BY <1>1, <1>3, <2>2, <3>1
    <3>2. CASE e # 1
      <4>1. e - 1 \in 1 .. NRows /\ e - 1 \in 0 .. NRows /\ e \in 1 .. 1 + NRows /\ ~ (e <= 1)
        BY <1>1, <3>2
      <4>2. t[e - 1] = running[e - 1]
        BY <4>1
      <4> QED
        BY <1>10, <2>2, <4>1, <4>2
    <3> QED
      BY <3>1, <3>2
  <2>4. 1 .. 1 + NRows = 1 .. NRows + 1
    BY <1>1
  <2> HIDE DEF t, all
  <2>5. <<0>> \o t = [e \in 1 .. NRows + 1 |-> (<<0>> \o t)[e]]
    BY <2>2, <2>4, LenProperties
  <2>6. [e \in 1 .. NRows + 1 |-> (<<0>> \o t)[e]] = [e \in 1 .. NRows + 1 |-> Len(Rows(w, e - 1))]
    BY <2>3
  <2> QED
    BY <2>5, <2>6 DEF Offsets, t
<1> QED
  BY <1>2, <1>7, <1>11 DEF nset

\* Blocks whose first rows increase are sorted.
LEMMA SortedIsUnique ==
  ASSUME NEW m \in Nat, NEW f, DOMAIN f = 1 .. m, f = [p \in 1 .. m |-> f[p]],
         \A p \in 1 .. m : f[p].row_lo \in Nat,
         \A p, q \in 1 .. m : p < q => f[p].row_lo < f[q].row_lo
  PROVE  InRowOrder({f[p] : p \in 1 .. m}) = f
<1> DEFINE T == {f[p] : p \in 1 .. m}
           Sorted(g) == \A p, q \in DOMAIN g : p < q => g[p].row_lo <= g[q].row_lo
           h == InRowOrder(T)
<1>1. \A p, q \in 1 .. m : f[p] = f[q] => p = q
  <2> SUFFICES ASSUME NEW p \in 1 .. m, NEW q \in 1 .. m, f[p] = f[q], p # q PROVE FALSE
    OBVIOUS
  <2>1. p < q \/ q < p
    OBVIOUS
  <2> QED
    BY <2>1
<1>2. f \in [1 .. m -> T]
  OBVIOUS
<1> HIDE DEF T
<1>3. \A t \in T : \E p \in 1 .. m : f[p] = t
  BY DEF T
<1>4. f \in Bijection(1 .. m, T)
  BY <1>1, <1>2, <1>3 DEF Bijection, Injection, Surjection, IsInjective
<1>5. IsFiniteSet(1 .. m) /\ Cardinality(1 .. m) = m
  BY FS_Interval
<1>6. IsFiniteSet(T) /\ Cardinality(T) = m
  BY <1>4, <1>5, FS_Bijection DEF ExistsBijection
<1>7. f \in SetToSeqs(T) /\ Sorted(f)
  BY <1>1, <1>2, <1>6 DEF SetToSeqs
<1>8. h \in SetToSeqs(T) /\ Sorted(h)
  BY <1>7 DEF InRowOrder
<1> HIDE DEF h
<1>9. h \in [1 .. m -> T] /\ \A p, q \in 1 .. m : h[p] = h[q] => p = q
  BY <1>6, <1>8 DEF SetToSeqs
<1>10. h \in Injection(1 .. m, T)
  BY <1>9 DEF Injection, IsInjective
<1>11. h \in Surjection(1 .. m, T)
  BY <1>5, <1>6, <1>10, FS_Injection
<1>12. \A t \in T : \E p \in 1 .. m : h[p] = t
  BY <1>11 DEF Surjection
<1> DEFINE S == {n \in Nat : \A p \in 1 .. m : p <= n => h[p] = f[p]}
<1>13. 0 \in S
  OBVIOUS
<1>14. ASSUME NEW n \in Nat, n \in S
       PROVE  n + 1 \in S
  <2> SUFFICES ASSUME n + 1 \in 1 .. m PROVE h[n + 1] = f[n + 1]
    BY <1>14
  <2> DEFINE i == n + 1
  <2>1. i \in 1 .. m /\ \A p \in 1 .. m : p < i => h[p] = f[p]
    BY <1>14
  <2> HIDE DEF i
  <2>2. PICK j \in 1 .. m : h[j] = f[i]
    BY <1>2, <1>12, <2>1
  <2>3. PICK k \in 1 .. m : f[k] = h[i]
    BY <1>3, <1>9, <2>1
  <2>4. j >= i
    BY <1>1, <2>1, <2>2
  <2>5. k >= i
    BY <1>9, <2>1, <2>3
  <2>6. ~ (k > i)
    <3> SUFFICES ASSUME k > i PROVE FALSE
      OBVIOUS
    <3>1. h[i].row_lo <= h[j].row_lo
      <4>1. CASE i = j
        BY <2>1, <2>2, <4>1
      <4>2. CASE i < j
        BY <1>8, <1>9, <2>1, <4>2
      <4> QED
        BY <2>1, <2>4, <4>1, <4>2
    <3>2. f[i].row_lo < f[k].row_lo
      BY <2>1
    <3>3. f[i].row_lo \in Nat /\ f[k].row_lo \in Nat
      BY <2>1
    <3> QED
      BY <2>2, <2>3, <3>1, <3>2, <3>3
  <2>7. h[i] = f[i]
    <3>1. k \in Int /\ i \in Int
      BY <2>1
    <3> QED
      BY <2>3, <2>5, <2>6, <3>1
  <2> QED
    BY <2>7 DEF i
<1> HIDE DEF S
<1>15. m \in S
  BY <1>13, <1>14, Induction
<1>16. \A p \in 1 .. m : h[p] = f[p]
  BY <1>15 DEF S
<1> QED
  BY <1>9, <1>16 DEF h, T

\* build_csr_from_blocks puts the slices' rows where the sequential loop would
\* have put them, in whatever order the slices were done.
LEMMA BlocksConcatenate ==
  ASSUME NEW n \in Nat, NEW w \in Works, NoPanic(w, NRows),
         NEW bs, DOMAIN bs = Slices(n),
         \A k \in Slices(n) : bs[k] = RowBlock(w, Lo(n, k), Hi(n, k)),
         NEW sorted, sorted = InRowOrder({bs[k] : k \in DOMAIN bs})
  PROVE  /\ FlattenSeq([p \in DOMAIN sorted |-> sorted[p].indices]) = Rows(w, NRows)
         /\ PrefixSums(FlattenSeq([p \in DOMAIN sorted |-> sorted[p].row_nset]))
            = Offsets(w, NRows)
<1> DEFINE m == CeilDiv(NRows, BlockSize(n))
           f == [p \in 1 .. m |-> bs[p - 1]]
<1>1. /\ BlockSize(n) \in Nat \ {0} /\ NRows \in Nat \ {0}
      /\ m \in Nat /\ Slices(n) = 0 .. m - 1
  <2>1. BlockSize(n) \in Nat \ {0} /\ NRows \in Nat \ {0}
    BY BlockSizeType, DriverAssumption
  <2>2. m \in Nat
    BY <2>1, Quotient DEF CeilDiv
  <2> QED
    BY <2>1, <2>2 DEF Slices
<1> HIDE DEF m
<1>2. \A p \in 1 .. m : p - 1 \in Slices(n) /\ f[p] = RowBlock(w, Lo(n, p - 1), Hi(n, p - 1))
  BY <1>1
<1>3. \A k \in Slices(n) : /\ Lo(n, k) \in Nat /\ Hi(n, k) \in Nat
                           /\ Lo(n, k) < Hi(n, k) /\ Hi(n, k) <= NRows
  <2> SUFFICES ASSUME NEW k \in Slices(n)
               PROVE  /\ Lo(n, k) \in Nat /\ Hi(n, k) \in Nat
                      /\ Lo(n, k) < Hi(n, k) /\ Hi(n, k) <= NRows
    OBVIOUS
  <2>1. k \in Nat
    BY <1>1
  <2>2. k * BlockSize(n) \in Nat
    BY <1>1, <2>1
  <2>3. Lo(n, k) \in Nat /\ Hi(n, k) \in Nat
    BY <1>1, <2>2 DEF Lo, Hi
  <2> QED
    BY <2>3, SlicesPartition
<1>4. \A p \in 1 .. m : /\ f[p].row_lo = Lo(n, p - 1)
                        /\ f[p].row_nset = [q \in 1 .. Hi(n, p - 1) - Lo(n, p - 1) |-> w[Lo(n, p - 1) + q - 1]]
                        /\ f[p].indices = Part(w, Lo(n, p - 1), Hi(n, p - 1))
  <2> SUFFICES ASSUME NEW p \in 1 .. m
               PROVE  LET lo == Lo(n, p - 1) hi == Hi(n, p - 1) b == RowBlock(w, lo, hi) IN
                      /\ b.row_lo = lo
                      /\ b.row_nset = [q \in 1 .. hi - lo |-> w[lo + q - 1]]
                      /\ b.indices = Part(w, lo, hi)
    BY <1>2
  <2> QED
    BY DEF RowBlock, Part
<1>5. {bs[k] : k \in DOMAIN bs} = {f[p] : p \in 1 .. m}
  <2>1. \A k \in Slices(n) : k + 1 \in 1 .. m /\ f[k + 1] = bs[k]
    BY <1>1
  <2>2. \A p \in 1 .. m : p - 1 \in Slices(n) /\ f[p] = bs[p - 1]
    BY <1>1
  <2> HIDE DEF f
  <2> QED
    BY <2>1, <2>2
<1>6. sorted = f
  <2>1. \A p \in 1 .. m : f[p].row_lo \in Nat
    BY <1>2, <1>3, <1>4
  <2>2. \A p, q \in 1 .. m : p < q => f[p].row_lo < f[q].row_lo
    <3> SUFFICES ASSUME NEW p \in 1 .. m, NEW q \in 1 .. m, p < q PROVE f[p].row_lo < f[q].row_lo
      OBVIOUS
    <3>1. p - 1 \in Slices(n) /\ q - 1 \in Slices(n) /\ p - 1 < q - 1
      BY <1>2
    <3>2. Hi(n, p - 1) <= Lo(n, q - 1)
      BY <3>1, SlicesPartition
    <3>3. f[p].row_lo = Lo(n, p - 1) /\ f[q].row_lo = Lo(n, q - 1)
      BY <1>4
    <3>4. /\ Lo(n, p - 1) \in Nat /\ Hi(n, p - 1) \in Nat /\ Lo(n, p - 1) < Hi(n, p - 1)
          /\ Lo(n, q - 1) \in Nat
      BY <1>3, <3>1
    <3> HIDE DEF f
    <3> QED
      BY <3>2, <3>3, <3>4
  <2>3. DOMAIN f = 1 .. m /\ f = [p \in 1 .. m |-> f[p]]
    OBVIOUS
  <2> HIDE DEF f
  <2> QED
    BY <1>1, <1>5, <2>1, <2>2, <2>3, SortedIsUnique
<1>7. DOMAIN sorted = 1 .. m
  BY <1>6
<1>8. \A p \in 1 .. m : p - 1 \in Slices(n) /\ Lo(n, p - 1) = IF p = 1 THEN 0 ELSE Hi(n, p - 2)
  <2> SUFFICES ASSUME NEW p \in 1 .. m
               PROVE  p - 1 \in Slices(n) /\ Lo(n, p - 1) = IF p = 1 THEN 0 ELSE Hi(n, p - 2)
    OBVIOUS
  <2>1. p - 1 \in Slices(n) /\ p \in Nat
    BY <1>2
  <2>2. CASE p = 1
    BY <1>1, <2>1, <2>2 DEF Lo
  <2>3. CASE p # 1
    <3>1. p - 2 \in Slices(n) /\ p - 2 < p - 1
      BY <1>1, <2>1, <2>3
    <3>2. Hi(n, p - 2) <= Lo(n, p - 1)
      BY <2>1, <3>1, SlicesPartition
    <3>3. (p - 1) * BlockSize(n) = (p - 2) * BlockSize(n) + BlockSize(n)
      BY <1>1, <2>1
    <3>4. (p - 2) * BlockSize(n) \in Int
      BY <1>1, <2>1
    <3>5. Hi(n, p - 2) = NRows => FALSE
      BY <1>1, <1>3, <2>1, <3>1, <3>2
    <3> QED
      BY <1>1, <2>3, <3>3, <3>4, <3>5 DEF Lo, Hi
  <2> QED
    BY <2>2, <2>3, <2>1
<1>9. m > 0 /\ Hi(n, m - 1) = NRows
  <2>1. NRows - 1 \in 0 .. NRows - 1
    BY <1>1
  <2>2. PICK k \in Slices(n) : Lo(n, k) <= NRows - 1 /\ NRows - 1 < Hi(n, k)
    BY <2>1, SlicesPartition
  <2>3. Hi(n, k) = NRows
    BY <1>1, <1>3, <2>2
  <2>4. m > 0 /\ k \in 0 .. m - 1 /\ m - 1 \in Slices(n)
    BY <1>1, <2>2
  <2>5. CASE k = m - 1
    BY <2>3, <2>4, <2>5
  <2>6. CASE k # m - 1
    <3>1. k < m - 1
      BY <1>1, <2>4, <2>6
    <3>2. Hi(n, k) <= Lo(n, m - 1)
      BY <2>4, <3>1, SlicesPartition
    <3> QED
      BY <1>1, <1>3, <2>3, <2>4, <3>2
  <2> QED
    BY <2>5, <2>6
<1>10. FlattenSeq([p \in 1 .. m |-> f[p].indices]) = Rows(w, NRows)
  <2> DEFINE g == [p \in 1 .. m |-> f[p].indices]
             Prefix(i) == FlattenSeq([p \in 1 .. i |-> g[p]])
             S == {i \in Nat : i \in 1 .. m => Prefix(i) = Rows(w, Hi(n, i - 1))}
  <2>1. \A p \in 1 .. m : /\ g[p] = Part(w, Lo(n, p - 1), Hi(n, p - 1))
                          /\ g[p] \in Seq(RowNames)
                          /\ Rows(w, Lo(n, p - 1)) \o g[p] = Rows(w, Hi(n, p - 1))
    <3> SUFFICES ASSUME NEW p \in 1 .. m
                 PROVE  LET lo == Lo(n, p - 1) hi == Hi(n, p - 1) IN
                        /\ Part(w, lo, hi) \in Seq(RowNames)
                        /\ Rows(w, lo) \o Part(w, lo, hi) = Rows(w, hi)
      BY <1>4
    <3> DEFINE lo == Lo(n, p - 1)
               hi == Hi(n, p - 1)
    <3>1. hi \in 0 .. NRows /\ lo \in 0 .. hi /\ hi \in Nat
      BY <1>1, <1>2, <1>3
    <3> HIDE DEF lo, hi
    <3>2. \A r \in 0 .. hi - 1 : w[r] # Panics
      BY <1>1, <3>1 DEF NoPanic
    <3>3. /\ Part(w, lo, hi) \in Seq(RowNames)
          /\ Rows(w, lo) \o Part(w, lo, hi) = Rows(w, hi)
      BY <3>1, <3>2, PartExtends
    <3> QED
      BY <3>3 DEF lo, hi
  <2>2. g \in [1 .. m -> Seq(RowNames)]
    <3>1. g = [p \in 1 .. m |-> g[p]]
      OBVIOUS
    <3> HIDE DEF g
    <3> QED
      BY <2>1, <3>1
  <2>3. Prefix(m) = FlattenSeq([p \in 1 .. m |-> f[p].indices])
    <3>1. [p \in 1 .. m |-> g[p]] = [p \in 1 .. m |-> f[p].indices]
      BY Zenon
    <3> QED
      BY <3>1
  <2> HIDE DEF g
  <2>4. /\ Prefix(0) = <<>>
        /\ \A i \in 0 .. m : Prefix(i) \in Seq(RowNames)
        /\ \A i \in 1 .. m : Prefix(i) = Prefix(i - 1) \o g[i]
    <3>1. m \in Nat
      BY <1>1
    <3> QED
      BY <2>2, <3>1, FlattenPrefix
  <2> HIDE DEF Prefix
  <2>5. 0 \in S
    BY <1>1
  <2>6. ASSUME NEW i \in Nat, i \in S
        PROVE  i + 1 \in S
    <3> SUFFICES ASSUME i + 1 \in 1 .. m PROVE Prefix(i + 1) = Rows(w, Hi(n, (i + 1) - 1))
      OBVIOUS
    <3>0. (i + 1) - 1 = i
      OBVIOUS
    <3>1. (i + 1) - 1 = i /\ Prefix(i + 1) = Prefix(i) \o g[i + 1]
      BY <2>4, <3>0
    <3>2. Rows(w, Lo(n, i)) \o g[i + 1] = Rows(w, Hi(n, i))
      BY <2>1, <3>1
    <3>3. CASE i = 0
      <4>1. Lo(n, 0) = 0
        BY <1>8, <3>1, <3>3
      <4>2. Rows(w, 0) = <<>>
        BY <1>1, RowsFacts
      <4> QED
        BY <2>4, <3>1, <3>2, <3>3, <4>1, <4>2
    <3>4. CASE i # 0
      <4>1. i \in 1 .. m /\ (i + 1) - 2 = i - 1 /\ i + 1 # 1
        BY <1>1, <3>4
      <4>2. Lo(n, i) = Hi(n, i - 1)
        BY <1>8, <3>1, <4>1
      <4>3. Prefix(i) = Rows(w, Hi(n, i - 1))
        BY <2>6, <4>1
      <4> QED
        BY <3>1, <3>2, <4>2, <4>3
    <3> QED
      BY <3>3, <3>4
  <2> HIDE DEF S
  <2>7. m \in S
    BY <1>1, <2>5, <2>6, Induction
  <2>8. m \in 1 .. m
    BY <1>1, <1>9
  <2>9. Prefix(m) = Rows(w, Hi(n, m - 1))
    BY <2>7, <2>8 DEF S
  <2> QED
    BY <1>9, <2>3, <2>9
<1>11. FlattenSeq([p \in 1 .. m |-> f[p].row_nset]) = [r \in 1 .. NRows |-> w[r - 1]]
  <2> DEFINE g == [p \in 1 .. m |-> f[p].row_nset]
             Prefix(i) == FlattenSeq([p \in 1 .. i |-> g[p]])
             Nsets(k) == [r \in 1 .. k |-> w[r - 1]]
             S == {i \in Nat : i \in 1 .. m => Prefix(i) = Nsets(Hi(n, i - 1))}
  <2>1. \A r \in 0 .. NRows - 1 : w[r] \in Nat
    BY EntriesFacts DEF NoPanic, RowNames
  <2>2. \A p \in 1 .. m : g[p] = [q \in 1 .. Hi(n, p - 1) - Lo(n, p - 1) |-> w[Lo(n, p - 1) + q - 1]]
    BY <1>4
  <2>3. Prefix(m) = FlattenSeq([p \in 1 .. m |-> f[p].row_nset])
    <3>1. [p \in 1 .. m |-> g[p]] = [p \in 1 .. m |-> f[p].row_nset]
      BY Zenon
    <3> QED
      BY <3>1
  <2>4. g = [p \in 1 .. m |-> g[p]]
    OBVIOUS
  <2> HIDE DEF g
  <2>5. \A p \in 1 .. m : /\ g[p] \in Seq(Nat) /\ Len(g[p]) = Hi(n, p - 1) - Lo(n, p - 1)
    <3> SUFFICES ASSUME NEW p \in 1 .. m
                 PROVE  g[p] \in Seq(Nat) /\ Len(g[p]) = Hi(n, p - 1) - Lo(n, p - 1)
      OBVIOUS
    <3> DEFINE lo == Lo(n, p - 1)
               hi == Hi(n, p - 1)
    <3>1. lo \in Nat /\ hi \in Nat /\ lo < hi /\ hi <= NRows
      BY <1>2, <1>3
    <3> HIDE DEF lo, hi
    <3>2. \A q \in 1 .. hi - lo : w[lo + q - 1] \in Nat
      BY <1>1, <2>1, <3>1
    <3>3. [q \in 1 .. hi - lo |-> w[lo + q - 1]] \in Seq(Nat)
          /\ Len([q \in 1 .. hi - lo |-> w[lo + q - 1]]) = hi - lo
      <4>1. hi - lo \in Nat
        BY <3>1
      <4>2. [q \in 1 .. hi - lo |-> w[lo + q - 1]] \in [1 .. hi - lo -> Nat]
        BY <3>2
      <4> QED
        BY <4>1, <4>2, LenProperties
    <3> QED
      BY <2>2, <3>3 DEF lo, hi
  <2>6. /\ Prefix(0) = <<>>
        /\ \A i \in 1 .. m : Prefix(i) = Prefix(i - 1) \o g[i]
    <3>1. g \in [1 .. m -> Seq(Nat)]
      BY <2>4, <2>5
    <3>2. m \in Nat
      BY <1>1
    <3> QED
      BY <3>1, <3>2, FlattenPrefix
  <2> HIDE DEF Prefix
  <2>7. \A p \in 1 .. m : Nsets(Lo(n, p - 1)) \o g[p] = Nsets(Hi(n, p - 1))
    <3> SUFFICES ASSUME NEW p \in 1 .. m
                 PROVE  Nsets(Lo(n, p - 1)) \o g[p] = Nsets(Hi(n, p - 1))
      OBVIOUS
    <3> DEFINE lo == Lo(n, p - 1)
               hi == Hi(n, p - 1)
    <3>1. lo \in Nat /\ hi \in Nat /\ lo < hi /\ hi <= NRows
      BY <1>2, <1>3
    <3>2. /\ g[p] = [q \in 1 .. hi - lo |-> w[lo + q - 1]]
          /\ g[p] \in Seq(Nat) /\ Len(g[p]) = hi - lo
      BY <2>2, <2>5
    <3> HIDE DEF lo, hi
    <3>3. Nsets(lo) \in Seq(Nat) /\ Len(Nsets(lo)) = lo
      BY <1>1, <2>1, <3>1
    <3> DEFINE s == Nsets(lo)
               t == g[p]
    <3>4. /\ s \in Seq(Nat) /\ t \in Seq(Nat) /\ Len(s) = lo /\ Len(t) = hi - lo
          /\ \A r \in 1 .. lo : s[r] = w[r - 1]
          /\ \A q \in 1 .. hi - lo : t[q] = w[lo + q - 1]
      BY <3>2, <3>3
    <3> HIDE DEF s, t
    <3>5. /\ s \o t \in Seq(Nat) /\ Len(s \o t) = Len(s) + Len(t)
          /\ \A i \in 1 .. Len(s) + Len(t) : (s \o t)[i] = IF i <= Len(s) THEN s[i] ELSE t[i - Len(s)]
      BY <3>4, ConcatProperties
    <3>6. \A i \in 1 .. hi : (s \o t)[i] = w[i - 1]
      <4> SUFFICES ASSUME NEW i \in 1 .. hi PROVE (s \o t)[i] = w[i - 1]
        OBVIOUS
      <4>1. i \in 1 .. Len(s) + Len(t)
        BY <3>1, <3>4
      <4>2. CASE i <= lo
        <5>1. i \in 1 .. lo
          BY <3>1, <4>2
        <5> QED
          BY <3>4, <3>5, <4>1, <4>2, <5>1
      <4>3. CASE ~ (i <= lo)
        <5>1. i - lo \in 1 .. hi - lo /\ lo + (i - lo) - 1 = i - 1
          BY <3>1, <4>3
        <5> QED
          BY <3>4, <3>5, <4>1, <4>3, <5>1
      <4> QED
        BY <4>2, <4>3
    <3>7. s \o t = [i \in 1 .. hi |-> (s \o t)[i]]
      <4>1. Len(s \o t) = hi
        BY <3>1, <3>4, <3>5
      <4> QED
        BY <3>5, <4>1, LenProperties
    <3>8. [i \in 1 .. hi |-> (s \o t)[i]] = [i \in 1 .. hi |-> w[i - 1]]
      BY <3>6
    <3> QED
      BY <3>7, <3>8 DEF s, t, lo, hi
  <2>8. Nsets(0) = <<>>
    OBVIOUS
  <2>9. Nsets(NRows) = [r \in 1 .. NRows |-> w[r - 1]]
    BY Zenon
  <2> HIDE DEF Nsets
  <2>10. 0 \in S
    BY <1>1
  <2>11. ASSUME NEW i \in Nat, i \in S
         PROVE  i + 1 \in S
    <3> SUFFICES ASSUME i + 1 \in 1 .. m PROVE Prefix(i + 1) = Nsets(Hi(n, (i + 1) - 1))
      OBVIOUS
    <3>0. (i + 1) - 1 = i
      OBVIOUS
    <3>1. (i + 1) - 1 = i /\ Prefix(i + 1) = Prefix(i) \o g[i + 1]
      BY <2>6, <3>0
    <3>2. Nsets(Lo(n, i)) \o g[i + 1] = Nsets(Hi(n, i))
      BY <2>7, <3>1
    <3>3. CASE i = 0
      <4>1. Lo(n, 0) = 0
        BY <1>8, <3>1, <3>3
      <4> QED
        BY <2>6, <2>8, <3>1, <3>2, <3>3, <4>1
    <3>4. CASE i # 0
      <4>1. i \in 1 .. m /\ (i + 1) - 2 = i - 1 /\ i + 1 # 1
        BY <1>1, <3>4
      <4>2. Lo(n, i) = Hi(n, i - 1)
        BY <1>8, <3>1, <4>1
      <4>3. Prefix(i) = Nsets(Hi(n, i - 1))
        BY <2>11, <4>1
      <4> QED
        BY <3>1, <3>2, <4>2, <4>3
    <3> QED
      BY <3>3, <3>4
  <2> HIDE DEF S
  <2>12. m \in S
    BY <1>1, <2>10, <2>11, Induction
  <2>13. m \in 1 .. m
    BY <1>1, <1>9
  <2>14. Prefix(m) = Nsets(Hi(n, m - 1))
    BY <2>12, <2>13 DEF S
  <2> QED
    BY <1>9, <2>3, <2>9, <2>14
<1> QED
  BY <1>6, <1>7, <1>10, <1>11, SumsAreOffsets

-----------------------------------------------------------------------------
(* pool_for *)

\* Where a call is that asks for a pool, or has one.
Asking == {"lock", "entry", "build", "install", "running"}

Labels == Finished \cup {"rows", "lock", "entry", "build", "install", "running"}

PoolType ==
  /\ lock \in Callers \cup {NoCaller} /\ poisoned \in BOOLEAN /\ failures \in 0 .. MaxFailures
  /\ pools \in [Requests -> Nat] /\ built \in Nat
  /\ pc \in [Callers -> Labels]
  /\ n_threads \in [Callers -> Requests \cup {1}]
  /\ pool \in [Callers -> Nat]

\* Whoever is inside pool_for holds the mutex.
MutexHeld == \A c \in Callers : pc[c] \in {"entry", "build"} => lock = c

\* One caller at a time looks a pool up or builds one.
MutualExclusion ==
  \A c, d \in Callers : pc[c] \in {"entry", "build"} /\ pc[d] \in {"entry", "build"} => c = d

\* A call asks for one of the thread counts; a builder found no pool of its own.
CallsAsk ==
  \A c \in Callers :
    /\ pc[c] \in Asking => n_threads[c] \in Requests /\ n_threads[c] > 1
    /\ pc[c] = "build" => pools[n_threads[c]] = 0

\* Pools are numbered as they are built, and no two thread counts share one.
PoolsDistinct ==
  /\ \A m \in Requests : pools[m] <= built
  /\ \A m, n \in Requests : pools[m] = pools[n] /\ pools[m] # 0 => m = n

\* A call's pool is the cache's: an entry is never replaced.
CallsHold ==
  \A c \in Callers : pool[c] # 0 =>
    n_threads[c] \in Requests /\ pool[c] = pools[n_threads[c]]

\* The mutex is poisoned by a failed build only.
FailurePoisons == poisoned => failures > 0

PoolInv ==
  /\ PoolType
  /\ MutexHeld
  /\ CallsAsk
  /\ PoolsDistinct
  /\ CallsHold
  /\ FailurePoisons

LEMMA InitPool == Init => PoolInv
<1> SUFFICES ASSUME Init PROVE PoolInv
  OBVIOUS
<1>0. failures \in 0 .. MaxFailures
  BY DriverAssumption DEF Init
<1>1. PoolType
  BY <1>0 DEF Init, PoolType, Labels, Finished
<1>2. MutexHeld /\ CallsAsk /\ PoolsDistinct /\ CallsHold /\ FailurePoisons
  BY <1>1 DEF Init, MutexHeld, CallsAsk, PoolsDistinct, CallsHold, FailurePoisons, Asking
<1> QED
  BY <1>1, <1>2 DEF PoolInv


\* Outside pool_for, a caller goes from one label to another; cache and pools stay.
LEMMA Elsewhere ==
  ASSUME PoolInv, NEW c \in Callers, pc[c] \notin {"entry", "build"},
         UNCHANGED <<lock, poisoned, pools, built, failures, n_threads, pool>>,
         \/ pc' = pc
         \/ \E l \in Labels \ {"entry", "build"} :
              (l \in Asking => pc[c] \in Asking) /\ pc' = [pc EXCEPT ![c] = l]
  PROVE  PoolInv'
<1>1. PoolType'
  BY DEF PoolInv, PoolType
<1>2. \A d \in Callers : \/ pc'[d] = pc[d]
                         \/ pc'[d] \notin {"entry", "build"} /\ (pc'[d] \in Asking => pc[d] \in Asking)
  BY DEF PoolInv, PoolType
<1>3. MutexHeld' /\ PoolsDistinct' /\ FailurePoisons'
  BY <1>2 DEF PoolInv, MutexHeld, PoolsDistinct, FailurePoisons
<1>4. CallsAsk' /\ CallsHold'
  BY <1>2 DEF PoolInv, CallsAsk, CallsHold
<1> QED
  BY <1>1, <1>3, <1>4 DEF PoolInv

LEMMA CallPool ==
  ASSUME PoolInv, NEW c \in Callers, NEW n \in Requests \cup {1}, NEW w \in Works, Call(c, n, w)
  PROVE  PoolInv'
<1> USE DEF PoolInv, Call, Goto, process
<1>1. PoolType'
  BY DEF PoolType, Labels, Finished
<1>2. /\ pc[c] \notin {"entry", "build"} /\ pc'[c] \notin {"entry", "build"}
      /\ pc'[c] \in Asking => n \in Requests /\ n > 1
  BY DriverAssumption DEF PoolType, Finished, Asking
<1>3. \A d \in Callers \ {c} : pc'[d] = pc[d] /\ n_threads'[d] = n_threads[d] /\ pool'[d] = pool[d]
  BY DEF PoolType
<1>4. n_threads'[c] = n /\ pool'[c] = 0
  BY DEF PoolType
<1>5. MutexHeld' /\ PoolsDistinct' /\ FailurePoisons'
  BY <1>2, <1>3 DEF MutexHeld, PoolsDistinct, FailurePoisons
<1>6. CallsAsk' /\ CallsHold'
  BY <1>2, <1>3, <1>4 DEF CallsAsk, CallsHold, Asking
<1> QED
  BY <1>1, <1>5, <1>6

LEMMA LockPool ==
  ASSUME PoolInv, NEW c \in Callers, Lock(c)
  PROVE  PoolInv'
<1> USE DEF PoolInv, Lock, Goto
<1>1. PoolType'
  BY DEF PoolType, Labels, Finished
<1>2. \A d \in Callers \ {c} : pc'[d] = pc[d] /\ pc[d] \notin {"entry", "build"}
  BY DriverAssumption DEF PoolType, MutexHeld
<1>3. pc'[c] \in {"entry", "panicked"} /\ (pc'[c] = "entry" => lock' = c)
  BY DEF PoolType
<1>4. MutexHeld' /\ PoolsDistinct' /\ FailurePoisons'
  BY <1>2, <1>3 DEF MutexHeld, PoolsDistinct, FailurePoisons
<1>5. CallsAsk' /\ CallsHold'
  BY <1>2, <1>3 DEF CallsAsk, CallsHold, Asking
<1> QED
  BY <1>1, <1>4, <1>5

LEMMA LookupPool ==
  ASSUME PoolInv, NEW c \in Callers, Lookup(c)
  PROVE  PoolInv'
<1> USE DEF PoolInv, Lookup, Goto
<1>1. n_threads[c] \in Requests /\ lock = c
  BY DEF CallsAsk, MutexHeld, Asking
<1>2. PoolType'
  BY <1>1 DEF PoolType, Labels, Finished
<1>3. \A d \in Callers \ {c} : pc'[d] = pc[d] /\ pc[d] \notin {"entry", "build"} /\ pool'[d] = pool[d]
  BY <1>1 DEF PoolType, MutexHeld
<1>4. \/ pc'[c] = "build" /\ pools[n_threads[c]] = 0 /\ lock' = lock /\ pool' = pool
      \/ pc'[c] = "install" /\ pool'[c] = pools[n_threads[c]]
  BY DEF PoolType
<1>5. MutexHeld' /\ PoolsDistinct' /\ FailurePoisons'
  BY <1>1, <1>3, <1>4 DEF MutexHeld, PoolsDistinct, FailurePoisons
<1>6. CallsAsk' /\ CallsHold'
  BY <1>1, <1>3, <1>4 DEF CallsAsk, CallsHold, Asking
<1> QED
  BY <1>2, <1>5, <1>6

LEMMA BuildPool ==
  ASSUME PoolInv, NEW c \in Callers, Build(c)
  PROVE  PoolInv'
<1> USE DEF PoolInv, Build, Goto
<1>1. n_threads[c] \in Requests /\ lock = c /\ pools[n_threads[c]] = 0
  BY DEF CallsAsk, MutexHeld, Asking
<1>2. PoolType'
  BY <1>1 DEF PoolType, Labels, Finished
<1>3. \A d \in Callers \ {c} : pc'[d] = pc[d] /\ pc[d] \notin {"entry", "build"} /\ pool'[d] = pool[d]
  BY <1>1 DEF PoolType, MutexHeld
<1>4. pc'[c] = "install" /\ pool'[c] = built + 1
  BY DEF PoolType
<1>5. /\ pools'[n_threads[c]] = built + 1
      /\ \A m \in Requests \ {n_threads[c]} : pools'[m] = pools[m]
      /\ built' = built + 1 /\ built \in Nat /\ n_threads' = n_threads
  BY <1>1 DEF PoolType
<1>6. \A m \in Requests : pools[m] <= built /\ pools[m] \in Nat
  BY DEF PoolsDistinct, PoolType
<1>7. PoolsDistinct'
  BY <1>5, <1>6 DEF PoolsDistinct
<1>8. MutexHeld' /\ FailurePoisons'
  BY <1>3, <1>4 DEF MutexHeld, FailurePoisons
<1>9. CallsAsk'
  BY <1>1, <1>3, <1>4, <1>5 DEF CallsAsk, Asking
<1>10. CallsHold'
  BY <1>1, <1>3, <1>4, <1>5 DEF CallsHold
<1> QED
  BY <1>2, <1>7, <1>8, <1>9, <1>10

LEMMA BuildFailsPool ==
  ASSUME PoolInv, NEW c \in Callers, BuildFails(c)
  PROVE  PoolInv'
<1> USE DEF PoolInv, BuildFails, Goto
<1>1. n_threads[c] \in Requests /\ lock = c
  BY DEF CallsAsk, MutexHeld, Asking
<1>0. failures' \in 0 .. MaxFailures /\ failures' > 0
  BY DriverAssumption DEF PoolType
<1>2. PoolType'
  BY <1>0, <1>1 DEF PoolType, Labels, Finished
<1>3. \A d \in Callers \ {c} : pc'[d] = pc[d] /\ pc[d] \notin {"entry", "build"}
  BY <1>1 DEF PoolType, MutexHeld
<1>4. pc'[c] = "panicked"
  BY DEF PoolType
<1>5. MutexHeld' /\ PoolsDistinct' /\ FailurePoisons'
  BY <1>0, <1>3, <1>4 DEF MutexHeld, PoolsDistinct, FailurePoisons
<1>6. CallsAsk' /\ CallsHold'
  BY <1>1, <1>3, <1>4 DEF CallsAsk, CallsHold, Asking
<1> QED
  BY <1>2, <1>5, <1>6

LEMMA StepPool ==
  ASSUME PoolInv, NEW c \in Callers, Step(c)
  PROVE  PoolInv'
<1> USE DEF Goto, process, Labels, Finished, Asking
<1>1. CASE Row(c)
  BY <1>1, Elsewhere DEF Row
<1>2. CASE RowPanics(c)
  BY <1>2, Elsewhere DEF RowPanics
<1>3. CASE LastRow(c)
  BY <1>3, Elsewhere DEF LastRow
<1>4. CASE Lock(c)
  BY <1>4, LockPool
<1>5. CASE Lookup(c)
  BY <1>5, LookupPool
<1>6. CASE Build(c)
  BY <1>6, BuildPool
<1>7. CASE BuildFails(c)
  BY <1>7, BuildFailsPool
<1>8. CASE Install(c)
  BY <1>8, Elsewhere DEF Install
<1>9. CASE Unwind(c)
  BY <1>9, Elsewhere DEF Unwind
<1>10. CASE BuildCsr(c)
  BY <1>10, Elsewhere DEF BuildCsr
<1> QED
  BY <1>1, <1>2, <1>3, <1>4, <1>5, <1>6, <1>7, <1>8, <1>9, <1>10 DEF Step

LEMMA WorkerPool ==
  ASSUME PoolInv, NEW c \in Callers, NEW k \in DOMAIN slices[c], Begin(c, k) \/ End(c, k)
  PROVE  PoolInv'
BY Elsewhere DEF Begin, End, process

-----------------------------------------------------------------------------
(* The calls *)

States == {"todo", "running", "done", "panicked"}

CallerType ==
  /\ work \in [Callers -> Works]
  /\ DOMAIN slices = Callers /\ DOMAIN blocks = Callers
  /\ row \in [Callers -> 0 .. NRows]
  /\ indptr \in [Callers -> Seq(0 .. IndexMax)]
  /\ indices \in [Callers -> Seq(RowNames)]
  /\ calls \in [Callers -> 0 .. MaxCalls]

\* A call's slices partition the rows; those that are done have their blocks.
SlicesOK(c) ==
  /\ DOMAIN blocks[c] \subseteq DOMAIN slices[c]
  /\ pc[c] = "running" => DOMAIN slices[c] = Slices(n_threads[c])
  /\ pc[c] \in {"rows", "lock", "entry", "build", "install"} => slices[c] = <<>>
  /\ \A k \in DOMAIN slices[c] :
       /\ slices[c][k] \in States
       /\ slices[c][k] = "done" <=> k \in DOMAIN blocks[c]

\* Slice k has emitted the rows it owns, or one of them has panicked.
SliceResult(c, k) ==
  LET lo == Lo(n_threads[c], k)
      hi == Hi(n_threads[c], k)
  IN  /\ slices[c][k] = "done" => /\ blocks[c][k] = RowBlock(work[c], lo, hi)
                                  /\ \A r \in lo .. hi - 1 : work[c][r] # Panics
      /\ slices[c][k] = "panicked" => \E r \in RowNames : work[c][r] = Panics

\* The output of the rows before row n.
Holds(c, n) ==
  /\ NoPanic(work[c], n)
  /\ indices[c] = Rows(work[c], n) /\ indptr[c] = Offsets(work[c], n)

OutputOK(c) ==
  /\ Len(indptr[c]) <= NRows + 1
  /\ pc[c] = "rows" => Holds(c, row[c])
  /\ pc[c] = "ok" => Holds(c, NRows)
  /\ pc[c] \in Asking => indices[c] = <<>> /\ indptr[c] = <<0>>

CallOK(c) ==
  /\ SlicesOK(c)
  /\ pc[c] = "running" => \A k \in DOMAIN slices[c] : SliceResult(c, k)
  /\ OutputOK(c)

IInv ==
  /\ PoolInv
  /\ CallerType
  /\ \A c \in Callers : CallOK(c)

\* What CallOK(c) is about.
View(c) ==
  <<pc[c], n_threads[c], work[c], slices[c], blocks[c], row[c], indptr[c], indices[c]>>

\* A step of one caller leaves the others' calls alone.
LEMMA OthersStay ==
  ASSUME \A d \in Callers : CallOK(d), NEW c \in Callers, CallOK(c)',
         \A d \in Callers \ {c} : View(d)' = View(d)
  PROVE  (\A d \in Callers : CallOK(d))'
<1> SUFFICES ASSUME NEW d \in Callers \ {c} PROVE CallOK(d)'
  OBVIOUS
<1>1. /\ pc'[d] = pc[d] /\ n_threads'[d] = n_threads[d] /\ work'[d] = work[d]
      /\ slices'[d] = slices[d] /\ blocks'[d] = blocks[d] /\ row'[d] = row[d]
      /\ indptr'[d] = indptr[d] /\ indices'[d] = indices[d]
  BY DEF View
<1>2. CallOK(d)
  OBVIOUS
<1> QED
  BY <1>1, <1>2 DEF CallOK, SlicesOK, SliceResult, OutputOK, Holds

\* Offsets, of one row more.
LEMMA OffsetsGrow ==
  ASSUME NEW w \in Works, NEW n \in 0 .. NRows, NoPanic(w, n)
  PROVE  /\ Rows(w, 0) = <<>> /\ Offsets(w, 0) = <<0>>
         /\ Rows(w, n) \in Seq(RowNames)
         /\ Offsets(w, n) \in Seq(Nat) /\ Len(Offsets(w, n)) = n + 1
         /\ n > 0 => Offsets(w, n) = Append(Offsets(w, n - 1), Len(Rows(w, n)))
<1>1. n \in Nat /\ n <= NRows /\ NRows \in Nat
  BY DriverAssumption
<1>2. Rows(w, 0) = <<>> /\ \A m \in 0 .. n : Rows(w, m) \in Seq(RowNames)
  BY RowsFacts
<1>3. \A m \in 0 .. n : Len(Rows(w, m)) \in Nat
  BY <1>2, LenProperties
<1>4. ASSUME NEW m \in 0 .. n
      PROVE  /\ Offsets(w, m) \in [1 .. m + 1 -> Nat]
             /\ Offsets(w, m) \in Seq(Nat) /\ Len(Offsets(w, m)) = m + 1
  <2>1. m + 1 \in Nat /\ \A p \in 1 .. m + 1 : p - 1 \in 0 .. n
    BY <1>1
  <2>2. Offsets(w, m) \in [1 .. m + 1 -> Nat]
    BY <1>3, <2>1 DEF Offsets
  <2> QED
    BY <2>1, <2>2, LenProperties
<1>5. Offsets(w, 0) = <<0>>
  <2>1. Len(Rows(w, 0)) = 0
    BY <1>2
  <2>2. Offsets(w, 0)[1] = 0 /\ Len(Offsets(w, 0)) = 1 /\ Offsets(w, 0) \in Seq(Nat)
    BY <1>1, <1>4, <2>1 DEF Offsets
  <2> QED
    BY <2>2
<1>6. ASSUME n > 0
      PROVE  Offsets(w, n) = Append(Offsets(w, n - 1), Len(Rows(w, n)))
  <2> DEFINE s == Offsets(w, n - 1)
             t == Offsets(w, n)
             x == Len(Rows(w, n))
  <2>1. /\ s \in [1 .. n -> Nat] /\ s \in Seq(Nat) /\ Len(s) = n
        /\ t \in [1 .. n + 1 -> Nat] /\ t \in Seq(Nat) /\ Len(t) = n + 1
    <3>1. n \in 0 .. n /\ n - 1 \in 0 .. n /\ (n - 1) + 1 = n
      BY <1>1, <1>6
    <3> QED
      BY <1>4, <3>1
  <2>2. \A p \in 1 .. n : s[p] = t[p]
    BY <1>1 DEF Offsets
  <2>3. t[n + 1] = x
    BY <1>1 DEF Offsets
  <2> HIDE DEF s, t, x
  <2>4. Append(s, x) = t
    BY <1>1, <2>1, <2>2, <2>3
  <2> QED
    BY <2>4 DEF s, t, x
<1> QED
  BY <1>1, <1>2, <1>4, <1>5, <1>6

LEMMA InitInv == Init => IInv
<1> SUFFICES ASSUME Init PROVE IInv
  OBVIOUS
<1>1. PoolInv
  BY InitPool
<1>2. CallerType
  BY DriverAssumption DEF Init, CallerType
<1>3. ASSUME NEW c \in Callers
      PROVE  CallOK(c)
  <2>1. /\ pc[c] = "idle" /\ slices[c] = <<>> /\ blocks[c] = <<>> /\ indptr[c] = <<0>>
    BY DEF Init
  <2>2. SlicesOK(c)
    BY <2>1 DEF SlicesOK
  <2>3. Len(indptr[c]) <= NRows + 1
    BY <2>1, DriverAssumption
  <2>4. OutputOK(c)
    BY <2>1, <2>3 DEF OutputOK, Asking
  <2> QED
    BY <2>1, <2>2, <2>4 DEF CallOK
<1> QED
  BY <1>1, <1>2, <1>3 DEF IInv

\* The part of the invariant that is about the calls.
CallersInv == CallerType /\ \A c \in Callers : CallOK(c)

LEMMA CallCallers ==
  ASSUME IInv, NEW c \in Callers, NEW n \in Requests \cup {1}, NEW w \in Works, Call(c, n, w)
  PROVE  CallersInv'
<1>0. PoolType /\ CallerType /\ \A d \in Callers : CallOK(d)
  BY DEF IInv, PoolInv
<1>1. 0 \in 0 .. NRows /\ 0 \in 0 .. IndexMax /\ NRows \in Nat
  BY DriverAssumption
<1>2. /\ pc'[c] \in {"lock", "rows"} /\ n_threads'[c] = n /\ work'[c] = w
      /\ slices'[c] = <<>> /\ blocks'[c] = <<>> /\ row'[c] = 0
      /\ indptr'[c] = <<0>> /\ indices'[c] = <<>>
  BY <1>0 DEF Call, Goto, PoolType, CallerType
<1>3. \A d \in Callers \ {c} : View(d)' = View(d)
  BY <1>0 DEF Call, Goto, PoolType, CallerType, View
<1>4. CallerType'
  <2>1. calls' \in [Callers -> 0 .. MaxCalls]
    BY <1>0, DriverAssumption DEF Call, CallerType
  <2> QED
    BY <1>0, <1>1, <2>1 DEF Call, CallerType
<1>5. CallOK(c)'
  <2>1. NoPanic(w, 0) /\ 0 \in 0 .. NRows
    BY <1>1 DEF NoPanic
  <2>2. Rows(w, 0) = <<>> /\ Offsets(w, 0) = <<0>>
    BY <2>1, OffsetsGrow
  <2>3. Holds(c, 0)'
    BY <1>2, <2>1, <2>2 DEF Holds
  <2>4. Len(indptr'[c]) <= NRows + 1
    BY <1>1, <1>2
  <2>5. OutputOK(c)'
    BY <1>2, <2>3, <2>4 DEF OutputOK, Holds
  <2>6. SlicesOK(c)'
    BY <1>2 DEF SlicesOK
  <2> QED
    BY <1>2, <2>5, <2>6 DEF CallOK
<1> QED
  BY <1>0, <1>3, <1>4, <1>5, OthersStay DEF CallersInv

\* A step that only moves c on, inside pool_for or to its end.
LEMMA Moves ==
  ASSUME IInv, NEW c \in Callers, NEW l \in Labels, pc' = [pc EXCEPT ![c] = l],
         UNCHANGED <<n_threads, work, slices, blocks, row, indptr, indices, calls>>,
         \/ l = "panicked"
         \/ pc[c] \in {"lock", "entry", "build"} /\ l \in {"entry", "build", "install"}
         \/ l = "ok" /\ Holds(c, NRows)
  PROVE  CallersInv'
<1>0. PoolType /\ CallerType /\ CallOK(c) /\ \A d \in Callers : CallOK(d)
  BY DEF IInv, PoolInv
<1>1. CallerType'
  BY <1>0 DEF CallerType
<1>2. \A d \in Callers \ {c} : View(d)' = View(d)
  BY <1>0 DEF View, PoolType
<1>3. pc'[c] = l
  BY <1>0 DEF PoolType
<1>4. SlicesOK(c)'
  BY <1>0, <1>3 DEF CallOK, SlicesOK
<1>5. OutputOK(c)'
  BY <1>0, <1>3 DEF CallOK, OutputOK, Holds, Asking
<1>6. CallOK(c)'
  BY <1>3, <1>4, <1>5 DEF CallOK
<1> QED
  BY <1>0, <1>1, <1>2, <1>6, OthersStay DEF CallersInv

\* What the sequential loop does to the output.
LEMMA RowGrows ==
  ASSUME IInv, NEW c \in Callers, Row(c)
  PROVE  LET n == row[c] + 1 IN
         /\ n \in 1 .. NRows /\ row'[c] = n
         /\ NoPanic(work[c], n) /\ work'[c] = work[c]
         /\ indices'[c] = Rows(work[c], n) /\ Len(indices'[c]) \in Nat
         /\ \/ /\ Len(indices'[c]) <= IndexMax
               /\ indptr'[c] = Offsets(work[c], n) /\ pc'[c] = "rows"
            \/ /\ Len(indices'[c]) > IndexMax
               /\ indptr' = indptr /\ pc'[c] = "panicked"
<1> DEFINE w == work[c]
           n == row[c] + 1
<1>0. /\ PoolType /\ CallerType /\ CallOK(c)
      /\ pc[c] = "rows"
  BY DEF IInv, PoolInv, Row
<1>1. /\ NRows \in Nat /\ IndexMax \in Nat /\ row[c] \in Nat /\ row[c] < NRows
      /\ n \in 1 .. NRows /\ n - 1 = row[c] /\ w \in Works
  BY <1>0, DriverAssumption DEF Row, CallerType
<1>2. NoPanic(w, row[c]) /\ indices[c] = Rows(w, row[c]) /\ indptr[c] = Offsets(w, row[c])
  BY <1>0 DEF CallOK, OutputOK, Holds
<1>3. NoPanic(w, n)
  BY <1>1, <1>2 DEF NoPanic, Row
<1> DEFINE x == Len(indices[c]) + w[row[c]]
<1>4. /\ row'[c] = n /\ work'[c] = w
      /\ indices'[c] = indices[c] \o Entries(w, row[c])
      /\ \/ Narrows(x) /\ indptr'[c] = Append(indptr[c], x) /\ pc'[c] = "rows"
         \/ ~ Narrows(x) /\ indptr' = indptr /\ pc'[c] = "panicked"
  BY <1>0 DEF Row, Goto, PoolType, CallerType
<1> HIDE DEF n, w, x
<1>5. n \in 0 .. NRows /\ n \in 1 .. n /\ n > 0
  BY <1>1
<1>6. /\ Rows(w, n) = Rows(w, n - 1) \o Entries(w, n - 1)
      /\ Rows(w, n) \in Seq(RowNames)
  BY <1>1, <1>3, <1>5, RowsFacts
<1>7. /\ Len(Rows(w, n)) = Len(Rows(w, n - 1)) + w[n - 1] /\ w[n - 1] \in Nat
      /\ Len(Rows(w, n - 1)) \in Nat
  BY <1>1, <1>3, <1>5, RowsGrow
<1>8. x = Len(Rows(w, n)) /\ x \in Nat
  BY <1>1, <1>2, <1>7 DEF x
<1>9. Offsets(w, n) = Append(Offsets(w, n - 1), Len(Rows(w, n)))
  BY <1>1, <1>3, <1>5, OffsetsGrow
<1>10. indices'[c] = Rows(w, n)
  BY <1>1, <1>2, <1>4, <1>6
<1>11. Narrows(x) <=> x <= IndexMax
  BY DEF Narrows
<1>12. Append(indptr[c], x) = Offsets(w, n)
  BY <1>1, <1>2, <1>8, <1>9
<1>13. ~ (x <= IndexMax) <=> x > IndexMax
  BY <1>1, <1>8
<1>14. work'[c] = work[c]
  BY <1>4 DEF w
<1> QED
  BY <1>1, <1>3, <1>4, <1>8, <1>10, <1>11, <1>12, <1>13, <1>14 DEF w, n

LEMMA RowCallers ==
  ASSUME IInv, NEW c \in Callers, Row(c)
  PROVE  CallersInv'
<1> DEFINE w == work[c]
           n == row[c] + 1
<1>0. /\ PoolType /\ CallerType /\ CallOK(c) /\ pc[c] = "rows"
      /\ \A d \in Callers : CallOK(d)
  BY DEF IInv, PoolInv, Row
<1>1. /\ n \in 1 .. NRows /\ row'[c] = n
      /\ NoPanic(w, n) /\ work'[c] = w
      /\ indices'[c] = Rows(w, n) /\ Len(indices'[c]) \in Nat
      /\ \/ Len(indices'[c]) <= IndexMax /\ indptr'[c] = Offsets(w, n) /\ pc'[c] = "rows"
         \/ Len(indices'[c]) > IndexMax /\ indptr' = indptr /\ pc'[c] = "panicked"
  BY RowGrows
<1>2. \A d \in Callers \ {c} : View(d)' = View(d)
  BY <1>0 DEF Row, Goto, PoolType, CallerType, View
<1>3. /\ n_threads' = n_threads /\ work' = work /\ slices' = slices /\ blocks' = blocks
      /\ calls' = calls /\ w \in Works /\ indptr[c] \in Seq(0 .. IndexMax)
      /\ row' = [row EXCEPT ![c] = n]
      /\ \E s : indices' = [indices EXCEPT ![c] = s]
      /\ indptr' = indptr \/ \E s : indptr' = [indptr EXCEPT ![c] = s]
  BY <1>0 DEF Row, CallerType
<1> HIDE DEF w, n
<1>4. n \in 0 .. NRows /\ n \in Nat /\ NRows \in Nat /\ IndexMax \in Nat /\ n > 0
  BY <1>1, DriverAssumption
<1>5. Rows(w, n) \in Seq(RowNames) /\ Len(Offsets(w, n)) = n + 1
  BY <1>1, <1>3, <1>4, OffsetsGrow
<1>6. indptr'[c] \in Seq(0 .. IndexMax)
  <2>1. CASE indptr' = indptr
    BY <1>3, <2>1
  <2>2. CASE indptr' # indptr
    <3>1. Len(indices'[c]) \in 0 .. IndexMax /\ Len(indices'[c]) = Len(Rows(w, n))
      BY <1>1, <1>4, <2>2
    <3>2. Offsets(w, n) = Append(Offsets(w, n - 1), Len(Rows(w, n)))
      BY <1>1, <1>3, <1>4, OffsetsGrow
    <3>3. Offsets(w, n - 1) = indptr[c]
      <4>1. n - 1 = row[c]
        BY <1>0 DEF n, CallerType
      <4> QED
        BY <1>0, <4>1 DEF CallOK, OutputOK, Holds, w
    <3>4. indptr'[c] = Append(indptr[c], Len(indices'[c]))
      BY <1>1, <2>2, <3>1, <3>2, <3>3
    <3> QED
      BY <1>3, <3>1, <3>4
  <2> QED
    BY <2>1, <2>2
<1>7. CallerType'
  <2>1. indices' \in [Callers -> Seq(RowNames)]
    BY <1>0, <1>1, <1>3, <1>5 DEF CallerType
  <2>2. indptr' \in [Callers -> Seq(0 .. IndexMax)]
    BY <1>0, <1>3, <1>6 DEF CallerType
  <2>3. row' \in [Callers -> 0 .. NRows]
    BY <1>0, <1>3, <1>4 DEF CallerType
  <2> QED
    BY <1>0, <1>3, <2>1, <2>2, <2>3 DEF CallerType
<1>8. SlicesOK(c)'
  BY <1>0, <1>1, <1>3 DEF CallOK, SlicesOK
<1>9. Len(indptr'[c]) <= NRows + 1
  BY <1>0, <1>1, <1>4, <1>5 DEF CallOK, OutputOK
<1>10. OutputOK(c)'
  BY <1>1, <1>9 DEF OutputOK, Holds, Asking, w
<1>11. CallOK(c)'
  BY <1>1, <1>8, <1>10 DEF CallOK
<1> QED
  BY <1>0, <1>2, <1>7, <1>11, OthersStay DEF CallersInv

\* A slice lies within the rows.
LEMMA SliceBounds ==
  ASSUME NEW n \in Nat, NEW k \in Slices(n)
  PROVE  /\ Lo(n, k) \in Nat /\ Hi(n, k) \in Nat
         /\ Lo(n, k) < Hi(n, k) /\ Hi(n, k) <= NRows
<1>1. BlockSize(n) \in Nat \ {0} /\ NRows \in Nat \ {0}
  BY BlockSizeType, DriverAssumption
<1>2. CeilDiv(NRows, BlockSize(n)) \in Nat
  BY <1>1, Quotient DEF CeilDiv
<1>3. k \in Nat
  BY <1>2 DEF Slices
<1>4. k * BlockSize(n) \in Nat
  BY <1>1, <1>3
<1>5. Lo(n, k) \in Nat /\ Hi(n, k) \in Nat
  BY <1>1, <1>4 DEF Lo, Hi
<1> QED
  BY <1>5, SlicesPartition

LEMMA InstallCallers ==
  ASSUME IInv, NEW c \in Callers, Install(c)
  PROVE  CallersInv'
<1>0. /\ PoolType /\ CallerType /\ CallOK(c) /\ pc[c] = "install"
      /\ \A d \in Callers : CallOK(d)
  BY DEF IInv, PoolInv, Install
<1>1. /\ pc'[c] = "running" /\ n_threads' = n_threads
      /\ slices'[c] = [k \in Slices(n_threads[c]) |-> "todo"]
      /\ blocks'[c] = [k \in {} |-> <<>>]
      /\ indptr' = indptr /\ indices' = indices
  BY <1>0 DEF Install, Goto, PoolType, CallerType, output
<1>2. \A d \in Callers \ {c} : View(d)' = View(d)
  BY <1>0 DEF Install, Goto, PoolType, CallerType, View, output
<1>3. CallerType'
  BY <1>0 DEF Install, CallerType, output
<1>4. DOMAIN slices'[c] = Slices(n_threads[c]) /\ DOMAIN blocks'[c] = {}
      /\ \A k \in Slices(n_threads[c]) : slices'[c][k] = "todo"
  BY <1>1
<1>5. SlicesOK(c)' /\ \A k \in DOMAIN slices'[c] : SliceResult(c, k)'
  BY <1>1, <1>4 DEF SlicesOK, SliceResult, States
<1>6. OutputOK(c)'
  BY <1>0, <1>1 DEF CallOK, OutputOK, Asking
<1>7. CallOK(c)'
  BY <1>5, <1>6 DEF CallOK
<1> QED
  BY <1>0, <1>2, <1>3, <1>7, OthersStay DEF CallersInv

LEMMA BeginCallers ==
  ASSUME IInv, NEW c \in Callers, NEW k \in DOMAIN slices[c], Begin(c, k)
  PROVE  CallersInv'
<1>0. /\ PoolType /\ CallerType /\ CallOK(c) /\ pc[c] = "running"
      /\ \A d \in Callers : CallOK(d)
  BY DEF IInv, PoolInv, Begin
<1>1. /\ UNCHANGED <<pc, n_threads, work, blocks, row, indptr, indices, calls>>
      /\ slices'[c] = [slices[c] EXCEPT ![k] = "running"]
      /\ slices[c][k] = "todo"
  BY <1>0 DEF Begin, CallerType, In, output
<1>2. \A d \in Callers \ {c} : View(d)' = View(d)
  BY <1>0, <1>1 DEF Begin, CallerType, View
<1>3. CallerType'
  BY <1>0, <1>1 DEF Begin, CallerType
<1>4. /\ DOMAIN slices'[c] = DOMAIN slices[c] /\ slices'[c][k] = "running"
      /\ \A j \in DOMAIN slices[c] \ {k} : slices'[c][j] = slices[c][j]
  BY <1>1
<1>5. SlicesOK(c) /\ \A j \in DOMAIN slices[c] : SliceResult(c, j)
  BY <1>0 DEF CallOK
<1>6. SlicesOK(c)'
  BY <1>0, <1>1, <1>4, <1>5 DEF SlicesOK, States
<1>7. \A j \in DOMAIN slices'[c] : SliceResult(c, j)'
  BY <1>1, <1>4, <1>5 DEF SliceResult
<1>8. OutputOK(c)'
  BY <1>0, <1>1 DEF CallOK, OutputOK, Asking
<1>9. CallOK(c)'
  BY <1>6, <1>7, <1>8 DEF CallOK
<1> QED
  BY <1>0, <1>2, <1>3, <1>9, OthersStay DEF CallersInv

LEMMA EndCallers ==
  ASSUME IInv, NEW c \in Callers, NEW k \in DOMAIN slices[c], End(c, k)
  PROVE  CallersInv'
<1> DEFINE lo == Lo(n_threads[c], k)
           hi == Hi(n_threads[c], k)
           panics == \E r \in lo .. hi - 1 : work[c][r] = Panics
<1>0. /\ PoolType /\ CallerType /\ CallOK(c) /\ pc[c] = "running"
      /\ n_threads[c] \in Requests
      /\ \A d \in Callers : CallOK(d)
  BY DEF IInv, PoolInv, End, CallsAsk, Asking
<1>1. /\ UNCHANGED <<pc, n_threads, work, row, indptr, indices, calls>>
      /\ DOMAIN slices'[c] = DOMAIN slices[c] /\ slices[c][k] = "running"
      /\ \A j \in DOMAIN slices[c] \ {k} : slices'[c][j] = slices[c][j]
      /\ DOMAIN slices' = Callers /\ DOMAIN blocks' = Callers
  BY <1>0 DEF End, CallerType, In, output
<1>2. \A d \in Callers \ {c} : View(d)' = View(d)
  <2> SUFFICES ASSUME NEW d \in Callers \ {c} PROVE View(d)' = View(d)
    OBVIOUS
  <2>1. slices'[d] = slices[d] /\ blocks'[d] = blocks[d]
    BY <1>0 DEF End, CallerType
  <2> QED
    BY <1>1, <2>1 DEF View
<1>3. CallerType'
  BY <1>0, <1>1 DEF CallerType
<1>4. ASSUME panics PROVE CallOK(c)'
  <2>1. slices'[c][k] = "panicked" /\ blocks' = blocks
    BY <1>0, <1>4 DEF End, CallerType
  <2>2. \E r \in RowNames : work[c][r] = Panics
    <3>1. k \in Slices(n_threads[c])
      BY <1>0 DEF CallOK, SlicesOK
    <3>2. lo \in Nat /\ hi \in Nat /\ hi <= NRows /\ NRows \in Nat
      BY <1>0, <3>1, SliceBounds, DriverAssumption
    <3>3. \A r \in lo .. hi - 1 : r \in RowNames
      BY <3>2 DEF RowNames
    <3> QED
      BY <1>4, <3>3
  <2>3. SlicesOK(c)'
    BY <1>0, <1>1, <2>1 DEF CallOK, SlicesOK, States
  <2>4. \A j \in DOMAIN slices'[c] : SliceResult(c, j)'
    <3> SUFFICES ASSUME NEW j \in DOMAIN slices[c] PROVE SliceResult(c, j)'
      BY <1>1
    <3>1. CASE j = k
      BY <1>1, <2>1, <2>2, <3>1 DEF SliceResult
    <3>2. CASE j # k
      BY <1>0, <1>1, <2>1, <3>2 DEF SliceResult, CallOK
    <3> QED
      BY <3>1, <3>2
  <2> QED
    BY <1>0, <1>1, <2>3, <2>4 DEF CallOK, OutputOK, Asking
<1>5. ASSUME ~ panics PROVE CallOK(c)'
  <2>1. /\ slices'[c][k] = "done"
        /\ blocks'[c] = [j \in DOMAIN blocks[c] \cup {k} |->
                          IF j = k THEN RowBlock(work[c], lo, hi) ELSE blocks[c][j]]
    BY <1>0, <1>5 DEF End, CallerType
  <2>2. /\ DOMAIN blocks'[c] = DOMAIN blocks[c] \cup {k}
        /\ blocks'[c][k] = RowBlock(work[c], lo, hi)
        /\ \A j \in DOMAIN blocks[c] \ {k} : blocks'[c][j] = blocks[c][j]
    BY <2>1
  <2>3. SlicesOK(c)'
    BY <1>0, <1>1, <2>1, <2>2 DEF CallOK, SlicesOK, States
  <2>4. \A j \in DOMAIN slices'[c] : SliceResult(c, j)'
    <3> SUFFICES ASSUME NEW j \in DOMAIN slices[c] PROVE SliceResult(c, j)'
      BY <1>1
    <3>1. CASE j = k
      BY <1>1, <1>5, <2>1, <2>2, <3>1 DEF SliceResult
    <3>2. CASE j # k
      <4>1. slices[c][j] = "done" => j \in DOMAIN blocks[c]
        BY <1>0 DEF CallOK, SlicesOK
      <4> QED
        BY <1>0, <1>1, <2>2, <3>2, <4>1 DEF SliceResult, CallOK
    <3> QED
      BY <3>1, <3>2
  <2> QED
    BY <1>0, <1>1, <2>3, <2>4 DEF CallOK, OutputOK, Asking
<1>6. CallOK(c)'
  BY <1>4, <1>5
<1> QED
  BY <1>0, <1>2, <1>3, <1>6, OthersStay DEF CallersInv

\* All slices are done: no row panics, and the blocks make the whole output.
LEMMA SlicesMakeOutput ==
  ASSUME IInv, NEW c \in Callers, BuildCsr(c)
  PROVE  /\ NoPanic(work[c], NRows) /\ work' = work /\ row' = row
         /\ slices' = slices /\ blocks' = blocks /\ n_threads' = n_threads /\ calls' = calls
         /\ Rows(work[c], NRows) \in Seq(RowNames)
         /\ \/ /\ \A p \in DOMAIN Offsets(work[c], NRows) : Narrows(Offsets(work[c], NRows)[p])
               /\ indptr' = [indptr EXCEPT ![c] = Offsets(work[c], NRows)]
               /\ indices' = [indices EXCEPT ![c] = Rows(work[c], NRows)]
               /\ pc' = [pc EXCEPT ![c] = "ok"]
            \/ /\ \E p \in DOMAIN Offsets(work[c], NRows) : ~ Narrows(Offsets(work[c], NRows)[p])
               /\ indptr' = indptr /\ indices' = indices
               /\ pc' = [pc EXCEPT ![c] = "panicked"]
<1> DEFINE w == work[c]
           n == n_threads[c]
           bs == blocks[c]
           sorted == InRowOrder({bs[k] : k \in DOMAIN bs})
           sums == PrefixSums(FlattenSeq([p \in DOMAIN sorted |-> sorted[p].row_nset]))
<1>0. /\ PoolType /\ CallerType /\ CallOK(c) /\ pc[c] = "running"
      /\ w \in Works /\ n \in Requests /\ NRows \in Nat
  BY DriverAssumption DEF IInv, PoolInv, BuildCsr, CallerType, CallsAsk, Asking
<1>1. \A k \in DOMAIN slices[c] : slices[c][k] = "done"
  BY DEF BuildCsr
<1>2. DOMAIN slices[c] = Slices(n) /\ DOMAIN bs = Slices(n)
  BY <1>0, <1>1 DEF CallOK, SlicesOK
<1>3. \A k \in Slices(n) : /\ bs[k] = RowBlock(w, Lo(n, k), Hi(n, k))
                           /\ \A r \in Lo(n, k) .. Hi(n, k) - 1 : w[r] # Panics
  BY <1>0, <1>1, <1>2 DEF CallOK, SliceResult
<1>4. NoPanic(w, NRows)
  <2> SUFFICES ASSUME NEW r \in 0 .. NRows - 1 PROVE w[r] # Panics
    BY DEF NoPanic
  <2>1. n \in Nat
    BY <1>0, DriverAssumption
  <2>2. PICK k \in Slices(n) : Lo(n, k) <= r /\ r < Hi(n, k)
    BY <2>1, SlicesPartition
  <2>3. r \in Lo(n, k) .. Hi(n, k) - 1
    BY <2>1, <2>2, SliceBounds
  <2> QED
    BY <1>3, <2>3
<1>5. /\ FlattenSeq([p \in DOMAIN sorted |-> sorted[p].indices]) = Rows(w, NRows)
      /\ sums = Offsets(w, NRows)
  <2>1. n \in Nat
    BY <1>0, DriverAssumption
  <2> HIDE DEF w, n, bs
  <2> QED
    BY <1>0, <1>2, <1>3, <1>4, <2>1, BlocksConcatenate
<1>6. NRows \in 0 .. NRows
  BY <1>0
<1>7. Rows(w, NRows) \in Seq(RowNames)
  BY <1>0, <1>4, <1>6, RowsFacts
<1>8. \/ /\ \A p \in DOMAIN sums : Narrows(sums[p])
         /\ indptr' = [indptr EXCEPT ![c] = sums]
         /\ indices' = [indices EXCEPT ![c] =
                          FlattenSeq([p \in DOMAIN sorted |-> sorted[p].indices])]
         /\ pc' = [pc EXCEPT ![c] = "ok"]
      \/ /\ \E p \in DOMAIN sums : ~ Narrows(sums[p])
         /\ indptr' = indptr /\ indices' = indices
         /\ pc' = [pc EXCEPT ![c] = "panicked"]
  BY DEF BuildCsr, Goto, output
<1> HIDE DEF sums, sorted
<1> QED
  BY <1>4, <1>5, <1>7, <1>8 DEF BuildCsr

LEMMA BuildCsrCallers ==
  ASSUME IInv, NEW c \in Callers, BuildCsr(c)
  PROVE  CallersInv'
<1> DEFINE w == work[c]
           sums == Offsets(w, NRows)
<1>0. /\ PoolType /\ CallerType /\ CallOK(c) /\ w \in Works
      /\ \A d \in Callers : CallOK(d)
  BY DEF IInv, PoolInv, CallerType
<1>1. /\ NoPanic(w, NRows) /\ work' = work /\ row' = row
      /\ slices' = slices /\ blocks' = blocks /\ n_threads' = n_threads /\ calls' = calls
      /\ Rows(w, NRows) \in Seq(RowNames)
      /\ \/ /\ \A p \in DOMAIN sums : Narrows(sums[p])
            /\ indptr' = [indptr EXCEPT ![c] = sums]
            /\ indices' = [indices EXCEPT ![c] = Rows(w, NRows)]
            /\ pc' = [pc EXCEPT ![c] = "ok"]
         \/ /\ indptr' = indptr /\ indices' = indices
            /\ pc' = [pc EXCEPT ![c] = "panicked"]
  BY SlicesMakeOutput
<1>2. CASE pc' = [pc EXCEPT ![c] = "panicked"] /\ indptr' = indptr /\ indices' = indices
  BY <1>1, <1>2, Moves DEF Labels, Finished
<1>3. CASE /\ \A p \in DOMAIN sums : Narrows(sums[p])
           /\ indptr' = [indptr EXCEPT ![c] = sums]
           /\ indices' = [indices EXCEPT ![c] = Rows(w, NRows)]
           /\ pc' = [pc EXCEPT ![c] = "ok"]
  <2>1. NRows \in 0 .. NRows /\ NRows \in Nat /\ IndexMax \in Nat
    BY DriverAssumption
  <2>2. sums \in Seq(Nat) /\ Len(sums) = NRows + 1
    BY <1>0, <1>1, <2>1, OffsetsGrow
  <2>3. indptr'[c] = sums /\ indices'[c] = Rows(w, NRows) /\ pc'[c] = "ok"
    BY <1>0, <1>3 DEF CallerType, PoolType
  <2> HIDE DEF sums
  <2>4. sums \in Seq(0 .. IndexMax)
    <3>1. \A p \in DOMAIN sums : sums[p] \in 0 .. IndexMax
      BY <1>3, <2>1, <2>2 DEF Narrows
    <3>2. /\ Len(sums) \in Nat /\ DOMAIN sums = 1 .. Len(sums)
          /\ sums = [p \in DOMAIN sums |-> sums[p]]
      BY <2>2, LenProperties
    <3>3. sums \in [1 .. Len(sums) -> 0 .. IndexMax]
      BY <3>1, <3>2
    <3> QED
      BY <3>2, <3>3, SeqDef
  <2>5. CallerType'
    <3>1. indptr' \in [Callers -> Seq(0 .. IndexMax)]
      BY <1>0, <1>3, <2>4 DEF CallerType
    <3>2. indices' \in [Callers -> Seq(RowNames)]
      BY <1>0, <1>1, <1>3 DEF CallerType
    <3> QED
      BY <1>0, <1>1, <3>1, <3>2 DEF CallerType
  <2>6. \A d \in Callers \ {c} : View(d)' = View(d)
    BY <1>0, <1>1, <1>3 DEF View, CallerType, PoolType
  <2>7. SlicesOK(c)'
    BY <1>0, <1>1, <2>3 DEF CallOK, SlicesOK
  <2>8. OutputOK(c)'
    <3>1. Len(indptr'[c]) <= NRows + 1
      BY <2>1, <2>2, <2>3
    <3>2. Holds(c, NRows)'
      BY <1>1, <2>3 DEF Holds, sums
    <3> QED
      BY <2>3, <3>1, <3>2 DEF OutputOK, Asking, Holds
  <2>9. CallOK(c)'
    BY <2>3, <2>7, <2>8 DEF CallOK
  <2> QED
    BY <1>0, <2>5, <2>6, <2>9, OthersStay DEF CallersInv
<1> QED
  BY <1>1, <1>2, <1>3

LEMMA CallInv ==
  ASSUME IInv, NEW c \in Callers, NEW n \in Requests \cup {1}, NEW w \in Works, Call(c, n, w)
  PROVE  IInv'
BY CallPool, CallCallers DEF IInv, CallersInv

LEMMA WorkerInv ==
  ASSUME IInv, NEW c \in Callers, NEW k \in DOMAIN slices[c], Begin(c, k) \/ End(c, k)
  PROVE  IInv'
BY WorkerPool, BeginCallers, EndCallers DEF IInv, CallersInv

LEMMA StepInv ==
  ASSUME IInv, NEW c \in Callers, Step(c)
  PROVE  IInv'
<1>1. PoolInv'
  BY StepPool DEF IInv
<1>2. CallersInv'
  <2> USE DEF Goto, Labels, Finished, output
  <2>1. CASE Row(c)
    BY <2>1, RowCallers
  <2>2. CASE RowPanics(c)
    BY <2>2, Moves DEF RowPanics
  <2>3. CASE LastRow(c)
    <3>1. Holds(c, NRows)
      BY <2>3 DEF IInv, CallOK, OutputOK, LastRow
    <3> QED
      BY <2>3, <3>1, Moves DEF LastRow
  <2>4. CASE Lock(c)
    BY <2>4, Moves DEF Lock
  <2>5. CASE Lookup(c)
    BY <2>5, Moves DEF Lookup
  <2>6. CASE Build(c)
    BY <2>6, Moves DEF Build
  <2>7. CASE BuildFails(c)
    BY <2>7, Moves DEF BuildFails
  <2>8. CASE Install(c)
    BY <2>8, InstallCallers
  <2>9. CASE Unwind(c)
    BY <2>9, Moves DEF Unwind
  <2>10. CASE BuildCsr(c)
    BY <2>10, BuildCsrCallers
  <2> QED
    BY <2>1, <2>2, <2>3, <2>4, <2>5, <2>6, <2>7, <2>8, <2>9, <2>10 DEF Step
<1> QED
  BY <1>1, <1>2 DEF IInv, CallersInv

LEMMA StutterInv ==
  ASSUME IInv, UNCHANGED vars
  PROVE  IInv'
<1> USE DEF vars, process, output
<1>1. PoolInv'
  BY DEF IInv, PoolInv, PoolType, MutexHeld, CallsAsk, PoolsDistinct, CallsHold, FailurePoisons
<1>2. CallerType'
  BY DEF IInv, CallerType
<1>3. ASSUME NEW d \in Callers
      PROVE  CallOK(d)'
  <2>1. CallOK(d)
    BY DEF IInv
  <2> QED
    BY <2>1 DEF CallOK, SlicesOK, SliceResult, OutputOK, Holds
<1> QED
  BY <1>1, <1>2, <1>3 DEF IInv

LEMMA NextInv == IInv /\ [Next]_vars => IInv'
<1> SUFFICES ASSUME IInv, [Next]_vars PROVE IInv'
  OBVIOUS
<1>1. CASE Next
  BY <1>1, CallInv, StepInv, WorkerInv DEF Next
<1>2. CASE UNCHANGED vars
  BY <1>2, StutterInv
<1> QED
  BY <1>1, <1>2

\* The mutex is held by whoever is between taking and releasing it, every pool
\* handed out is the cached pool of its thread count, and every slice that is
\* done has the rows it owns.
THEOREM DriverInvariant == Spec => []IInv
BY InitInv, NextInv, PTL DEF Spec

-----------------------------------------------------------------------------
(* What the invariant implies *)

LEMMA InvTypes == IInv => TypeOK
<1> SUFFICES ASSUME IInv PROVE TypeOK
  OBVIOUS
<1> USE DEF IInv, PoolInv
<1>1. pool \in [Callers -> 0 .. built]
  <2>1. \A c \in Callers : pool[c] <= built
    BY DEF PoolType, CallsHold, PoolsDistinct
  <2> QED
    BY <2>1 DEF PoolType
<1>2. ASSUME NEW c \in Callers
      PROVE  /\ \A k \in DOMAIN slices[c] :
                  slices[c][k] \in {"todo", "running", "done", "panicked"}
             /\ DOMAIN blocks[c] \subseteq DOMAIN slices[c]
             /\ indptr[c] \in Seq(0 .. IndexMax) /\ Len(indptr[c]) <= NRows + 1
             /\ indices[c] \in Seq(0 .. NRows - 1)
  BY DEF CallerType, CallOK, SlicesOK, OutputOK, States, RowNames
<1> QED
  BY <1>1, <1>2 DEF TypeOK, PoolType, CallerType, Labels

LEMMA InvOnePool == IInv => OnePoolPerCount
BY DEF IInv, PoolInv, CallsHold, PoolsDistinct, OnePoolPerCount

LEMMA InvRowMajor == IInv => OutputIsRowMajor
<1> SUFFICES ASSUME IInv, NEW c \in Callers, pc[c] = "ok"
             PROVE  /\ Len(indptr[c]) = NRows + 1
                    /\ indptr[c][1] = 0 /\ indptr[c][NRows + 1] = Len(indices[c])
                    /\ \A r \in 0 .. NRows - 1 :
                         /\ indptr[c][r + 2] - indptr[c][r + 1] = work[c][r]
                         /\ \A e \in indptr[c][r + 1] + 1 .. indptr[c][r + 2] : indices[c][e] = r
  BY DEF OutputIsRowMajor
<1> DEFINE w == work[c]
           all == Rows(w, NRows)
<1>1. NRows \in Nat /\ NRows \in 0 .. NRows /\ w \in Works
  BY DriverAssumption DEF IInv, CallerType
<1>2. NoPanic(w, NRows) /\ indices[c] = all /\ indptr[c] = Offsets(w, NRows)
  BY DEF IInv, CallOK, OutputOK, Holds
<1> HIDE DEF w
<1>3. Len(Offsets(w, NRows)) = NRows + 1 /\ Rows(w, 0) = <<>>
  BY <1>1, <1>2, OffsetsGrow
<1>4. \A p \in 1 .. NRows + 1 : Offsets(w, NRows)[p] = Len(Rows(w, p - 1))
  BY <1>1 DEF Offsets
<1>5. Offsets(w, NRows)[1] = 0
  <2>1. 1 \in 1 .. NRows + 1 /\ 1 - 1 = 0 /\ Len(<<>>) = 0
    BY <1>1
  <2> QED
    BY <1>3, <1>4, <2>1
<1>6. Offsets(w, NRows)[NRows + 1] = Len(all)
  <2>1. NRows + 1 \in 1 .. NRows + 1 /\ (NRows + 1) - 1 = NRows
    BY <1>1
  <2> QED
    BY <1>4, <2>1
<1>7. ASSUME NEW r \in 0 .. NRows - 1
      PROVE  /\ Offsets(w, NRows)[r + 2] - Offsets(w, NRows)[r + 1] = w[r]
             /\ \A e \in Offsets(w, NRows)[r + 1] + 1 .. Offsets(w, NRows)[r + 2] : all[e] = r
  <2>1. /\ r + 1 \in 1 .. NRows + 1 /\ r + 2 \in 1 .. NRows + 1 /\ (r + 1) - 1 = r
        /\ (r + 2) - 1 = r + 1 /\ r + 1 \in 1 .. NRows /\ r + 1 \in 0 .. NRows
    BY <1>1
  <2>2. Offsets(w, NRows)[r + 1] = Len(Rows(w, r)) /\ Offsets(w, NRows)[r + 2] = Len(Rows(w, r + 1))
    BY <1>4, <2>1
  <2>3. /\ Len(Rows(w, r + 1)) = Len(Rows(w, r)) + w[r] /\ w[r] \in Nat /\ Len(Rows(w, r)) \in Nat
        /\ \A e \in Len(Rows(w, r)) + 1 .. Len(Rows(w, r + 1)) : Rows(w, r + 1)[e] = r
    BY <1>1, <1>2, <2>1, RowsGrow
  <2>4. \A e \in 1 .. Len(Rows(w, r + 1)) : all[e] = Rows(w, r + 1)[e]
    BY <1>1, <1>2, <2>1, RowsStay
  <2>5. \A e \in Len(Rows(w, r)) + 1 .. Len(Rows(w, r + 1)) : e \in 1 .. Len(Rows(w, r + 1))
    BY <2>3
  <2> HIDE DEF all
  <2>6. \A e \in Len(Rows(w, r)) + 1 .. Len(Rows(w, r + 1)) : all[e] = r
    BY <2>3, <2>4, <2>5
  <2> DEFINE low == Len(Rows(w, r))
             high == Len(Rows(w, r + 1))
             offset == Offsets(w, NRows)
  <2>7. /\ offset[r + 1] = low /\ offset[r + 2] = high /\ high = low + w[r]
        /\ low \in Nat /\ w[r] \in Nat
        /\ \A e \in low + 1 .. high : all[e] = r
    BY <2>2, <2>3, <2>6
  <2> HIDE DEF low, high, offset
  <2>8. offset[r + 2] - offset[r + 1] = w[r]
    BY <2>7
  <2>9. \A e \in offset[r + 1] + 1 .. offset[r + 2] : all[e] = r
    BY <2>7
  <2> QED
    BY <2>8, <2>9 DEF offset
<1> QED
  BY <1>2, <1>3, <1>5, <1>6, <1>7 DEF w

\* Every variable of the driver keeps its type: no offset beyond the index type
\* is ever stored, no block without its slice.
THEOREM DriverTypes == Spec => []TypeOK
BY InvTypes, DriverInvariant, PTL

\* A call that succeeds returns every row's entries at that row's offsets, in row
\* order: slicing, pools, workers and other calls make no difference.
THEOREM RowMajor == Spec => []OutputIsRowMajor
BY InvRowMajor, DriverInvariant, PTL

\* The mutex around POOLS lets one caller at a time look up or build a pool.
THEOREM CacheIsExclusive == Spec => []MutualExclusion
<1>1. IInv => MutualExclusion
  BY DEF IInv, PoolInv, MutexHeld, MutualExclusion
<1> QED
  BY <1>1, DriverInvariant, PTL

\* pool_for: pools are shared by exactly the calls with equal thread counts.
THEOREM OnePool == Spec => []OnePoolPerCount
BY InvOnePool, DriverInvariant, PTL

-----------------------------------------------------------------------------
(* Why calls panic *)

\* The rows before the first that panics hold more entries than can be counted.
TooLong(w) == \E n \in 0 .. NRows : NoPanic(w, n) /\ Len(Rows(w, n)) > IndexMax

\* More entries are stored than fit, or no slice is left that panicked.
Overrun(c) ==
  \/ Len(indices[c]) > IndexMax
  \/ slices[c] # <<>> /\ In(c, "done") = DOMAIN slices[c]

Cause(c) ==
  IF Overrun(c)
  THEN TooLong(work[c])
  ELSE (\E r \in RowNames : work[c][r] = Panics) \/ (n_threads[c] > 1 /\ failures > 0)

\* The steps of one caller leave the output of the others alone.
LEMMA StepsApart ==
  ASSUME IInv, NEW c \in Callers, Step(c)
  PROVE  /\ \A d \in Callers \ {c} : View(d)' = View(d)
         /\ failures' \in Nat /\ failures' >= failures /\ failures \in Nat
         /\ pc[c] \notin Finished /\ pc'[c] # "idle"
         /\ n_threads' = n_threads /\ work' = work /\ calls' = calls
<1>0. PoolType /\ CallerType /\ failures \in Nat
  BY DriverAssumption DEF IInv, PoolInv, PoolType
<1> USE DEF Goto, output, process, PoolType, CallerType, View, Finished, Labels
<1>1. CASE Row(c)
  BY <1>0, <1>1 DEF Row
<1>2. CASE RowPanics(c)
  BY <1>0, <1>2 DEF RowPanics
<1>3. CASE LastRow(c)
  BY <1>0, <1>3 DEF LastRow
<1>4. CASE Lock(c)
  BY <1>0, <1>4 DEF Lock
<1>5. CASE Lookup(c)
  BY <1>0, <1>5 DEF Lookup
<1>6. CASE Build(c)
  BY <1>0, <1>6 DEF Build
<1>7. CASE BuildFails(c)
  BY <1>0, <1>7 DEF BuildFails
<1>8. CASE Install(c)
  BY <1>0, <1>8 DEF Install
<1>9. CASE Unwind(c)
  BY <1>0, <1>9 DEF Unwind
<1>10. CASE BuildCsr(c)
  <2>1. /\ work' = work /\ row' = row /\ slices' = slices /\ blocks' = blocks
        /\ n_threads' = n_threads /\ calls' = calls
        /\ \E l \in {"ok", "panicked"} : pc' = [pc EXCEPT ![c] = l]
        /\ \E s, t : \/ /\ indptr' = [indptr EXCEPT ![c] = s]
                        /\ indices' = [indices EXCEPT ![c] = t]
                     \/ indptr' = indptr /\ indices' = indices
    BY <1>10, SlicesMakeOutput
  <2>2. failures' = failures /\ pc[c] = "running"
    BY <1>10 DEF BuildCsr
  <2> QED
    BY <1>0, <2>1, <2>2
<1> QED
  BY <1>1, <1>2, <1>3, <1>4, <1>5, <1>6, <1>7, <1>8, <1>9, <1>10 DEF Step

\* A step on which a call panics has its cause in the call's own rows, or in a
\* pool that was not built.
LEMMA PanicHasCause ==
  ASSUME IInv, NEW c \in Callers, Step(c), pc'[c] = "panicked"
  PROVE  Cause(c)'
<1> DEFINE w == work[c]
<1>0. /\ PoolType /\ CallerType /\ CallOK(c) /\ w \in Works
      /\ NRows \in Nat \ {0} /\ IndexMax \in Nat /\ failures \in Nat
  BY DriverAssumption DEF IInv, PoolInv, PoolType, CallerType
<1>1. n_threads' = n_threads /\ work' = work
  BY StepsApart
<1>2. ASSUME pc[c] \in {"lock", "build"}, UNCHANGED <<slices, indices>>, failures' > 0
      PROVE  Cause(c)'
  <2>1. slices'[c] = <<>> /\ indices'[c] = <<>> /\ n_threads'[c] > 1
    BY <1>0, <1>1, <1>2 DEF CallOK, SlicesOK, OutputOK, Asking, IInv, PoolInv, CallsAsk
  <2>2. Len(indices'[c]) = 0 /\ ~ (0 > IndexMax)
    BY <1>0, <2>1
  <2>3. ~ Overrun(c)'
    BY <2>1, <2>2 DEF Overrun
  <2> QED
    BY <1>2, <2>1, <2>3 DEF Cause
<1>3. CASE Row(c)
  <2> DEFINE n == row[c] + 1
  <2>1. n \in 1 .. NRows /\ NoPanic(w, n) /\ indices'[c] = Rows(w, n) /\ Len(indices'[c]) > IndexMax
    BY <1>3, RowGrows
  <2>2. TooLong(w)
    BY <1>0, <2>1 DEF TooLong
  <2> QED
    BY <1>1, <2>1, <2>2 DEF Cause, Overrun
<1>4. CASE RowPanics(c)
  <2>1. /\ UNCHANGED <<slices, indices>> /\ slices[c] = <<>> /\ Holds(c, row[c])
        /\ row[c] \in RowNames /\ w[row[c]] = Panics /\ row[c] \in 0 .. NRows
    BY <1>0, <1>4 DEF RowPanics, CallOK, SlicesOK, OutputOK, CallerType, RowNames, output
  <2>2. Overrun(c)' => TooLong(w)
    BY <2>1 DEF Overrun, TooLong, Holds
  <2> QED
    BY <1>1, <2>1, <2>2 DEF Cause
<1>5. CASE Lock(c)
  <2>1. poisoned
    BY <1>0, <1>5 DEF Lock, Goto, PoolType
  <2>2. failures > 0
    BY <2>1 DEF IInv, PoolInv, FailurePoisons
  <2> QED
    BY <1>2, <1>5, <2>2 DEF Lock, output
<1>6. CASE BuildFails(c)
  <2>1. failures' > 0
    BY <1>0, <1>6 DEF BuildFails
  <2> QED
    BY <1>2, <1>6, <2>1 DEF BuildFails, output
<1>7. CASE Unwind(c)
  <2>1. /\ pc[c] = "running" /\ slices' = slices /\ indices' = indices
        /\ In(c, "panicked") # {}
    BY <1>7 DEF Unwind, output
  <2>2. PICK k \in DOMAIN slices[c] : slices[c][k] = "panicked"
    BY <2>1 DEF In
  <2>3. \E r \in RowNames : w[r] = Panics
    BY <1>0, <2>1, <2>2 DEF CallOK, SliceResult
  <2>4. indices[c] = <<>>
    BY <1>0, <2>1 DEF CallOK, OutputOK, Asking
  <2>5. Len(indices'[c]) = 0 /\ ~ (0 > IndexMax)
    BY <1>0, <2>1, <2>4
  <2>6. In(c, "done")' # DOMAIN slices'[c]
    BY <2>1, <2>2 DEF In
  <2> QED
    BY <1>1, <2>3, <2>5, <2>6 DEF Cause, Overrun
<1>8. CASE BuildCsr(c)
  <2>1. /\ NoPanic(w, NRows) /\ slices' = slices
        /\ \E p \in DOMAIN Offsets(w, NRows) : ~ Narrows(Offsets(w, NRows)[p])
    BY <1>0, <1>8, SlicesMakeOutput DEF PoolType
  <2>2. PICK p \in DOMAIN Offsets(w, NRows) : ~ Narrows(Offsets(w, NRows)[p])
    BY <2>1
  <2>3. p - 1 \in 0 .. NRows /\ Offsets(w, NRows)[p] = Len(Rows(w, p - 1))
    BY <1>0 DEF Offsets
  <2>4. NoPanic(w, p - 1)
    BY <1>0, <2>1, <2>3 DEF NoPanic
  <2>5. Len(Rows(w, p - 1)) \in Nat
    BY <1>0, <2>3, <2>4, OffsetsGrow, LenProperties
  <2>6. TooLong(w)
    BY <1>0, <2>2, <2>3, <2>4, <2>5 DEF TooLong, Narrows
  <2>7. \A k \in DOMAIN slices[c] : slices[c][k] = "done"
    BY <1>8 DEF BuildCsr
  <2>8. n_threads[c] \in Nat /\ DOMAIN slices[c] = Slices(n_threads[c])
    <3>1. pc[c] = "running"
      BY <1>8 DEF BuildCsr
    <3>2. n_threads[c] \in Requests
      BY <3>1 DEF IInv, PoolInv, CallsAsk, Asking
    <3>3. n_threads[c] \in Nat
      BY <3>2, DriverAssumption
    <3> QED
      BY <1>0, <3>1, <3>3 DEF CallOK, SlicesOK
  <2>9. 0 \in 0 .. NRows - 1
    BY <1>0
  <2>10. DOMAIN slices[c] # {}
    BY <2>8, <2>9, SlicesPartition
  <2>11. slices[c] # <<>>
    BY <2>10
  <2>12. Overrun(c)'
    BY <2>1, <2>7, <2>11 DEF Overrun, In
  <2> QED
    BY <1>1, <2>6, <2>12 DEF Cause
<1>9. CASE LastRow(c) \/ Lookup(c) \/ Build(c) \/ Install(c)
  BY <1>0, <1>9 DEF LastRow, Lookup, Build, Install, Goto, PoolType
<1> QED
  BY <1>3, <1>4, <1>5, <1>6, <1>7, <1>8, <1>9 DEF Step

LEMMA CauseStays ==
  ASSUME NEW c \in Callers, Cause(c), failures \in Nat, failures' \in Nat, failures' >= failures,
         View(c)' = View(c)
  PROVE  Cause(c)'
<1>1. /\ n_threads'[c] = n_threads[c] /\ work'[c] = work[c] /\ slices'[c] = slices[c]
      /\ indices'[c] = indices[c]
      /\ failures > 0 => failures' > 0
  BY DEF View
<1>2. Overrun(c)' <=> Overrun(c)
  BY <1>1 DEF Overrun, In
<1> QED
  BY <1>1, <1>2 DEF Cause

-----------------------------------------------------------------------------
(* Calls through the Python bindings *)


PyType ==
  /\ gil \in Callers \cup {NoCaller}
  /\ at \in [Callers -> {"python", "binding", "kernel", "attached"}]
  /\ args \in [Callers -> Arguments]
  /\ held \in [Callers -> BOOLEAN] /\ borrowed \in [Callers -> BOOLEAN]
  /\ outcome \in [Callers -> Outcomes]

\* The GIL is held by the thread inside a binding and outside its kernel.
GilHeld == \A c \in Callers : gil = c <=> at[c] \in {"binding", "attached"}

\* The kernel is idle unless its caller is detached, and runs its caller's call,
\* whose arguments were accepted.
KernelOK(c) ==
  /\ at[c] # "kernel" => pc[c] \in Finished
  /\ at[c] \in {"kernel", "attached"} =>
       n_threads[c] = KernelThreads(args[c]) /\ pc[c] # "idle" /\ Accepted(args[c])
  /\ at[c] = "binding" => calls[c] < MaxCalls
  /\ borrowed[c] <=> at[c] # "python"

\* A panic under way comes from the rows, a pool or the width check of zip.
PanicOK(c) ==
  at[c] \in {"kernel", "attached"} /\ pc[c] = "panicked" => Cause(c) \/ TooWide(c)

Wide(q) == ~ FitsColumns(q.ncols)

\* ExceptionNamesCause, of one thread.
OutcomeOK(c) ==
  /\ outcome[c] # "none" => at[c] = "python"
  /\ outcome[c] = "result" =>
       /\ Accepted(args[c])
       /\ ~ PanickingRow(work[c]) /\ ~ Overflows(work[c]) /\ ~ Wide(args[c])
  /\ outcome[c] = "OverflowError" =>
       IF Accepted(args[c]) THEN Overflows(work[c]) \/ Wide(args[c])
                            ELSE args[c].flaws \cap Extracted # {}
  /\ outcome[c] = "PanicException" =>
       /\ Accepted(args[c])
       /\ PanickingRow(work[c]) \/ (KernelThreads(args[c]) > 1 /\ failures > 0)

ThreadOK(c) == KernelOK(c) /\ PanicOK(c) /\ OutcomeOK(c)

PyInv ==
  /\ IInv
  /\ PyType
  /\ GilHeld
  /\ \A c \in Callers : ThreadOK(c)

-----------------------------------------------------------------------------
(* Rows and overflow *)

\* The overflow of PyCalls is that of the driver's proofs.
LEMMA OverflowsIsTooLong ==
  ASSUME NEW w
  PROVE  Overflows(w) <=> TooLong(w)
BY DEF Overflows, TooLong, NoPanic, Rows

LEMMA PanickingRowIs ==
  ASSUME NEW w \in Works
  PROVE  /\ PanickingRow(w) <=> \E r \in RowNames : w[r] = Panics
         /\ PanickingRow(w) <=> ~ NoPanic(w, NRows)
<1>1. DOMAIN w = 0 .. NRows - 1
  BY DriverAssumption
<1> QED
  BY <1>1 DEF PanickingRow, NoPanic, RowNames

\* A call whose rows do not panic overflows when its whole output does.
LEMMA WholeOverflows ==
  ASSUME NEW w \in Works, NoPanic(w, NRows)
  PROVE  Overflows(w) <=> ~ Narrows(Len(Rows(w, NRows)))
<1>1. NRows \in Nat /\ NRows \in 0 .. NRows /\ IndexMax \in Nat
  BY DriverAssumption
<1>2. \A n \in 0 .. NRows : Len(Rows(w, n)) \in Nat /\ Len(Rows(w, n)) <= Len(Rows(w, NRows))
  <2> SUFFICES ASSUME NEW n \in 0 .. NRows
               PROVE  Len(Rows(w, n)) \in Nat /\ Len(Rows(w, n)) <= Len(Rows(w, NRows))
    OBVIOUS
  <2>1. Rows(w, n) \in Seq(RowNames)
    BY <1>1, RowsFacts
  <2>2. Len(Rows(w, n)) <= Len(Rows(w, NRows))
    BY <1>1, RowsStay
  <2> QED
    BY <2>1, <2>2, LenProperties
<1>3. TooLong(w) => Len(Rows(w, NRows)) > IndexMax
  <2> SUFFICES ASSUME NEW n \in 0 .. NRows, Len(Rows(w, n)) > IndexMax
               PROVE  Len(Rows(w, NRows)) > IndexMax
    BY DEF TooLong
  <2>1. /\ Len(Rows(w, n)) \in Nat /\ Len(Rows(w, n)) <= Len(Rows(w, NRows))
        /\ Len(Rows(w, NRows)) \in Nat
    BY <1>1, <1>2
  <2> QED
    BY <1>1, <2>1
<1>4. Len(Rows(w, NRows)) > IndexMax => TooLong(w)
  BY <1>1 DEF TooLong
<1>5. Len(Rows(w, NRows)) > IndexMax <=> ~ (Len(Rows(w, NRows)) <= IndexMax)
  BY <1>1, <1>2
<1> QED
  BY <1>3, <1>4, <1>5, OverflowsIsTooLong DEF Narrows

-----------------------------------------------------------------------------
(* The invariant *)

LEMMA PyInitInv == PyInit => PyInv
<1> SUFFICES ASSUME PyInit PROVE PyInv
  OBVIOUS
<1>1. IInv
  BY InitInv DEF PyInit
<1>2. PyType
  BY ArgumentsAssumption DEF PyInit, PyType, Outcomes
<1>3. GilHeld
  BY DriverAssumption DEF PyInit, GilHeld
<1>4. ASSUME NEW c \in Callers
      PROVE  ThreadOK(c)
  <2>1. at[c] = "python" /\ pc[c] = "idle" /\ borrowed[c] = FALSE /\ outcome[c] = "none"
    BY DEF PyInit, Init
  <2> QED
    BY <2>1 DEF ThreadOK, KernelOK, PanicOK, OutcomeOK, Finished
<1> QED
  BY <1>1, <1>2, <1>3, <1>4 DEF PyInv

\* What ThreadOK(c) is about, and View(c) does not see.
PyView(c) == <<at[c], args[c], borrowed[c], outcome[c], calls[c]>>

\* Failures are never forgotten: what another thread does leaves ThreadOK.
LEMMA ThreadStays ==
  ASSUME NEW c \in Callers, ThreadOK(c), failures \in Nat, failures' \in Nat, failures' >= failures,
         View(c)' = View(c), PyView(c)' = PyView(c)
  PROVE  ThreadOK(c)'
<1>1. /\ pc'[c] = pc[c] /\ n_threads'[c] = n_threads[c] /\ work'[c] = work[c]
      /\ at'[c] = at[c] /\ args'[c] = args[c] /\ borrowed'[c] = borrowed[c]
      /\ outcome'[c] = outcome[c] /\ calls'[c] = calls[c]
  BY DEF View, PyView
<1>2. failures > 0 => failures' > 0
  OBVIOUS
<1>3. KernelOK(c)'
  BY <1>1 DEF ThreadOK, KernelOK
<1>4. Cause(c) => Cause(c)'
  BY CauseStays
<1>5. PanicOK(c)'
  BY <1>1, <1>4 DEF ThreadOK, PanicOK, TooWide
<1>6. OutcomeOK(c)'
  BY <1>1, <1>2 DEF ThreadOK, OutcomeOK
<1> QED
  BY <1>3, <1>5, <1>6 DEF ThreadOK

LEMMA FailuresCount == IInv => failures \in Nat
BY DriverAssumption DEF IInv, PoolInv, PoolType

\* Steps of Python alone: the kernels do not move.
LEMMA OnlyPython ==
  ASSUME PyInv, NEW c \in Callers, UNCHANGED vars,
         PyType', GilHeld', ThreadOK(c)',
         \A d \in Callers \ {c} : PyView(d)' = PyView(d)
  PROVE  PyInv'
<1>1. IInv'
  BY StutterInv DEF PyInv
<1>2. failures \in Nat /\ failures' = failures
  BY FailuresCount DEF PyInv, vars, process
<1>3. ASSUME NEW d \in Callers \ {c}
      PROVE  ThreadOK(d)'
  <2>1. View(d)' = View(d)
    BY DEF vars, output, View
  <2>2. ThreadOK(d)
    BY DEF PyInv
  <2> QED
    BY <1>2, <2>1, <2>2, ThreadStays
<1> QED
  BY <1>1, <1>3 DEF PyInv

LEMMA EnterInv ==
  ASSUME PyInv, NEW c \in Callers, NEW q \in Arguments, Enter(c, q)
  PROVE  PyInv'
<1>0. PyType /\ GilHeld /\ ThreadOK(c) /\ NoCaller \notin Callers
  BY DriverAssumption DEF PyInv
<1>1. /\ UNCHANGED vars /\ gil' = c /\ at'[c] = "binding" /\ args'[c] = q
      /\ borrowed'[c] = TRUE /\ outcome'[c] = "none"
      /\ at[c] = "python" /\ gil = NoCaller /\ calls[c] < MaxCalls
  BY <1>0 DEF Enter, PyType
<1>2. PyType'
  BY <1>0 DEF Enter, PyType, Outcomes
<1>3. \A d \in Callers \ {c} : at'[d] = at[d] /\ PyView(d)' = PyView(d)
  BY <1>0 DEF Enter, PyType, PyView, vars
<1>4. GilHeld'
  BY <1>0, <1>1, <1>3 DEF GilHeld
<1>5. ThreadOK(c)'
  <2>1. pc'[c] = pc[c] /\ calls'[c] = calls[c] /\ pc[c] \in Finished
    BY <1>0, <1>1 DEF vars, ThreadOK, KernelOK
  <2> QED
    BY <1>1, <2>1 DEF ThreadOK, KernelOK, PanicOK, OutcomeOK
<1> QED
  BY <1>1, <1>2, <1>3, <1>4, <1>5, OnlyPython

\* What a call that returns or raises leaves behind.
LEMMA LeaveFacts ==
  ASSUME PyType, GilHeld, NEW c \in Callers, NEW result \in Outcomes, at[c] \in {"binding", "attached"},
         Leave(c, result), args' = args
  PROVE  /\ PyType' /\ GilHeld'
         /\ at'[c] = "python" /\ borrowed'[c] = FALSE /\ outcome'[c] = result
         /\ \A d \in Callers \ {c} :
              at'[d] = at[d] /\ borrowed'[d] = borrowed[d] /\ outcome'[d] = outcome[d]
<1>1. PyType'
  BY DEF Leave, PyType
<1>2. at'[c] = "python" /\ borrowed'[c] = FALSE /\ outcome'[c] = result /\ gil' = NoCaller
  BY DEF Leave, PyType
<1>3. \A d \in Callers \ {c} :
        at'[d] = at[d] /\ borrowed'[d] = borrowed[d] /\ outcome'[d] = outcome[d]
  BY DEF Leave, PyType
<1>4. gil = c /\ \A d \in Callers : gil = d <=> at[d] \in {"binding", "attached"}
  BY DEF GilHeld
<1>5. \A d \in Callers : at'[d] \notin {"binding", "attached"}
  BY <1>2, <1>3, <1>4
<1>6. GilHeld'
  BY <1>2, <1>5, DriverAssumption DEF GilHeld
<1> QED
  BY <1>1, <1>2, <1>3, <1>6

\* The driver does not look at the number of calls refused.
LEMMA RefusedCall ==
  ASSUME IInv, calls' \in [Callers -> 0 .. MaxCalls],
         UNCHANGED <<process, pc, n_threads, work, pool, slices, blocks, row, output>>
  PROVE  IInv'
<1> USE DEF process, output
<1>1. PoolInv'
  BY DEF IInv, PoolInv, PoolType, MutexHeld, CallsAsk, PoolsDistinct, CallsHold, FailurePoisons
<1>2. CallerType'
  BY DEF IInv, CallerType
<1>3. ASSUME NEW d \in Callers
      PROVE  CallOK(d)'
  <2>1. CallOK(d)
    BY DEF IInv
  <2> QED
    BY <2>1 DEF CallOK, SlicesOK, SliceResult, OutputOK, Holds
<1> QED
  BY <1>1, <1>2, <1>3 DEF IInv

\* A flaw that is noticed is one, and no flawed call is accepted.
LEMMA NoticedFlaw ==
  ASSUME NEW q, NEW flaw, Noticed(q, flaw)
  PROVE  ~ Accepted(q) /\ flaw \in q.flaws
BY DEF Noticed, Accepted

LEMMA RefuseInv ==
  ASSUME PyInv, NEW c \in Callers, NEW e \in {"ValueError", "TypeError", "OverflowError"},
         NEW flaw, Noticed(args[c], flaw), e = "OverflowError" => flaw \in Extracted,
         Refuse(c, e)
  PROVE  PyInv'
<1>0. /\ IInv /\ PyType /\ GilHeld /\ ThreadOK(c) /\ e \in Outcomes
      /\ failures \in Nat /\ MaxCalls \in Nat
  BY FailuresCount, DriverAssumption DEF PyInv, Outcomes
<1>1. /\ at[c] = "binding" /\ Leave(c, e) /\ args' = args
      /\ UNCHANGED <<process, pc, n_threads, work, pool, slices, blocks, row, output>>
      /\ calls' = [calls EXCEPT ![c] = @ + 1]
  BY DEF Refuse
<1>2. /\ PyType' /\ GilHeld'
      /\ at'[c] = "python" /\ borrowed'[c] = FALSE /\ outcome'[c] = e
      /\ \A d \in Callers \ {c} :
           at'[d] = at[d] /\ borrowed'[d] = borrowed[d] /\ outcome'[d] = outcome[d]
  BY <1>0, <1>1, LeaveFacts
<1>3. calls \in [Callers -> 0 .. MaxCalls] /\ calls[c] < MaxCalls /\ pc[c] \in Finished
  BY <1>0, <1>1 DEF IInv, CallerType, ThreadOK, KernelOK
<1>4. calls' \in [Callers -> 0 .. MaxCalls] /\ \A d \in Callers \ {c} : calls'[d] = calls[d]
  BY <1>0, <1>1, <1>3
<1>5. IInv'
  BY <1>0, <1>1, <1>4, RefusedCall
<1>6. ThreadOK(c)'
  <2>1. ~ Accepted(args[c]) /\ (e = "OverflowError" => args[c].flaws \cap Extracted # {})
    BY NoticedFlaw
  <2> QED
    BY <1>0, <1>1, <1>2, <1>3, <2>1 DEF ThreadOK, KernelOK, PanicOK, OutcomeOK
<1>7. ASSUME NEW d \in Callers \ {c}
      PROVE  ThreadOK(d)'
  <2>1. View(d)' = View(d) /\ failures' = failures
    BY <1>1 DEF View, output, process
  <2>2. PyView(d)' = PyView(d)
    BY <1>1, <1>2, <1>4 DEF PyView
  <2>3. ThreadOK(d)
    BY DEF PyInv
  <2> QED
    BY <1>0, <2>1, <2>2, <2>3, ThreadStays
<1> QED
  BY <1>2, <1>5, <1>6, <1>7 DEF PyInv

LEMMA DetachInv ==
  ASSUME PyInv, NEW c \in Callers, NEW w \in Works, Detach(c, w)
  PROVE  PyInv'
<1> DEFINE n == KernelThreads(args[c])
<1>0. /\ IInv /\ PyType /\ GilHeld /\ ThreadOK(c) /\ PoolType /\ CallerType
      /\ failures \in Nat
  BY FailuresCount DEF PyInv, IInv, PoolInv
<1>1. /\ at[c] = "binding" /\ Accepted(args[c]) /\ Call(c, n, w) /\ gil' = NoCaller
      /\ at' = [at EXCEPT ![c] = "kernel"] /\ UNCHANGED <<args, held, borrowed, outcome>>
  BY DEF Detach
<1>2. n \in Requests \cup {1}
  BY <1>0, ArgumentsAssumption DEF PyType, KernelThreads
<1>3. IInv'
  BY <1>0, <1>1, <1>2, CallInv
<1>4. PyType'
  BY <1>0, <1>1 DEF PyType
<1>5. at'[c] = "kernel" /\ \A d \in Callers \ {c} : at'[d] = at[d]
  BY <1>0, <1>1 DEF PyType
<1>6. GilHeld'
  <2>1. \A d \in Callers : at'[d] \notin {"binding", "attached"}
    BY <1>0, <1>1, <1>5 DEF GilHeld
  <2> QED
    BY <1>1, <2>1, DriverAssumption DEF GilHeld
<1>7. ThreadOK(c)'
  <2>1. n_threads'[c] = n /\ pc'[c] \in {"lock", "rows"}
    BY <1>0, <1>1 DEF Call, Goto, PoolType
  <2>2. outcome'[c] = "none" /\ borrowed'[c] /\ args'[c] = args[c]
    BY <1>0, <1>1 DEF ThreadOK, KernelOK, OutcomeOK, PyType
  <2> QED
    BY <1>1, <1>5, <2>1, <2>2 DEF ThreadOK, KernelOK, PanicOK, OutcomeOK
<1>8. ASSUME NEW d \in Callers \ {c}
      PROVE  ThreadOK(d)'
  <2>1. View(d)' = View(d) /\ failures' = failures /\ calls'[d] = calls[d]
    BY <1>0, <1>1 DEF Call, Goto, PoolType, CallerType, View, process
  <2>2. PyView(d)' = PyView(d)
    BY <1>1, <1>5, <2>1 DEF PyView
  <2>3. ThreadOK(d)
    BY DEF PyInv
  <2> QED
    BY <1>0, <2>1, <2>2, <2>3, ThreadStays
<1> QED
  BY <1>3, <1>4, <1>6, <1>7, <1>8 DEF PyInv

LEMMA ZipTooWideInv ==
  ASSUME PyInv, NEW c \in Callers, ZipTooWide(c)
  PROVE  PyInv'
<1>0. /\ IInv /\ PyType /\ GilHeld /\ ThreadOK(c) /\ PoolType /\ failures \in Nat
  BY FailuresCount DEF PyInv, IInv, PoolInv
<1>1. /\ at[c] = "kernel" /\ pc[c] = "rows" /\ TooWide(c)
      /\ pc' = [pc EXCEPT ![c] = "panicked"]
      /\ UNCHANGED <<process, n_threads, work, pool, slices, blocks, row, output, calls, python>>
  BY DEF ZipTooWide, Goto
<1>2. PoolInv'
  <2>1. UNCHANGED <<lock, poisoned, pools, built, failures, n_threads, pool>> /\ PoolInv
    BY <1>0, <1>1 DEF process, IInv
  <2> QED
    BY <1>1, <2>1, Elsewhere DEF Labels, Finished, Asking
<1>3. CallersInv'
  <2>1. UNCHANGED <<n_threads, work, slices, blocks, row, indptr, indices, calls>>
    BY <1>1 DEF output
  <2> QED
    BY <1>0, <1>1, <2>1, Moves DEF Labels, Finished
<1>4. PyType' /\ GilHeld'
  BY <1>0, <1>1 DEF PyType, GilHeld, python
<1>5. ThreadOK(c)'
  <2>1. pc'[c] = "panicked"
    BY <1>0, <1>1 DEF PoolType
  <2>2. TooWide(c)'
    BY <1>1 DEF TooWide, python
  <2>3. failures' = failures /\ n_threads' = n_threads
    BY <1>1 DEF process
  <2> QED
    BY <1>0, <1>1, <2>1, <2>2, <2>3 DEF ThreadOK, KernelOK, PanicOK, OutcomeOK, python, Finished
<1>6. ASSUME NEW d \in Callers \ {c}
      PROVE  ThreadOK(d)'
  <2>1. View(d)' = View(d) /\ failures' = failures /\ PyView(d)' = PyView(d)
    BY <1>0, <1>1 DEF PoolType, View, PyView, process, output, python
  <2>2. ThreadOK(d)
    BY DEF PyInv
  <2> QED
    BY <1>0, <2>1, <2>2, ThreadStays
<1> QED
  BY <1>2, <1>3, <1>4, <1>5, <1>6 DEF PyInv, IInv, CallersInv

LEMMA KernelInv ==
  ASSUME PyInv, NEW c \in Callers, Kernel(c)
  PROVE  PyInv'
<1>0. IInv /\ PyType /\ GilHeld /\ ThreadOK(c) /\ PoolType
  BY DEF PyInv, IInv, PoolInv
<1>1. at[c] = "kernel" /\ Step(c) /\ UNCHANGED python
  BY DEF Kernel
<1>2. /\ \A d \in Callers \ {c} : View(d)' = View(d)
      /\ failures' \in Nat /\ failures' >= failures /\ failures \in Nat
      /\ n_threads' = n_threads /\ work' = work /\ calls' = calls /\ pc[c] \notin Finished
  BY <1>0, <1>1, StepsApart
<1>3. IInv'
  BY <1>0, <1>1, StepInv
<1>4. PyType' /\ GilHeld'
  BY <1>0, <1>1 DEF PyType, GilHeld, python
<1>5. ThreadOK(c)'
  <2>1. pc'[c] = "panicked" => Cause(c)'
    BY <1>0, <1>1, PanicHasCause
  <2>2. pc'[c] # "idle"
    BY <1>0, <1>1, StepsApart
  <2> QED
    BY <1>0, <1>1, <1>2, <2>1, <2>2 DEF ThreadOK, KernelOK, PanicOK, OutcomeOK, python
<1>6. ASSUME NEW d \in Callers \ {c}
      PROVE  ThreadOK(d)'
  <2>1. PyView(d)' = PyView(d)
    BY <1>1, <1>2 DEF PyView, python
  <2>2. ThreadOK(d)
    BY DEF PyInv
  <2> QED
    BY <1>2, <2>1, <2>2, ThreadStays
<1> QED
  BY <1>3, <1>4, <1>5, <1>6 DEF PyInv

LEMMA WorkInv ==
  ASSUME PyInv, NEW c \in Callers, PyWorker(c)
  PROVE  PyInv'
<1>0. IInv /\ PyType /\ GilHeld /\ PoolType /\ CallerType /\ failures \in Nat
  BY FailuresCount DEF PyInv, IInv, PoolInv
<1>1. UNCHANGED python /\ \E k \in DOMAIN slices[c] : Begin(c, k) \/ End(c, k)
  BY DEF PyWorker, Worker
<1>2. PICK k \in DOMAIN slices[c] : Begin(c, k) \/ End(c, k)
  BY <1>1
<1>3. IInv'
  BY <1>0, <1>2, WorkerInv
<1>4. PyType' /\ GilHeld'
  BY <1>0, <1>1 DEF PyType, GilHeld, python
<1>5. /\ UNCHANGED <<process, pc, n_threads, work, row, output, calls>> /\ pc[c] = "running"
      /\ \A d \in Callers \ {c} : slices'[d] = slices[d] /\ blocks'[d] = blocks[d]
  BY <1>0, <1>2 DEF Begin, End, CallerType
<1>6. ASSUME NEW d \in Callers
      PROVE  ThreadOK(d)'
  <2>1. PyView(d)' = PyView(d) /\ failures' = failures /\ ThreadOK(d)
    BY <1>1, <1>5 DEF PyView, python, process, PyInv
  <2>2. CASE d = c
    BY <1>1, <1>5, <2>1, <2>2 DEF ThreadOK, KernelOK, PanicOK, OutcomeOK, python, process
  <2>3. CASE d # c
    <3>1. View(d)' = View(d)
      BY <1>5, <2>3 DEF View, output
    <3> QED
      BY <1>0, <2>1, <3>1, ThreadStays
  <2> QED
    BY <2>2, <2>3
<1> QED
  BY <1>3, <1>4, <1>6 DEF PyInv

LEMMA AttachInv ==
  ASSUME PyInv, NEW c \in Callers, Attach(c)
  PROVE  PyInv'
<1>0. PyType /\ GilHeld /\ ThreadOK(c) /\ NoCaller \notin Callers /\ failures \in Nat
  BY FailuresCount, DriverAssumption DEF PyInv
<1>1. /\ UNCHANGED <<vars, args, held, borrowed, outcome>> /\ gil' = c /\ gil = NoCaller
      /\ at' = [at EXCEPT ![c] = "attached"] /\ at[c] = "kernel" /\ pc[c] \in Finished
  BY DEF Attach
<1>2. PyType'
  BY <1>0, <1>1 DEF PyType
<1>3. at'[c] = "attached" /\ \A d \in Callers \ {c} : at'[d] = at[d]
  BY <1>0, <1>1 DEF PyType
<1>4. \A d \in Callers \ {c} : PyView(d)' = PyView(d)
  BY <1>1, <1>3 DEF PyView, vars
<1>5. GilHeld'
  BY <1>0, <1>1, <1>3 DEF GilHeld
<1>6. ThreadOK(c)'
  <2>1. View(c)' = View(c) /\ failures' = failures
    BY <1>1 DEF View, vars, output, process
  <2>2. Cause(c) => Cause(c)'
    BY <1>0, <2>1, CauseStays
  <2> QED
    BY <1>0, <1>1, <1>3, <2>2 DEF ThreadOK, KernelOK, PanicOK, OutcomeOK, TooWide, vars, process
<1> QED
  BY <1>1, <1>2, <1>4, <1>5, <1>6, OnlyPython

LEMMA ConvertInv ==
  ASSUME PyInv, NEW c \in Callers, Convert(c)
  PROVE  PyInv'
<1> DEFINE w == work[c]
           fits == Narrows(Len(indices[c])) /\ FitsColumns(args[c].ncols)
           result == IF fits THEN "result" ELSE "OverflowError"
<1>0. IInv /\ PyType /\ GilHeld /\ ThreadOK(c) /\ w \in Works /\ result \in Outcomes
  BY DEF PyInv, IInv, CallerType, Outcomes
<1>1. at[c] = "attached" /\ pc[c] = "ok" /\ Leave(c, result) /\ UNCHANGED <<vars, args>>
  BY DEF Convert
<1>2. /\ PyType' /\ GilHeld'
      /\ at'[c] = "python" /\ borrowed'[c] = FALSE /\ outcome'[c] = result
      /\ \A d \in Callers \ {c} :
           at'[d] = at[d] /\ borrowed'[d] = borrowed[d] /\ outcome'[d] = outcome[d]
  BY <1>0, <1>1, LeaveFacts
<1>3. \A d \in Callers \ {c} : PyView(d)' = PyView(d)
  BY <1>1, <1>2 DEF PyView, vars
<1>4. NoPanic(w, NRows) /\ indices[c] = Rows(w, NRows)
  BY <1>0, <1>1 DEF IInv, CallOK, OutputOK, Holds
<1>5. ~ PanickingRow(w) /\ (Overflows(w) <=> ~ Narrows(Len(indices[c])))
  BY <1>0, <1>4, PanickingRowIs, WholeOverflows
<1>6. OutcomeOK(c)'
  <2>1. work'[c] = w /\ args'[c] = args[c]
    BY <1>1 DEF vars
  <2> QED
    BY <1>0, <1>1, <1>2, <1>5, <2>1 DEF OutcomeOK, Wide, ThreadOK, KernelOK
<1>7. KernelOK(c)' /\ PanicOK(c)'
  BY <1>1, <1>2 DEF KernelOK, PanicOK, Finished, vars
<1>8. ThreadOK(c)'
  BY <1>6, <1>7 DEF ThreadOK
<1> QED
  BY <1>1, <1>2, <1>3, <1>8, OnlyPython

LEMMA RaiseInv ==
  ASSUME PyInv, NEW c \in Callers, Raise(c)
  PROVE  PyInv'
<1> DEFINE w == work[c]
<1>0. IInv /\ PyType /\ GilHeld /\ ThreadOK(c) /\ w \in Works /\ Exception(c) \in Outcomes
  BY DEF PyInv, IInv, CallerType, Outcomes, Exception
<1>1. at[c] = "attached" /\ pc[c] = "panicked" /\ Leave(c, Exception(c)) /\ UNCHANGED <<vars, args>>
  BY DEF Raise
<1>2. /\ PyType' /\ GilHeld'
      /\ at'[c] = "python" /\ borrowed'[c] = FALSE /\ outcome'[c] = Exception(c)
      /\ \A d \in Callers \ {c} :
           at'[d] = at[d] /\ borrowed'[d] = borrowed[d] /\ outcome'[d] = outcome[d]
  BY <1>0, <1>1, LeaveFacts
<1>3. \A d \in Callers \ {c} : PyView(d)' = PyView(d)
  BY <1>1, <1>2 DEF PyView, vars
<1>4. Cause(c) \/ TooWide(c)
  BY <1>0, <1>1 DEF ThreadOK, PanicOK
<1>5. Marked(c) <=> TooWide(c) \/ Overrun(c)
  BY DEF Marked, TooWide, Overrun
<1>6. CASE Marked(c)
  <2>1. Overflows(w) \/ Wide(args[c])
    BY <1>4, <1>5, <1>6, OverflowsIsTooLong DEF Cause, TooWide, Wide
  <2>2. outcome'[c] = "OverflowError" /\ work'[c] = w /\ args'[c] = args[c]
    BY <1>1, <1>2, <1>6 DEF Exception, vars
  <2>3. OutcomeOK(c)'
    BY <1>0, <1>1, <1>2, <2>1, <2>2 DEF OutcomeOK, ThreadOK, KernelOK
  <2>4. ThreadOK(c)'
    BY <1>1, <1>2, <2>3 DEF ThreadOK, KernelOK, PanicOK, Finished, vars
  <2> QED
    BY <1>1, <1>2, <1>3, <2>4, OnlyPython
<1>7. CASE ~ Marked(c)
  <2>1. PanickingRow(w) \/ (KernelThreads(args[c]) > 1 /\ failures > 0)
    BY <1>0, <1>1, <1>4, <1>5, <1>7, PanickingRowIs DEF Cause, ThreadOK, KernelOK
  <2>2. /\ outcome'[c] = "PanicException" /\ work'[c] = w /\ args'[c] = args[c]
        /\ failures' = failures
    BY <1>1, <1>2, <1>7 DEF Exception, vars, process
  <2>3. OutcomeOK(c)'
    BY <1>0, <1>1, <1>2, <2>1, <2>2 DEF OutcomeOK, ThreadOK, KernelOK
  <2>4. ThreadOK(c)'
    BY <1>1, <1>2, <2>3 DEF ThreadOK, KernelOK, PanicOK, Finished, vars
  <2> QED
    BY <1>1, <1>2, <1>3, <2>4, OnlyPython
<1> QED
  BY <1>6, <1>7

LEMMA ForgetInv ==
  ASSUME PyInv, NEW c \in Callers, NEW d \in Callers, Forget(d, c)
  PROVE  PyInv'
<1>0. PyType /\ GilHeld /\ ThreadOK(c) /\ failures \in Nat
  BY FailuresCount DEF PyInv
<1>1. /\ UNCHANGED <<vars, gil, at, args, borrowed, outcome>>
      /\ held' = [held EXCEPT ![c] = FALSE]
  BY DEF Forget
<1>2. PyType' /\ GilHeld'
  BY <1>0, <1>1 DEF PyType, GilHeld
<1>3. \A e \in Callers : PyView(e)' = PyView(e) /\ View(e)' = View(e)
  BY <1>1 DEF PyView, View, vars, output
<1>4. ThreadOK(c)'
  <2>1. failures' = failures
    BY <1>1 DEF vars, process
  <2> QED
    BY <1>0, <1>3, <2>1, ThreadStays
<1> QED
  BY <1>1, <1>2, <1>3, <1>4, OnlyPython

LEMMA PyNextInv == PyInv /\ [PyNext]_pyVars => PyInv'
<1> SUFFICES ASSUME PyInv, [PyNext]_pyVars PROVE PyInv'
  OBVIOUS
<1>1. ASSUME NEW c \in Callers, PyStep(c)
      PROVE  PyInv'
  <2>1. CASE RefuseNumber(c) \/ RefuseKind(c) \/ RefuseLength(c)
    BY <2>1, RefuseInv DEF RefuseNumber, RefuseKind, RefuseLength
  <2>2. CASE \E w \in Works : Detach(c, w)
    BY <2>2, DetachInv
  <2>3. CASE ZipTooWide(c) \/ Kernel(c)
    BY <2>3, ZipTooWideInv, KernelInv
  <2>4. CASE Convert(c) \/ Raise(c)
    BY <2>4, ConvertInv, RaiseInv
  <2> QED
    BY <1>1, <2>1, <2>2, <2>3, <2>4 DEF PyStep
<1>2. CASE PyNext
  BY <1>1, <1>2, EnterInv, AttachInv, WorkInv, ForgetInv DEF PyNext
<1>3. CASE UNCHANGED pyVars
  <2>1. IInv'
    BY <1>3, StutterInv DEF PyInv, pyVars
  <2>2. PyType' /\ GilHeld'
    BY <1>3 DEF PyInv, pyVars, python, PyType, GilHeld
  <2>3. ASSUME NEW c \in Callers
        PROVE  ThreadOK(c)'
    <3>1. View(c)' = View(c) /\ PyView(c)' = PyView(c) /\ failures' = failures
      BY <1>3 DEF pyVars, vars, python, output, process, View, PyView
    <3>2. failures \in Nat /\ ThreadOK(c)
      BY FailuresCount DEF PyInv
    <3> QED
      BY <3>1, <3>2, ThreadStays
  <2> QED
    BY <2>1, <2>2, <2>3 DEF PyInv
<1> QED
  BY <1>2, <1>3

\* The GIL is held exactly while a thread is in a binding and outside its kernel,
\* and every panic under way has its cause.
THEOREM PyInvariant == PySpec => []PyInv
BY PyInitInv, PyNextInv, PTL DEF PySpec

\* Every variable of the bindings and of the kernels below them keeps its type;
\* the GIL has its holder.
THEOREM PyTypes == PySpec => []PyTypeOK
<1>1. PyInv => PyTypeOK
  BY InvTypes DEF PyInv, PyTypeOK, PyType, GilHeld
<1> QED
  BY <1>1, PyInvariant, PTL

\* Python gets a result, OverflowError or PanicException for the reason that each
\* stands for, whatever is wrong with the arguments, the threshold included, and
\* whatever other threads do to the shared cache of pools.
THEOREM ExceptionsNameTheirCause == PySpec => []ExceptionNamesCause
<1>1. PyInv => ExceptionNamesCause
  BY DEF PyInv, ThreadOK, OutcomeOK, ExceptionNamesCause, Wide
<1> QED
  BY <1>1, PyInvariant, PTL

\* A kernel's arrays are alive while it reads them (borrow_csr_view).
THEOREM BuffersStayAlive == PySpec => []BuffersLive
<1>1. PyInv => BuffersLive
  BY DEF PyInv, ThreadOK, KernelOK, BuffersLive
<1> QED
  BY <1>1, PyInvariant, PTL

\* The driver's results hold below the bindings, where zip and the plain product
\* call it and refused calls do not.
THEOREM DriverBelowPython == PySpec => [](OutputIsRowMajor /\ OnePoolPerCount)
<1>1. PyInv => OutputIsRowMajor /\ OnePoolPerCount
  BY InvRowMajor, InvOnePool DEF PyInv
<1> QED
  BY <1>1, PyInvariant, PTL
=============================================================================
