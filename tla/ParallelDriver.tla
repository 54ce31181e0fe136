---------------------------- MODULE ParallelDriver ----------------------------
(***************************************************************************)
(* Calls of sp_matmul_topn from several threads of one process             *)
(* (src/src/matmul_topn.rs, src/src/parallel.rs).  A call that asks for    *)
(* more than one thread takes a pool from the process-wide cache POOLS,    *)
(* runs its row slices there, in any order and beside the slices of other  *)
(* calls, and concatenates their results; any other call runs the rows one *)
(* after the other (chunked::run).                                         *)
(*                                                                         *)
(* A row's outcome is the number of entries it emits, or Panics (a product *)
(* of integers overflows where overflow checks are on); what the entries   *)
(* are is RowKernel's subject.  The rayon pool and the standard mutex are  *)
(* external: a pool of n threads runs at most n slices, once each, after a *)
(* panic it may drop the slices not yet begun, and collect keeps order.    *)
(***************************************************************************)
EXTENDS Integers, Sequences, FiniteSets, SequencesExt

CONSTANTS
  Callers,     \* threads of the process that call the library
  Requests,    \* values of opts.n_threads; None is 1
  NRows,       \* rows of A
  Works,       \* functions from the rows of A to their outcomes
  Panics,      \* outcome of a row that panics
  HINT,        \* ROW_BLOCK_HINT
  IndexMax,    \* I::max_usize
  MaxCalls,    \* bound: calls each caller makes
  MaxFailures, \* bound: pools that fail to build
  NoCaller

ASSUME DriverAssumption ==
  /\ Requests \subseteq Nat
  /\ NRows \in Nat \ {0} /\ HINT \in Nat \ {0}
  /\ IndexMax \in Nat /\ MaxCalls \in Nat /\ MaxFailures \in Nat
  /\ Panics \notin Nat
  /\ Works \subseteq [0 .. NRows - 1 -> Nat \cup {Panics}] /\ Works # {}
  /\ NoCaller \notin Callers

VARIABLES
  \* the process
  lock,      \* holder of the mutex around POOLS
  poisoned,  \* a holder has panicked
  pools,     \* POOLS: for each thread count, its pool; 0 when not built
  built,     \* pools built so far: the last pool handed out
  failures,  \* history: builds that failed
  \* each caller
  pc, n_threads, work,
  pool,      \* the pool pool_for returned
  slices,    \* state of each row slice
  blocks,    \* the RowBlock of each slice that is done
  row,       \* next row of the sequential loop
  indptr, indices,
  calls

process == <<lock, poisoned, pools, built, failures>>
output == <<indptr, indices>>
vars == <<process, pc, n_threads, work, pool, slices, blocks, row, output, calls>>

Finished == {"idle", "ok", "panicked"}

-----------------------------------------------------------------------------
(* partition_rows *)

CeilDiv(x, y) == (x + y - 1) \div y
AtLeast(x, y) == IF x < y THEN y ELSE x

BlockSize(n) == AtLeast(CeilDiv(NRows, AtLeast(4 * n, 1)), HINT)
Slices(n) == 0 .. CeilDiv(NRows, BlockSize(n)) - 1
Lo(n, k) == k * BlockSize(n)
Hi(n, k) == IF Lo(n, k) + BlockSize(n) < NRows THEN Lo(n, k) + BlockSize(n) ELSE NRows

-----------------------------------------------------------------------------

\* Row r emits its outcome's number of entries; each is named for the row.
Entries(w, r) == [e \in 1 .. w[r] |-> r]

\* Mutant: rows without entries are not recorded.
RowBlockSkipsEmptyRows(w, lo, hi) ==
  [row_lo |-> lo,
   row_nset |-> SelectSeq([p \in 1 .. hi - lo |-> w[lo + p - 1]], LAMBDA n : n # 0),
   indices |-> FlattenSeq([p \in 1 .. hi - lo |-> Entries(w, lo + p - 1)])]

\* run_row_slice without a panic.
RowBlock(w, lo, hi) ==
  [row_lo |-> lo,
   row_nset |-> [p \in 1 .. hi - lo |-> w[lo + p - 1]],
   indices |-> FlattenSeq([p \in 1 .. hi - lo |-> Entries(w, lo + p - 1)])]

InRowOrder(S) ==
  CHOOSE f \in SetToSeqs(S) : \A p, q \in DOMAIN f : p < q => f[p].row_lo <= f[q].row_lo

PrefixSums(nset) ==
  LET running[p \in 0 .. Len(nset)] ==
        IF p = 0 THEN 0 ELSE running[p - 1] + nset[p]
  IN  <<0>> \o [p \in 1 .. Len(nset) |-> running[p]]

\* Mutant: one more than the bound fits.
NarrowsOnePast(offset) == offset <= IndexMax + 1

\* narrow_indptr panics on an offset the index type cannot hold.
Narrows(offset) == offset <= IndexMax

-----------------------------------------------------------------------------

Init ==
  /\ lock = NoCaller /\ poisoned = FALSE
  /\ pools = [n \in Requests |-> 0] /\ built = 0 /\ failures = 0
  /\ pc = [c \in Callers |-> "idle"]
  /\ n_threads = [c \in Callers |-> 1]
  /\ work = [c \in Callers |-> CHOOSE w \in Works : TRUE]
  /\ pool = [c \in Callers |-> 0]
  /\ slices = [c \in Callers |-> <<>>]
  /\ blocks = [c \in Callers |-> <<>>]
  /\ row = [c \in Callers |-> 0]
  /\ indptr = [c \in Callers |-> <<0>>]
  /\ indices = [c \in Callers |-> <<>>]
  /\ calls = [c \in Callers |-> 0]

Goto(c, label) == pc' = [pc EXCEPT ![c] = label]

\* sp_matmul_topn: maybe_parallel takes the call, or the sequential driver.
Call(c, n, w) ==
  /\ pc[c] \in Finished
  /\ calls[c] < MaxCalls
  /\ calls' = [calls EXCEPT ![c] = @ + 1]
  /\ n_threads' = [n_threads EXCEPT ![c] = n]
  /\ work' = [work EXCEPT ![c] = w]
  /\ pool' = [pool EXCEPT ![c] = 0]
  /\ slices' = [slices EXCEPT ![c] = <<>>]
  /\ blocks' = [blocks EXCEPT ![c] = <<>>]
  /\ row' = [row EXCEPT ![c] = 0]
  /\ indptr' = [indptr EXCEPT ![c] = <<0>>]
  /\ indices' = [indices EXCEPT ![c] = <<>>]
  /\ Goto(c, IF n > 1 THEN "lock" ELSE "rows")
  /\ UNCHANGED process

\* The sequential loop: a row, then its entry of indptr.
Row(c) ==
  /\ pc[c] = "rows" /\ row[c] < NRows
  /\ work[c][row[c]] # Panics
  /\ LET nnz_total == Len(indices[c]) + work[c][row[c]] IN
       /\ indices' = [indices EXCEPT ![c] = @ \o Entries(work[c], row[c])]
       /\ IF Narrows(nnz_total)
          THEN indptr' = [indptr EXCEPT ![c] = Append(@, nnz_total)] /\ pc' = pc
          ELSE Goto(c, "panicked") /\ UNCHANGED indptr
  /\ row' = [row EXCEPT ![c] = @ + 1]
  /\ UNCHANGED <<process, n_threads, work, pool, slices, blocks, calls>>

RowPanics(c) ==
  /\ pc[c] = "rows" /\ row[c] < NRows
  /\ work[c][row[c]] = Panics
  /\ Goto(c, "panicked")
  /\ UNCHANGED <<process, n_threads, work, pool, slices, blocks, row, output, calls>>

LastRow(c) ==
  /\ pc[c] = "rows" /\ row[c] = NRows
  /\ Goto(c, "ok")
  /\ UNCHANGED <<process, n_threads, work, pool, slices, blocks, row, output, calls>>

\* Mutant: the cache is read without its mutex.
LookupWithoutLock(c) ==
  /\ pc[c] = "lock"
  /\ Goto(c, "entry") /\ UNCHANGED lock
  /\ UNCHANGED <<poisoned, pools, built, failures, n_threads, work, pool, slices,
                 blocks, row, output, calls>>

\* pool_for: a poisoned mutex panics, after it has been acquired.
Lock(c) ==
  /\ pc[c] = "lock" /\ lock = NoCaller
  /\ IF poisoned THEN Goto(c, "panicked") /\ UNCHANGED lock
                 ELSE Goto(c, "entry") /\ lock' = c
  /\ UNCHANGED <<poisoned, pools, built, failures, n_threads, work, pool, slices,
                 blocks, row, output, calls>>

\* The cached pool, if there is one; the mutex is released.
Lookup(c) ==
  /\ pc[c] = "entry"
  /\ IF pools[n_threads[c]] = 0
     THEN Goto(c, "build") /\ UNCHANGED <<lock, pool>>
     ELSE /\ pool' = [pool EXCEPT ![c] = pools[n_threads[c]]]
          /\ lock' = NoCaller
          /\ Goto(c, "install")
  /\ UNCHANGED <<poisoned, pools, built, failures, n_threads, work, slices, blocks,
                 row, output, calls>>

\* A new pool enters the cache; the mutex is released.
Build(c) ==
  /\ pc[c] = "build"
  /\ built' = built + 1
  /\ pools' = [pools EXCEPT ![n_threads[c]] = built']
  /\ pool' = [pool EXCEPT ![c] = built']
  /\ lock' = NoCaller
  /\ Goto(c, "install")
  /\ UNCHANGED <<poisoned, failures, n_threads, work, slices, blocks, row, output, calls>>

\* Mutant: the panic leaves the mutex locked.
BuildFailsLocked(c) ==
  /\ pc[c] = "build" /\ failures < MaxFailures
  /\ failures' = failures + 1
  /\ Goto(c, "panicked")
  /\ UNCHANGED <<lock, poisoned, pools, built, n_threads, work, pool, slices, blocks,
                 row, output, calls>>

\* The threads cannot be spawned: the panic unwinds through the guard, which
\* poisons and releases the mutex.
BuildFails(c) ==
  /\ pc[c] = "build" /\ failures < MaxFailures
  /\ failures' = failures + 1
  /\ poisoned' = TRUE
  /\ lock' = NoCaller
  /\ Goto(c, "panicked")
  /\ UNCHANGED <<pools, built, n_threads, work, pool, slices, blocks, row, output, calls>>

Install(c) ==
  /\ pc[c] = "install"
  /\ slices' = [slices EXCEPT ![c] = [k \in Slices(n_threads[c]) |-> "todo"]]
  /\ blocks' = [blocks EXCEPT ![c] = [k \in {} |-> <<>>]]
  /\ Goto(c, "running")
  /\ UNCHANGED <<process, n_threads, work, pool, row, output, calls>>

In(c, state) == {k \in DOMAIN slices[c] : slices[c][k] = state}

\* Slices of any caller running on pool p.
OnPool(p) == UNION {{c} \X In(c, "running") : c \in {d \in Callers : pool[d] = p}}

\* A worker of the pool takes a slice of the caller.
Begin(c, k) ==
  /\ pc[c] = "running" /\ k \in In(c, "todo")
  /\ Cardinality(OnPool(pool[c])) < n_threads[c]
  /\ slices' = [slices EXCEPT ![c][k] = "running"]
  /\ UNCHANGED <<process, pc, n_threads, work, pool, blocks, row, output, calls>>

\* run_row_slice returns its block or unwinds.
End(c, k) ==
  /\ pc[c] = "running" /\ k \in In(c, "running")
  /\ LET lo == Lo(n_threads[c], k)
         hi == Hi(n_threads[c], k)
     IN  IF \E r \in lo .. hi - 1 : work[c][r] = Panics
         THEN slices' = [slices EXCEPT ![c][k] = "panicked"] /\ UNCHANGED blocks
         ELSE /\ slices' = [slices EXCEPT ![c][k] = "done"]
              /\ blocks' = [blocks EXCEPT ![c] =
                   [j \in DOMAIN @ \cup {k} |->
                      IF j = k THEN RowBlock(work[c], lo, hi) ELSE @[j]]]
  /\ UNCHANGED <<process, pc, n_threads, work, pool, row, output, calls>>

\* install propagates a panic once no slice of the call is running.
Unwind(c) ==
  /\ pc[c] = "running"
  /\ In(c, "panicked") # {} /\ In(c, "running") = {}
  /\ Goto(c, "panicked")
  /\ UNCHANGED <<process, n_threads, work, pool, slices, blocks, row, output, calls>>

\* build_csr_from_blocks: sort by first row, prefix-sum, concatenate.
BuildCsr(c) ==
  /\ pc[c] = "running"
  /\ \A k \in DOMAIN slices[c] : slices[c][k] = "done"
  /\ LET sorted == InRowOrder({blocks[c][k] : k \in DOMAIN blocks[c]})
         sums == PrefixSums(FlattenSeq([p \in DOMAIN sorted |-> sorted[p].row_nset]))
     IN  IF \A p \in DOMAIN sums : Narrows(sums[p])
         THEN /\ indptr' = [indptr EXCEPT ![c] = sums]
              /\ indices' = [indices EXCEPT ![c] =
                   FlattenSeq([p \in DOMAIN sorted |-> sorted[p].indices])]
              /\ Goto(c, "ok")
         ELSE Goto(c, "panicked") /\ UNCHANGED output
  /\ UNCHANGED <<process, n_threads, work, pool, slices, blocks, row, calls>>

Step(c) ==
  \/ Row(c) \/ RowPanics(c) \/ LastRow(c)
  \/ Lock(c) \/ Lookup(c) \/ Build(c) \/ BuildFails(c) \/ Install(c)
  \/ Unwind(c) \/ BuildCsr(c)

Worker(c) == \E k \in DOMAIN slices[c] : Begin(c, k) \/ End(c, k)

Next ==
  \/ \E c \in Callers, n \in Requests, w \in Works : Call(c, n, w)
  \/ \E c \in Callers : Step(c)
  \/ \E c \in Callers : \E k \in DOMAIN slices[c] : Begin(c, k)
  \/ \E c \in Callers : \E k \in DOMAIN slices[c] : End(c, k)

Spec == Init /\ [][Next]_vars

-----------------------------------------------------------------------------
(* Properties *)

TypeOK ==
  /\ lock \in Callers \cup {NoCaller} /\ poisoned \in BOOLEAN
  /\ pools \in [Requests -> Nat] /\ built \in Nat /\ failures \in 0 .. MaxFailures
  /\ pc \in [Callers -> Finished \cup
               {"rows", "lock", "entry", "build", "install", "running"}]
  /\ n_threads \in [Callers -> Requests \cup {1}]
  /\ work \in [Callers -> Works]
  /\ pool \in [Callers -> 0 .. built]
  /\ \A c \in Callers :
       /\ \A k \in DOMAIN slices[c] :
            slices[c][k] \in {"todo", "running", "done", "panicked"}
       /\ DOMAIN blocks[c] \subseteq DOMAIN slices[c]
       /\ indptr[c] \in Seq(0 .. IndexMax) /\ Len(indptr[c]) <= NRows + 1
       /\ indices[c] \in Seq(0 .. NRows - 1)
  /\ row \in [Callers -> 0 .. NRows]
  /\ calls \in [Callers -> 0 .. MaxCalls]

\* A call that succeeds returns every row's entries at that row's offsets, in
\* row order, whatever the slicing and the order in which workers finish
\* (threading invariance, parallel.rs:14-17).
OutputIsRowMajor ==
  \A c \in Callers : pc[c] = "ok" =>
    /\ Len(indptr[c]) = NRows + 1
    /\ indptr[c][1] = 0 /\ indptr[c][NRows + 1] = Len(indices[c])
    /\ \A r \in 0 .. NRows - 1 :
         /\ indptr[c][r + 2] - indptr[c][r + 1] = work[c][r]
         /\ \A e \in indptr[c][r + 1] + 1 .. indptr[c][r + 2] : indices[c][e] = r

\* Pools are shared by exactly the calls that ask for the same thread count,
\* also when they ask for the first time and together (pool_for).
OnePoolPerCount ==
  \A c, d \in Callers : pool[c] # 0 /\ pool[d] # 0 =>
    (pool[c] = pool[d] <=> n_threads[c] = n_threads[d])
=============================================================================
