# sp_matmul_rs in TLA+

A TLA+ model of `sp_matmul_rs` (sparse CSR × CSR multiplication that keeps the
`top_n` largest entries of each row), the TLC runs that check it and the TLAPS
proofs about it.  Paths are relative to the repository root, which is mounted at
`src/` (so `src/src/chunked.rs` is the crate's `src/chunked.rs`).

## 1. The system

| Part | Source | State it keeps | Operations |
|---|---|---|---|
| Bounded top-n heap | `src/src/maxheap.rs` | array of scores, `n_set`, `init` | `new`, `reset`, `push_pop`, two sorts, `entries` |
| Row kernel | `src/src/chunked.rs` (`run`, `process_row`) | `sums`, `next`, heap, cursors, reused by all rows of a slice; per chunk `head`, `length`, `chunk_max`, `min` | seed cursors, scatter (linked / dense), drain (linked / dense), emit |
| Block kernel | `src/src/chunked.rs` (`process_row_block`, `run_blocked`) | one `sums`/`next`, a heap and threshold per row of the block | the same, chunk-major |
| Tiled B | `src/src/tiled.rs` | `seg_ptr`, `idx`, `data` | `build` (counting sort), `segment` |
| Parallel driver | `src/src/parallel.rs` | `POOLS` (mutex, cache of pools); per call the slices and their `RowBlock`s | `pool_for`, `run_row_slice`, `build_csr_from_blocks` |
| Entry point | `src/src/matmul_topn.rs` | none | short-circuits, `maybe_parallel`, fast path to `sp_matmul` |
| Plain product | `src/src/matmul.rs` | `mask`, `sums`, `next` | size pass, fill pass |
| Zip | `src/src/zip.rs` | heap | merge partial top-n results |
| CSR, index, scalar types | `src/src/csr.rs`, `index.rs`, `scalar.rs` | none | `narrow_indptr`, `check_index_capacity`, `mul_add` |
| Cache-size detection | `src/src/chunked.rs` (`default_chunk_cols`) | none | the default chunk width |
| SIMD dispatch | `src/src/simd.rs`, `chunked.rs` (`process_row`, `process_row_block`) | one atomic | detect lazily, override in tests, choose the clone of each row or block |
| Python bindings | `src/src/python.rs`, `src/src/python/` | references to numpy arrays, the GIL | dispatch on dtypes, borrow, release the GIL, call, map panics, check the result |
| Python API | `src/python/sp_matmul_rs` | none | normalise arguments, convert and orient the factors, fast paths |

How they interact.  The Python API normalises arguments and calls the binding,
which borrows the numpy buffers, releases the GIL and calls
`sp_matmul_topn`.  That either takes the fast path to `sp_matmul`, runs the
rows sequentially (`run`, or `run_blocked` with a tiled B), or, for
`n_threads > 1`, takes a rayon pool from the process-wide cache and runs
contiguous slices of rows there, each slice with scratch of its own.  Every
kernel feeds each row's sums to a `MaxHeap`, guarded by the running threshold
the heap returned last.

What is hard to test.  The scratch outlives chunks and rows and is cleared by
whoever used it last; the linked list and the dense scan leave different
traces.  Three shortcuts (whole-chunk skip, group skip, running threshold) are
correct only while a cached value still bounds the live one.  Cursors carry a
position across chunks.  Calls of several threads share the pool cache, its
mutex and the pools; a panic can come from a row, a pool that cannot be built,
or the index type.  `PROJECT.json` lists each hazard at its line with the
properties that cover it.

What makes each part correct:

* heap: `push_pop` evicts a smallest entry and returns the new smallest; what it
  holds is a top-n of what it was offered; `entries` shows exactly that;
* row kernel: a row's output is a top-n of its exact dot products, whatever the
  chunk width, projection, accumulator and the rows before it;
* block kernel and tiled B: the same output as the row kernel, row by row;
* parallel driver: rows in order, pools shared by thread count, panics
  contained, every call ends;
* plain product: both passes agree; zip: a top-n of the union;
* SIMD dispatch: no clone on a processor that lacks it, one clone for all rows
  of a call;
* bindings: arrays alive while a kernel reads them, each exception raised for
  its own cause only, no thread waits for ever;
* Python API: the core is called within its assertions, and the result is the
  product whatever the formats and options.

## 2. Modules

| Module | Role |
|---|---|
| `TopN` | abstract specification: a selection of the N best eligible candidates so far |
| `MaxHeap` | `maxheap.rs`, one sift iteration per step; implements `TopN` |
| `MaxHeapProofs` | theorems about `MaxHeap` |
| `MCMaxHeap` | its TLC instance |
| `Scores` | shared by the kernels: scores with a NaN, dot products, the heap by its contract |
| `RowKernel` | `process_row` and the scratch its rows share; implements `TopN` |
| `RowKernelProofs` | theorems about `RowKernel` |
| `MCRowKernel` | its TLC instance |
| `ParallelDriver` | calls from several threads: pool cache, slices, compaction, and the sequential driver |
| `ParallelProofs` | theorems about `ParallelDriver` and `PyCalls` |
| `PyCalls`, `MCPyCalls` | the bindings: GIL, borrowed arrays, refusals and exceptions around `ParallelDriver`, and the instance of both |
| `PyApi`, `MCPyApi` | `api.py` and `types.py`: from the caller's matrices to the core and back |
| `SimdDispatch`, `MCSimdDispatch` | `simd.rs`: the cached choice of clone |
| `BlockKernel`, `MCBlockKernel` | `process_row_block`, `run_blocked`; implements one `TopN` per row |
| `BlockKernelProofs` | theorems about `BlockKernel` |
| `TiledB`, `MCTiledB` | `tiled.rs`: the counting sort that builds the tiles |
| `SpMatmul`, `MCSpMatmul` | `matmul.rs`: size pass and fill pass |
| `ZipTopN`, `MCZipTopN` | `zip.rs`; implements `TopN` |
| `Routing`, `MCRouting` | the decisions of `sp_matmul_topn` and what they lead to |
| `CallProofs` | how a call comes to its kernel: theorems about `Routing` and `SimdDispatch` |
| `ColumnProofs` | cutting by columns and joining again: theorems about `TiledB` and `ZipTopN` |
| `ProductProofs` | the plain product and the functions before it: theorems about `SpMatmul` and `PyApi` |
| `SequenceLemmas` | what the folds and the recursive functions of the models compute, for all of these |

Where a proof module extends two modules that do not otherwise meet, the names of
the second one carry a prefix (`SimdSpec`, `ApiSpec`, `ZipSpec`) or a word of their
own (`stage`, `phase`, `asked`).

They compose along contracts.  `MaxHeap` is shown to evict a smallest entry and
to return the new smallest score; `Scores` states that contract, and
`RowKernel`, `BlockKernel` and `ZipTopN` use it.  `TiledB` shows a segment to be
the row of B cut by the chunk; `BlockKernel` reads tiles as that.  `RowKernel`
and `BlockKernel` show a row to be a top-n of its product, and `SpMatmul` that
the plain product keeps every touched column; `Routing` takes its kernels as
that, and shows in turn that it calls them within their assumptions.  `PyCalls`
EXTENDS `ParallelDriver`: its threads are the callers, and a kernel's step is a
step of the driver.  `PyApi` takes the core as what `RowKernel`, `SpMatmul` and
`Routing` show it to be for factors in column order, and models what the walk
over B does for others.

### MaxHeap

`heap`, `n_set` and `min` are the fields of `MaxHeap` and the caller's running
threshold.  `push_pop` is `Push` (swap root and back), `SiftDown` (an
iteration of `sift_down`), `Overwrite` (the new entry in the back slot),
`SiftUp` and `Return`; `pc`, `i` and `cand` are its position, loop index and
arguments.  `Skip` is a drain's guard refusing a candidate.  The two sorts
move the whole array, sentinels included, stably.  `offered` is history.

### RowKernel

One action per loop body of `process_row_impl`: `StartRow` (reset, `use_dense`,
cursors), `OpenSegment` (where a row of B enters the chunk, by binary search
or cursor), `ScatterLinked` (one product), `ScatterDense` (one round of the
unrolled scatter), `CloseSegment`, `StartDrain`, `DrainLinked`, `SkipGroup` /
`DrainSlot` (dense scan), `EndChunk` (clear, next chunk) and the two emits.
The heap is used through the contract proved for `MaxHeap`: it is a set of
entries, `PushPop` evicts one of the smallest, any of them.  `use_dense` is a
free choice for float rows (the mode or the density estimate decides in the
code), so any sequence of modes is covered.  A and B are read through
`[j, v]` and `[k, x]` entries.  `touched` is history.

### ParallelDriver

`lock`, `poisoned`, `pools` are the mutex and map of `pool_for`; a caller goes
`lock`, `entry` (`Lookup`), perhaps `build` (`Build`, or `BuildFails`, whose
panic poisons and releases the mutex), `install`, `running` (`Begin` / `End`
of slices by pool workers, `Unwind` after a panic) and `BuildCsr`.  A call
with `n_threads <= 1` goes through `Row`.  What a row emits is reduced to how
many entries, each named for its row, which is what compaction could mix up.
The rayon pool and `std::sync::Mutex` are external: a pool of n threads runs
at most n slices and `collect` keeps the slices' order; after a panic the
slices not yet begun may or may not run.  The mutex admits one holder.

### BlockKernel

`StartBlock` resets a heap per row of the block, chooses each row's accumulator
and seeds the block's cursors; `Scatter` adds one segment of B, `Drain` drains
one row's chunk and hands the accumulator to the next row, or to the first row
in the next chunk; `EmitRow` sorts and emits.  The steps are as coarse as the
loops whose product-by-product behaviour `RowKernel` establishes, because what
is new here is what lies between them: one `sums`, list and running maximum
for all rows, a heap, threshold and cursors per row that survive the chunk.
The rows' cursors lie one row after the other, from `CursorBase`.  A segment is
a set of positions in a row of B (`Segment`), `Met` the columns it meets.  The
list is a sequence, newest first.  Element type, projection, sort and block size are
variables of the call.

### TiledB

`Count` and `Place` take one entry of B each; `Prefix` is the prefix sum, the
copy to the write positions and the zeroed arrays, which nothing can interrupt.
`Narrow16` and `Narrow32` are the casts to u16 and u32 as remainders, so a shape
that `Supports` wrongly admitted would wrap, not fail.  `FallBack` is the caller
keeping the CSR kernel.  An entry's value is its position in B, which tells all
entries apart.

### SpMatmul

`SizeProduct` and `EndSizeRow` are the size pass with its stamped mask,
`FillProduct`, `StartPop`, `Pop` and `EndRow` the fill pass with its own list;
`EndSizeRow` panics where `narrow_indptr` does.  Rows of B may be unsorted and
repeat a column, as the function allows.

### ZipTopN

`Refuse` (row counts, width of the result), `NoChunks` and `Zeros` are the early
exits; `Merge` offers one entry to the heap, `NextChunk` moves to the chunk
before, `EmitRow` sorts, appends, narrows the offset and resets the heap.
`whole` is the matrix the chunks were selected from; no action reads it.  `phase`,
`at_row`, `at_chunk` and `at_entry` are the position of the three loops.  The
inputs are chunks each row of which is a top-n of its columns of `whole`
(`IsPartOf`), which is what the calls that computed them return.

### Routing

`ShortCircuit`, `FastPath` and `ToKernel` are the exits of `sp_matmul_topn` in
their order, `ResolveWidth` and `ResolveBlocking` the functions of those names
with `pick_projection` and `auto_tile`, `RunKernel` any answer the kernel's
contract allows.  `DefaultChunkCols` is the width derived from a detected cache
size, or from the fallback; the sizes and the limits of u16 and u32 are
constants.

### SimdDispatch

`Load`, `Detect` and `Store` are `avx2_fma_enabled` and `init`, cut where another
thread can come between; `Override` is `force_simd_baseline_for_tests`, which may
come at any time.  A thread in `row` runs the clone it decided on.  `cpu` and
`forced_off` never change: the processor's features, and the environment
variable as `init` reads it.  `pinned`, `quiet` and `used` are history.

### PyCalls

`Enter` is Python calling a binding, with the GIL; `RefuseNumber`,
`RefuseKind` and `RefuseLength` are its early errors: a number that `extract`
does not get (an argument of the signature, a width of the zip, a threshold the
value type cannot hold, as 3e9 for int32: OverflowError, or TypeError for what is
no number), an array that `dispatch_vi`, `downcast` or `as_slice` refuses, and a
length that the zip, `indptr_nrows` or `CsrView::new` does.  `flaws` is what is
wrong with the arguments and `Turn` the order in which the code comes to it, so
that a call is refused for the first (`Noticed`); the threshold is the last, when
the arrays are borrowed and the GIL is still held.  `Detach` releases the GIL and starts the driver's call; `Kernel` and `PyWorker` are steps of the
driver; `Attach` takes the GIL back; `Convert` is `csr_to_py_tuple` with its
backstop, `Raise` is `detach_mapping_overflow`.  `Forget` is another thread
dropping the program's last reference to the arrays of a call.  The zip and the
plain product run sequential rows whatever `n_threads` says; `ZipTooWide` is the
check of the zip's width before any row.

### PyApi

One action per stage of `sp_matmul` and `sp_matmul_topn`, which share them:
`CheckArguments`, `ConvertFactors`, `OrientB`, `Shortcut` (on to `sp_matmul`,
which starts over at its first line), `CheckDtypes`, and one of `CoreMatmul` and
`CoreTopN`.  `asked` keeps what the caller wrote.  A matrix is its lines, rows
for csr and columns for csc, so that a transpose moves nothing.  `Chain` makes a
result the right factor of the next call: results of `sp_matmul` have their rows
newest first.  `Cursor` is where the walk over such a row stands at the end of
each chunk; what it reads before the next one is that chunk's `Segment`, and a
column there that belongs to an earlier chunk `Underflows`.  In rows with four
entries or more per chunk on average the kernel searches the ends by halves
(`pick_projection`), which does the same.  The searches for one end give one
answer, so the segments join, from the first entry to the last.  If the chunks of
a row's entries never decrease the search is exact.  Otherwise either a segment
ends before it begins, or an entry is in a chunk not its own, where its offset
underflows or is past `sums`: a panic in each case, as with the cursor.  Scores and
thresholds are counted in halves, so that `Rint` has something to round.

## 3. Runs

| Run | Shows |
|---|---|
| `heap` | four slots, five columns, four scores (one equal to the threshold), every offering order, both sorts, then the next row.  A heap of four has two levels of sifts and a node with a single child; the fifth push evicts and saturates `n_set` (`OrderMax` = 4). |
| `row_kernel` | four columns in chunks of three (the last chunk is short), two lanes per group (a full group and a remainder), a top-2; every sparsity and sign of B's first row, three second rows (empty, across the chunk boundary, with a NaN); rows of A that cancel, repeat a row of B, or are empty, in any order and mode. |
| `block_kernel` | four columns in chunks of three; three rows in blocks of one, two or all three (so a last block is shorter); 48 matrices B, three projections, both sorts, floats and integers, every choice of accumulators within a block. |
| `tiled` | every matrix of two rows and four columns with up to four entries, in any order and with repeats; chunk widths 1 to 4 where u16 counts to 2 and u32 to 4, so widths and sizes fit exactly, or fall back. |
| `sp_matmul` | three columns, every first row of B of up to three entries; results of up to seven entries where four can be indexed. |
| `zip` | two rows of four columns as one chunk, two, or three of which one has no columns; every top-n of the first row's parts; a row with a NaN; unequal chunks; a width and a count past the index. |
| `routing` | 5,184 option settings: every combination of those that steer a call, with matrices without entries, with cancelling products, with a NaN, with more entries than u32 counts (5 here; u16 numbers 2); default widths from three cache sizes, of which one is none. |
| `py_calls` | two threads, a call each, thread counts 0, 2 and 3, three rows in slices of two; works that just fit the index (with an empty row), exceed it by one, or panic after exceeding it; widths that just fit or exceed by one; one pool build may fail; calls with every kind of refusal, also several at once.  Under `PyFairSpec`, so that `PyCallsEnd` is checked of the same interleavings. |
| `py_api` | matrices of up to three columns whose product is defined one way, the other, both or not at all, in every format and in one that is refused; products that cancel, no entries, dtypes that differ or are not supported; thresholds, widths of one and two columns, top-n of none, one, two; then a second call on the result. |
| `simd` | three threads on processors with any of the two features, with and without the environment variable, overrides at any moment. |
| `csc_product`, `chained_width` | two sentences of the documentation that the code does not keep; TLC shows a run for each (section 6). |

Bounds.  `MaxCalls` and `MaxFailures` bound the calls and the failed pool
builds.  A call of one thread meets what the other's left in the cache, the
mutex or a pool, also after that one has ended, so two threads with a call each
show every race and every aftermath.  In `PyApi` two calls let a result become
a factor once; the caller's matrices are in canonical format but for the order of
a row.  The kernel needs two chunks (cursor resume, carry-over of scratch), a chunk wider
than a group, more results than `Capacity`, and rows following rows; nothing
in it counts further.  The block kernel needs moreover a block with a row before
and a row after, and a short last block.  The narrow types of `TiledB` and
`Routing` and the index types of the drivers are scaled down: only the
comparison with their limit, and the remainder past it, matters.  In the zip a
row must follow a row, as the heap is shared, and a chunk must be empty for the
offsets of neighbours to meet.  `Unroll` is 4 in the code and 2 in the runs: group plus
remainder occur at either width.

Deadlock checking is off in the runs where a call, or all calls, end for good;
in `heap` and the row kernel's run, where a row always follows a row, and in
`simd`, it is on.

Fairness.  `PyFairSpec` assumes weak fairness of each thread's own steps and of
the workers on its slices: a runnable thread runs eventually, and a rayon worker
does not sleep while a job of its pool is queued.  Of taking the GIL back it
assumes strong fairness: the GIL is free and taken again and again, and its
holder gives it up for a thread that waits (the interpreter's switch interval),
so that every waiter has its turn.  None is assumed of the mutex: with finitely
many calls none is needed.  Calling a binding, forgetting an array and a failing
build need never happen.

## 4. Proofs

Every theorem holds for all values of the constants that satisfy the named
assumption of its module: that the constants are of the right type and the sets
the checks draw from have members of the right shape.  What they assume beyond
that is what the callers establish:

* `KernelAssumption`, `BlockAssumption`: rows of B in column order without
  repeats, `MinValue` not above the threshold, a chunk width between one and all
  columns (`Routing` proves that width, `KernelsAreAlwaysCalledRight`);
* `TiledAssumption`: the rows of B follow one another (csr);
* `ZipAssumption`: each row of a chunk is a top-n of its columns of the whole;
* `ApiAssumption`, `RoutingAssumption`, `ProductAssumption`: entries lie within
  the shape of their matrix;
* `HeapAssumption`: the counter's maximum is at least the capacity;
* `DriverAssumption`, `ArgumentsAssumption`: there is some work, some argument.

`ResultIsAlwaysTopN` has the hypothesis `SumsExceedMin` (section 6), which a TLC
run evaluates on its instance as well.

**Recursion.** The models compute dot products, prefix sums and concatenations
with recursive functions and folds.  `SequenceLemmas` reaches them without an
operator parameter: to show a fact of every n, the set of the n that have it is
shown to contain 0 and n + 1 with each n (`Induction`), and the same argument
gives a function satisfying the recursion (`RecursionExists`), so a fold of a
sequence is the last value of a function of its prefixes (`TotalExists`,
`FoldIsPrefixSum`, `FlattenPrefix`).  The proofs then speak of that function:
`Partials` (a dot product entry by entry), `IsWidths` (the offsets of the zip).

**MaxHeap.** `RootIsMinimum` speaks of the moments between calls and is not
inductive: inside `push_pop` heap order fails at exactly one slot.  `HeapInv`
states, for each `pc`, where it may fail (`Shape`: below `i` going down, above `i`
going up, together with the bridge from `i`'s parent to its children), and that
the back slot holds the minimum about to be overwritten.  `RootLeast` makes heap
order into minimality by taking the least slot that holds a smaller score.
`CountInv` adds what `n_set` counts: the real entries and the sentinels share the
slots (`Counted`), so that `entries()`, which cuts a sorted array at `n_set`, finds
neither a hole nor a sentinel.  With both, a whole `push_pop` and its sifts are one
step of `TopN` and stutters (`HeapIsTopN`).

**RowKernel.** `IInv` ties the scratch together: that a column is unlinked
exactly once needs the touched columns to be distinct; that a narrow last chunk
leaves nothing behind needs the sums past its width to be zero all along; that a
cursor resumes right needs to know, of the row of B being scattered, which
entries lie before and after `cur`.  Binary search and cursor agree because a
split point is unique (`PointIsUnique`).  `Content` says what a sum *is* at any
moment of a scatter: the product of the entries of A done so far with its column,
where the position in the row of B decides which of two adjacent partial products
a column has (`Upto`).  `Selected` says what the heap is: results of columns
already drained, numbered in the order they came, and of all drained results
every one above the running threshold, which is why skipping a group or a chunk
loses nothing.  From it `RowIsTopN` (refinement of `TopN`) and `RowInOrder`
(what `ByColumn` promises of the emitted order).

**BlockKernel.** The accumulator belongs to one row at a time.  `Accumulated`
says of the row that has it what `Content` says above, and `Clean` is its case of
no entry done.  `CursorBase` is a prefix sum (`CursorBases`), so the cursors of two
rows never share a place.  `Best` says of a selection that nothing it was offered
beats its threshold without being held; a push, a candidate turned away and a
skipped chunk keep it (`DrainSelects`), the other rows do not touch it.  At the end
of a row it has been offered all columns, hence `OutputIsTopN`; and every row of
the block implements a `TopN` of its own (`RowsAreSelections`).

**TiledB.** The place of an entry is known before any is moved: all entries of
earlier segments, plus those of its own that come before it in B (`Goal`).
Counts, prefix sum and write positions are the cardinalities of the corresponding
sets (`TInv`); that a write stays in its segment and hits no other entry is then
that distinct entries have distinct goals (`GoalsDiffer`, `GoalInSegment`).

**ZipTopN.** `Taken` is the set of cells the walk has passed, from the last chunk
down.  Offsets are prefix sums, which grow, so cells of different chunks never
share a column (`CellsApart`) and a heap without repeats is a selection of columns.
`Holds` says that the heap has every number of `Taken` above its root.  What a
chunk dropped is beaten by as many of its cells as the result holds
(`MissingIsBeaten`), so a top-n of the parts is a top-n of the whole
(`PartsSelectWhole`).  Appending a row leaves those before as they were
(`AppendedRow`), hence `ZipIsTopNOfWhole`; and each row goes through a `TopN` that
starts from nothing (`ZipSelects`).

**SpMatmul.** `PInv` says that in the size pass the stamped columns are those of
the row's products so far, in the fill pass that they are the threaded list's, and
that each sum is what the products so far contribute.  Both passes count
`TouchedBy`, so they agree; rows of B may have any order and repeats.  An overflow
is noticed at the first row whose total does not fit, before anything is filled
(`OverflowAborts`).

**ParallelDriver.** `partition_rows` cuts the rows without gap, overlap or empty
slice (`SlicesPartition`, from division with remainder).  `PoolInv` says who is
between taking and releasing the mutex and which pool is whose.  `IInv` says of
each slice that has run that it holds its own rows (`SliceResult`) and of what is
put together so far that it is a prefix of the result; the order in which slices
finish drops out because the blocks are sorted by their first row.
`OutputIsRowMajor` holds for any number of callers, workers, panics and slicings.

**PyCalls.** `PyInv` adds who holds the GIL, what each thread's call borrows and
the cause of each panic under way, and that only accepted arguments reach a
kernel.  A refusal has its flaw (`NoticedFlaw`): an OverflowError before any kernel
is a number that could not be extracted.  That one after a kernel is only raised for a
total that overflows, or a width, needs of a panic that it has a cause
(`PanicHasCause`, `Overrun`): a row, a pool, or a prefix of the rows that is too long.

**Routing.** `RouteInv` says what each stage knows of shapes, width and blocking.
The default width is never 0 because a next power of two exists
(`NextPowerExists`).  Each route's rows are a selection in their own way: all columns
touched (`FullRowIsRight`), the kernel's contract (`KernelRowIsRight`), none.

**SimdDispatch.** `OneClone` is not inductive: `CloneInv` adds that the cached
decision and every detection under way agree with the last override (`Settled`)
and that no detection outlives an override made between calls.

**PyApi.** `ApiInv` says which checks a call has passed at each stage.
`sp_matmul_topn` checks shapes before it goes to `sp_matmul`, which does not
repeat all of them; they survive because it is entered with csr factors
(`Oriented`).  `ResultIsProduct` speaks of what the caller wrote and needs the
past: `ResultInv` adds that the factors of a call in progress are cell by cell
the two matrices of the promised product, once they are oriented (`FactorsInv`),
and that the options still ask for the same selection (`OptionsInv`), also in the
call that `Shortcut` makes of another.  Invariant of both together is
`ApiInv /\ ResultInv`; each part has one lemma per action.

The step that returns is the core of it.  A transposed matrix has the cells of
the matrix exchanged and a converted one has the same cells (`TransposeFacts`,
`ToCsrFacts`).  The segments of a row of B join to the whole row, in whatever
order its entries are (`SegmentsCover`), so what the walk reads is all of B
(`WalkReadsAll`) unless it panics; rows in column order never make it panic
(`UnderflowFacts`).  A row returned by `sp_matmul` lists each touched column once
(`NewestFirstFacts`), a row of `sp_matmul_topn` is a selection that also meets
the caller's options (`OptionsSelect`: the top-n was lowered to the number of
columns and an integer threshold rounded), and one that keeps every column
without a threshold is the whole row (`AllSelected`) if no sum is the least value
of its type.  Result rows are sequences and matrices are sets of cells; between
them go `ResultFacts` and the last part of `SequenceLemmas` (`SortedExists`,
`FlattenRange`).  That the inductive invariant holds was first checked by TLC on
the instance of `py_api`.

Every safety invariant and action property that a run checks is thus proved.
Left to TLC is `PyCallsEnd`, since liveness and ENABLED are out of the provers'
reach.

## 5. Plan

Every part of section 1 has its module, every module its inductive invariant, and
every safety property of a run its theorem.  Worth adding when the code changes:
matrices with repeated entries in `PyApi` (the kernels' modules have them).

## 6. Where documentation and code part

Two that runs show:

* `README.md:22` and `api.py:29`: csc factors are converted, and A * B is
  computed.  Two csc matrices with `A.shape[0] == B.shape[1]` are transposed
  first and A.T * B.T is returned, also when A * B is defined, as it always is for
  square ones (`csc_product`).  What holds is `ResultIsProduct`.
* `api.py:144`: any chunk width yields identical results.  A result of `sp_matmul`
  has its rows newest first; as the right factor of `sp_matmul_topn` with more
  than one chunk its rows reach a chunk with a column before it, where `k - c0`
  underflows and the call panics (`chained_width`).  What holds is
  `ResultIsProduct`: a call that returns has read every entry, and none panics
  when the rows of B are in column order or one chunk holds all columns.  (Apart from this
  the choice among equal scores at the boundary of the top-n may depend on the
  width, as the comment at `chunked.rs:221` allows for.)

Others, which can be read off the models:

* `matmul_topn.rs:20` and `maxheap.rs:93` promise column order for
  `SortMode::ByColumn`; a linked-list row comes out newest column first within
  each chunk.  What holds is `RowOrder`.
* `matmul_topn.rs:44` says a fresh pool is built per call; pools are cached and
  shared.  What holds is `OnePoolPerCount`.
* `parallel.rs:18` and `tests/properties.rs:228` say that rows do not depend on
  `n_threads`; only a sequential call takes the fast path, whose rows keep the
  entries that cancelled to zero.  What holds is `ResultIsTopN`: rows differ in
  exact zeros and in the choice among ties.
* `matmul_topn.rs:86` says a run aborts as soon as overflow is certain; the
  parallel driver notices after all slices (`BuildCsr`), or not at all when a row
  panics after too many entries: then the parallel call raises PanicException
  where the sequential one raises OverflowError.  What holds is
  `ExceptionNamesCause`.
* `matmul_topn.rs:42` says that `Some(0)` threads panic; the entry point runs
  them sequentially (`IsParallel` in `Routing`).
* `conv.rs:40` says the readonly view enforces that nobody writes; the view is
  dropped before the GIL is released.  `BuffersLive` holds without it; that nobody
  writes is an assumption.
* `python.rs:144` says the plain product's binding is reached with at most one
  thread; `api.py` passes `n_threads` on, and the binding ignores it.
* The OverflowError advises `idx_dtype=np.int64`; the fast path of
  `sp_matmul_topn` drops `idx_dtype` (`Shortcut`), so that the advice leads to the
  same error.  What holds is `CoreIsCalledRight`: elsewhere the core gets the
  caller's index type.
* `types.py:37` says the lower precision is cast to the higher; no two supported
  dtypes are subtypes of each other, so it always raises (`Compatible`).
* `matmul_topn.rs:111` says that with every column wanted and no threshold the
  kernel degenerates into the plain product.  The kernel starts from `V::min_value`
  (`scalar.rs:59`, `:83`) as an exclusive bound, so a sum equal to the least value
  of its type is dropped by the kernel and kept by the fast path.  What holds is
  `ResultIsTopN`, for sums that exceed that value (`SumsExceedMin`).
* An integer product rounds its threshold half to even (`Rint`), so a threshold
  of 1.5 drops results equal to 2, which are greater.

## 7. Not modelled

The rounding of floats and fused multiply-add (data the properties do not tell
apart, beyond NaN and exact zero); the wrap-around of integer sums in release
builds, and of int64 indices that `astype` narrows; writes to an array while a
call reads it; allocation hints; the environment variable behind `chunk_cols`;
`kernel_info`, which only reports what `Routing` and `SimdDispatch` compute; the
Python wrapper of the zip, which collects the arrays of its list; which of equal
scores at the boundary of a top-n survives, which `TopN` leaves open, so that a
changed drain or zip order shows in no run; index values
outside the matrix, which nothing checks; benchmarks and examples, which measure
the kernels and have no logic of their own.
