-------------------------------- MODULE PyCalls --------------------------------
(***************************************************************************)
(* Calls from the threads of one Python process into the extension module  *)
(* (src/src/python.rs, src/src/python/conv.rs): a thread enters a binding  *)
(* holding the GIL, converts its arguments and borrows the numpy arrays or *)
(* raises, releases the GIL, runs the kernel on the slices                 *)
(* (ParallelDriver), takes the GIL back, and returns the arrays of the     *)
(* result or raises.  Zip and the plain product run the sequential rows of *)
(* ParallelDriver whatever n_threads says.                                 *)
(*                                                                         *)
(* The interpreter is external: the GIL has one holder, a thread that      *)
(* waits for it gets it, and an array lives as long as the program or the  *)
(* arguments of a call refer to it.  No thread writes to an array that a   *)
(* call reads; nothing in the code prevents it.                            *)
(***************************************************************************)
EXTENDS ParallelDriver

CONSTANT Arguments \* what a thread may pass

\* What may be wrong with the arguments, by the turn in which it is noticed.
\* argument: one is not of the type in the signature.  lists, widths, count: of
\* zip; the lists are empty or of different lengths, a width is no usize, there
\* are not as many widths as chunks.  dtypes: no pair of dispatch_vi, or not that
\* of the other matrix.  kind: an array that is not contiguous or not of the pair;
\* length: one that is empty or has not the length of its matrix; which of the two
\* comes first depends on the array.  threshold: no number of the value type.
Turn == [argument |-> 1, lists |-> 2, widths |-> 3, count |-> 4, dtypes |-> 5,
         kind |-> 6, length |-> 6, threshold |-> 7]

ASSUME ArgumentsAssumption ==
  /\ Arguments # {}
  /\ Arguments \subseteq [binding : {"sp_matmul", "sp_matmul_topn", "zip_sp_matmul_topn"},
                          n_threads : Requests, ncols : Nat, flaws : SUBSET DOMAIN Turn]
  /\ \A q \in Arguments :
       /\ q.flaws \cap {"lists", "widths", "count"} # {} => q.binding = "zip_sp_matmul_topn"
       /\ "threshold" \in q.flaws => q.binding = "sp_matmul_topn"

VARIABLES
  gil,       \* the thread that holds the GIL
  at,        \* "python", "binding", "kernel" (detached), "attached"
  args,      \* arguments of the thread's call
  held,      \* the program still refers to the arrays of the call
  borrowed,  \* the call refers to them
  outcome    \* of the thread's last call

python == <<gil, at, args, held, borrowed, outcome>>
pyVars == <<vars, python>>

Outcomes == {"none", "result", "OverflowError", "PanicException", "TypeError", "ValueError"}

-----------------------------------------------------------------------------

\* check_index_capacity of a column count: the largest index is ncols - 1.
FitsColumns(ncols) == AtLeast(ncols - 1, 0) <= IndexMax

KernelThreads(q) == IF q.binding = "sp_matmul_topn" THEN q.n_threads ELSE 1

\* The panic of the call bears INDEX_OVERFLOW_MARKER: it came from
\* narrow_indptr in the sequential loop or in build_csr_from_blocks, or from
\* the width check of zip.
Marked(c) ==
  \/ args[c].binding = "zip_sp_matmul_topn" /\ ~ FitsColumns(args[c].ncols)
  \/ Len(indices[c]) > IndexMax
  \/ slices[c] # <<>> /\ In(c, "done") = DOMAIN slices[c]

\* detach_mapping_overflow
Exception(c) == IF Marked(c) THEN "OverflowError" ELSE "PanicException"

-----------------------------------------------------------------------------

PyInit ==
  /\ Init
  /\ gil = NoCaller
  /\ at = [c \in Callers |-> "python"]
  /\ args = [c \in Callers |-> CHOOSE q \in Arguments : TRUE]
  /\ held = [c \in Callers |-> TRUE]
  /\ borrowed = [c \in Callers |-> FALSE]
  /\ outcome = [c \in Callers |-> "none"]

\* A thread calls a binding.
Enter(c, q) ==
  /\ at[c] = "python" /\ gil = NoCaller /\ calls[c] < MaxCalls
  /\ gil' = c
  /\ at' = [at EXCEPT ![c] = "binding"]
  /\ args' = [args EXCEPT ![c] = q]
  /\ borrowed' = [borrowed EXCEPT ![c] = TRUE]
  /\ outcome' = [outcome EXCEPT ![c] = "none"]
  /\ UNCHANGED <<vars, held>>

\* The call returns to Python, which lets go of its arguments.
Leave(c, result) ==
  /\ outcome' = [outcome EXCEPT ![c] = result]
  /\ at' = [at EXCEPT ![c] = "python"]
  /\ borrowed' = [borrowed EXCEPT ![c] = FALSE]
  /\ held' = [held EXCEPT ![c] = TRUE]
  /\ gil' = NoCaller

\* The binding raises before any kernel runs.
Refuse(c, exception) ==
  /\ at[c] = "binding"
  /\ Leave(c, exception)
  /\ calls' = [calls EXCEPT ![c] = @ + 1]
  /\ UNCHANGED <<process, pc, n_threads, work, pool, slices, blocks, row, output, args>>

\* The first flaw that the binding comes to.
Noticed(q, flaw) == flaw \in q.flaws /\ \A other \in q.flaws : Turn[flaw] <= Turn[other]

\* Numbers taken from Python objects: extract fails with OverflowError for one out
\* of range, with TypeError for what is no such number.
Extracted == {"argument", "widths", "threshold"}

RefuseNumber(c) ==
  \E flaw \in Extracted, exception \in {"OverflowError", "TypeError"} :
    Noticed(args[c], flaw) /\ Refuse(c, exception)

\* dispatch_vi, downcast and as_slice
RefuseKind(c) ==
  \E flaw \in {"dtypes", "kind"} : Noticed(args[c], flaw) /\ Refuse(c, "TypeError")

\* The checks of zip's lists, indptr_nrows, CsrView::new
RefuseLength(c) ==
  \E flaw \in {"lists", "count", "length"} : Noticed(args[c], flaw) /\ Refuse(c, "ValueError")

Accepted(q) == q.flaws = {}

\* Mutant: the arguments are dropped with the borrow of their arrays.
DetachAndDrop(c, w) ==
  /\ at[c] = "binding" /\ Accepted(args[c])
  /\ Call(c, KernelThreads(args[c]), w)
  /\ gil' = NoCaller
  /\ at' = [at EXCEPT ![c] = "kernel"]
  /\ borrowed' = [borrowed EXCEPT ![c] = FALSE]
  /\ UNCHANGED <<args, held, outcome>>

\* The slices outlive the readonly borrows and stay valid through the call's
\* references; the GIL is released and the kernel starts.
Detach(c, w) ==
  /\ at[c] = "binding" /\ Accepted(args[c])
  /\ Call(c, KernelThreads(args[c]), w)
  /\ gil' = NoCaller
  /\ at' = [at EXCEPT ![c] = "kernel"]
  /\ UNCHANGED <<args, held, borrowed, outcome>>

TooWide(c) ==
  args[c].binding = "zip_sp_matmul_topn" /\ ~ FitsColumns(args[c].ncols)

\* zip checks the width of its result before any row.
ZipTooWide(c) ==
  /\ at[c] = "kernel" /\ pc[c] = "rows" /\ TooWide(c)
  /\ Goto(c, "panicked")
  /\ UNCHANGED <<process, n_threads, work, pool, slices, blocks, row, output, calls, python>>

\* The kernel needs no GIL.
Kernel(c) ==
  /\ at[c] = "kernel" /\ ~ (pc[c] = "rows" /\ TooWide(c))
  /\ Step(c)
  /\ UNCHANGED python

\* catch_unwind has the panic, or the matrix is there: wait for the GIL.
Attach(c) ==
  /\ at[c] = "kernel" /\ pc[c] \in Finished
  /\ gil = NoCaller
  /\ gil' = c
  /\ at' = [at EXCEPT ![c] = "attached"]
  /\ UNCHANGED <<vars, args, held, borrowed, outcome>>

\* Mutant: csr_to_py_tuple without its backstop.
ConvertUnchecked(c) ==
  /\ at[c] = "attached" /\ pc[c] = "ok"
  /\ Leave(c, "result")
  /\ UNCHANGED <<vars, args>>

\* csr_to_py_tuple: the backstop, then the buffers become numpy's.
Convert(c) ==
  /\ at[c] = "attached" /\ pc[c] = "ok"
  /\ Leave(c, IF Narrows(Len(indices[c])) /\ FitsColumns(args[c].ncols)
              THEN "result" ELSE "OverflowError")
  /\ UNCHANGED <<vars, args>>

\* The panic is mapped, or resumes and surfaces as PanicException.
Raise(c) ==
  /\ at[c] = "attached" /\ pc[c] = "panicked"
  /\ Leave(c, Exception(c))
  /\ UNCHANGED <<vars, args>>

\* Another thread drops the program's last reference to the arrays of a call.
Forget(d, c) ==
  /\ gil = NoCaller /\ at[d] = "python" /\ at[c] = "kernel"
  /\ held[c]
  /\ held' = [held EXCEPT ![c] = FALSE]
  /\ UNCHANGED <<vars, gil, at, args, borrowed, outcome>>

PyStep(c) ==
  \/ RefuseNumber(c) \/ RefuseKind(c) \/ RefuseLength(c)
  \/ \E w \in Works : Detach(c, w)
  \/ ZipTooWide(c) \/ Kernel(c) \/ Convert(c) \/ Raise(c)

PyWorker(c) == Worker(c) /\ UNCHANGED python

PyNext ==
  \/ \E c \in Callers, q \in Arguments : Enter(c, q)
  \/ \E c \in Callers : PyStep(c) \/ Attach(c)
  \/ \E c \in Callers : PyWorker(c)
  \/ \E c, d \in Callers : Forget(d, c)

PySpec == PyInit /\ [][PyNext]_pyVars

\* Threads that can run do run, workers do not sleep on work, and the GIL,
\* which its holder gives up for a waiting thread, reaches every waiter.
PyFairSpec ==
  PySpec /\ \A c \in Callers :
    WF_pyVars(PyStep(c)) /\ WF_pyVars(PyWorker(c)) /\ SF_pyVars(Attach(c))

-----------------------------------------------------------------------------
(* Properties *)

PyTypeOK ==
  /\ TypeOK
  /\ gil \in Callers \cup {NoCaller}
  /\ at \in [Callers -> {"python", "binding", "kernel", "attached"}]
  /\ args \in [Callers -> Arguments]
  /\ held \in [Callers -> BOOLEAN] /\ borrowed \in [Callers -> BOOLEAN]
  /\ outcome \in [Callers -> Outcomes]
  /\ \A c \in Callers : gil = c <=> at[c] \in {"binding", "attached"}

PanickingRow(w) == \E r \in DOMAIN w : w[r] = Panics

\* The rows before the first that panics hold more entries than can be counted.
Overflows(w) ==
  \E n \in 0 .. NRows :
    /\ \A r \in 0 .. n - 1 : w[r] # Panics
    /\ Len(FlattenSeq([p \in 1 .. n |-> Entries(w, p - 1)])) > IndexMax

\* Python gets a result only of flawless arguments, and when all its offsets and
\* column numbers fit the index type, also when the kernel has stored truncated
\* ones; OverflowError only when they do not, or, before any kernel runs, when a
\* number among the arguments could not be extracted (t.extract() of the
\* threshold, for one); and PanicException only when a row of the very call
\* panics, or a pool could not be built, then or earlier, and the call needs one
\* (run_sp_matmul_topn, detach_mapping_overflow, csr_to_py_tuple).
ExceptionNamesCause ==
  \A c \in Callers :
    LET w == work[c] q == args[c] wide == ~ FitsColumns(q.ncols) IN
    /\ outcome[c] = "result" => Accepted(q) /\ ~ PanickingRow(w) /\ ~ Overflows(w) /\ ~ wide
    /\ outcome[c] = "OverflowError" =>
         IF Accepted(q) THEN Overflows(w) \/ wide ELSE q.flaws \cap Extracted # {}
    /\ outcome[c] = "PanicException" =>
         /\ Accepted(q)
         /\ PanickingRow(w) \/ (KernelThreads(q) > 1 /\ failures > 0)

\* While a kernel reads the borrowed slices, whose borrows have ended, their
\* arrays are alive, whatever other threads forget meanwhile (borrow_csr_view).
BuffersLive ==
  \A c \in Callers : at[c] = "kernel" => held[c] \/ borrowed[c]

\* Every call returns to Python or raises: no thread waits for ever for the
\* GIL, the mutex of the pool cache, a worker or a slice, whatever panicked.
PyCallsEnd == \A c \in Callers : at[c] # "python" ~> at[c] = "python"
=============================================================================
