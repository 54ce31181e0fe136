----------------------------- MODULE SimdDispatch -----------------------------
(***************************************************************************)
(* The choice between the baseline kernels and their AVX2+FMA clones on    *)
(* x86-64 builds without compile-time FMA: the lazily cached, process-wide *)
(* decision of src/src/simd.rs, read for every row by process_row and for  *)
(* every block by process_row_block (src/src/chunked.rs) on any number of  *)
(* threads, by kernel_info's label, and overridden by                      *)
(* force_simd_baseline_for_tests.                                          *)
(*                                                                         *)
(* Loads and stores are relaxed: state is the only location, so every      *)
(* thread sees its writes in one order, and each step sees the last one.   *)
(***************************************************************************)
EXTENDS Naturals

CONSTANT Threads

\* UNINIT, ENABLED and DISABLED of the code.
Uninit == 0
Enabled == 1
Disabled == 2

VARIABLES
  cpu,        \* the features the processor has
  forced_off, \* SP_MATMUL_RS_FORCE_BASELINE, as init reads it
  state,      \* the cached decision
  place,      \* by thread: "idle"; in a call "load", "detect", "store", "row"
  ok,         \* by thread: its own decision, from load or init
  pinned,     \* history: what the last override asked for, "none" before it
  quiet,      \* history: no thread was in a call at the last override
  used        \* history: the decisions acted on since then

machine == <<cpu, forced_off>>
history == <<pinned, quiet, used>>
simdVars == <<machine, state, place, ok, history>>

-----------------------------------------------------------------------------

\* Mutant: init asks for AVX2 only.
DetectedAvx2 == ~ forced_off /\ "avx2" \in cpu

Detected == ~ forced_off /\ "avx2" \in cpu /\ "fma" \in cpu

\* Mutant: only a positive decision is cached.
DecidedEnabled == state = Enabled

Decided == state # Uninit

SimdInit ==
  /\ cpu \in SUBSET {"avx2", "fma"} /\ forced_off \in BOOLEAN
  /\ state = Uninit
  /\ place = [t \in Threads |-> "idle"] /\ ok = [t \in Threads |-> FALSE]
  /\ pinned = "none" /\ quiet = TRUE /\ used = {}

\* A call starts, or asks for its next row, or for the label.
Begin(t) ==
  /\ place[t] \in {"idle", "row"}
  /\ place' = [place EXCEPT ![t] = "load"]
  /\ UNCHANGED <<machine, state, ok, history>>

Act(t, decision) ==
  /\ ok' = [ok EXCEPT ![t] = decision]
  /\ used' = used \cup {decision}
  /\ place' = [place EXCEPT ![t] = "row"]
  /\ UNCHANGED <<pinned, quiet>>

\* avx2_fma_enabled
Load(t) ==
  /\ place[t] = "load"
  /\ \/ Decided /\ Act(t, state = Enabled)
     \/ /\ ~ Decided
        /\ place' = [place EXCEPT ![t] = "detect"]
        /\ UNCHANGED <<ok, history>>
  /\ UNCHANGED <<machine, state>>

\* init: the decision, and later its store, whatever state is by then.
Detect(t) ==
  /\ place[t] = "detect"
  /\ ok' = [ok EXCEPT ![t] = Detected]
  /\ place' = [place EXCEPT ![t] = "store"]
  /\ UNCHANGED <<machine, state, history>>

Store(t) ==
  /\ place[t] = "store"
  /\ state' = IF ok[t] THEN Enabled ELSE Disabled
  /\ Act(t, ok[t])
  /\ UNCHANGED machine

Finish(t) ==
  /\ place[t] = "row"
  /\ place' = [place EXCEPT ![t] = "idle"]
  /\ UNCHANGED <<machine, state, ok, history>>

\* force_simd_baseline_for_tests
Override(on) ==
  /\ state' = IF on THEN Disabled ELSE Uninit
  /\ pinned' = IF on THEN "baseline" ELSE "none"
  /\ quiet' = \A t \in Threads : place[t] = "idle"
  /\ used' = {}
  /\ UNCHANGED <<machine, place, ok>>

SimdNext ==
  \/ \E t \in Threads : Begin(t) \/ Load(t) \/ Detect(t) \/ Store(t) \/ Finish(t)
  \/ \E on \in BOOLEAN : Override(on)

SimdSpec == SimdInit /\ [][SimdNext]_simdVars

-----------------------------------------------------------------------------
(* Properties *)

SimdTypeOK ==
  /\ cpu \subseteq {"avx2", "fma"} /\ forced_off \in BOOLEAN
  /\ state \in {Uninit, Enabled, Disabled}
  /\ place \in [Threads -> {"idle", "load", "detect", "store", "row"}]
  /\ ok \in [Threads -> BOOLEAN]
  /\ pinned \in {"none", "baseline"} /\ quiet \in BOOLEAN /\ used \subseteq BOOLEAN

\* chunked.rs, above both unsafe calls: "`avx2_fma_enabled` returns true only
\* after runtime CPUID detection of both `avx2` and `fma`".  However the threads,
\* the detections and the overrides interleave, a clone runs only where the
\* processor can run it.
CloneIsSupported ==
  \A t \in Threads : place[t] = "row" /\ ok[t] => {"avx2", "fma"} \subseteq cpu

\* What the processor and the environment allow.
CanRunClone == ~ forced_off /\ {"avx2", "fma"} \subseteq cpu

\* As long as overrides are made between calls, as tests/simd_dispatch.rs makes
\* them, every row of every thread since the last one, and the label, take the
\* same clone: the baseline if that is what was asked for, else what the
\* processor and the environment allow.  Threads that race through the first
\* detection do not split a call over two roundings.
OneClone == quiet => used \subseteq {pinned = "none" /\ CanRunClone}
=============================================================================
