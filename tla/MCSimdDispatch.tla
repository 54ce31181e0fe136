---------------------------- MODULE MCSimdDispatch ----------------------------
(* SimdDispatch with three threads on every kind of processor.                *)
EXTENDS SimdDispatch
=============================================================================
