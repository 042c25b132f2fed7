----------------------------- MODULE MCV8Startup -----------------------------
(* Small instances of V8Startup for TLC: the threads are interchangeable. *)
EXTENDS V8Startup, TLC

Permuted == Permutations(Threads)
=============================================================================
