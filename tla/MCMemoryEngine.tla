--------------------------- MODULE MCMemoryEngine ---------------------------
(* MemoryEngine for TLC. *)
EXTENDS MemoryEngine, TLC

\* Threads are interchangeable: no action and no property names one.
ThreadSymmetry == Permutations(Threads)
=============================================================================
