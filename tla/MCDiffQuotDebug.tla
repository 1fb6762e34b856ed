-------------------------- MODULE MCDiffQuotDebug ---------------------------
(* DiffQuotDebug on small instances. *)
EXTENDS DiffQuotDebug, TLC

CONSTANTS t1, t2

\* Threads are interchangeable.
Symmetry == Permutations(Threads)
=============================================================================
