---------------------------- MODULE MCThreadPool ----------------------------
(* Small instances of ThreadPool for TLC.                                  *)
EXTENDS ThreadPoolInvariant, TLC

\* Threads and tasks are interchangeable: no action compares or orders them.
Symmetry == Permutations(Threads) \cup Permutations(Tasks)
=============================================================================
