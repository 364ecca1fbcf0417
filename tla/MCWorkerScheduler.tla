------------------------- MODULE MCWorkerScheduler -------------------------
(* A small pool for the scheduler on its own.                              *)
EXTENDS WorkerScheduler, TLC

\* Items are interchangeable; workers are too, in a pool of one kind or two.
Symmetry == Permutations(Items) \cup Permutations(Workers)
=============================================================================
