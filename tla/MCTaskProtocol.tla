--------------------------- MODULE MCTaskProtocol ---------------------------
(* Small pools of slaves and short job queues for the task protocol.       *)
EXTENDS TaskProtocol, TLC

Symmetry == Permutations(Items) \cup Permutations(Workers)
=============================================================================
