--------------------------- MODULE MCContentGroup ---------------------------
(* Small instances of the content-group life cycle.                        *)
EXTENDS ContentGroup, TLC

\* Two-point task: configurations stand alone.
NoLegs == [c \in Configs |-> {}]
\* Three-point task: all triangles share leg 1, each has one of its own.
SharedLeg == [c \in Configs |-> {1, c + 1}]

Symmetry == Permutations(Slaves)
=============================================================================
