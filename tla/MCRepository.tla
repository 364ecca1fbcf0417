---------------------------- MODULE MCRepository ----------------------------
(* Instance of Repository for TLC: one stored group and one name still free, *)
(* for every command a user may give.                                        *)
EXTENDS Repository

CONSTANTS p1, p2, g0, g1, g2

OneGroup == {On("delete", g0), On("tag", g0)}
\* A pattern that matches two groups of the task.
TwoGroups == {[kind |-> "delete", groups |-> <<g0, g2>>]}
=============================================================================
