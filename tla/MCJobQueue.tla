----------------------------- MODULE MCJobQueue -----------------------------
(* A repository with a task of each kind: three-point functions, the zeta   *)
(* task paired with them and one that is not, the fNL parameters of the     *)
(* pair, and output made from both sides.                                   *)
EXTENDS JobQueue

MCTasks == {"threepf", "zeta", "other", "fNL", "plot"}
MCKind == [t \in MCTasks |-> CASE t = "threepf" -> "integration"
                                [] t = "plot" -> "output"
                                [] OTHER -> "postintegration"]
MCParents == [t \in MCTasks |-> CASE t = "threepf" -> {}
                                   [] t = "fNL" -> {"zeta"}
                                   [] t = "plot" -> {"fNL", "other"}
                                   [] OTHER -> {"threepf"}]
MCPaired == {"zeta"}
MCTags == {"run1"}
\* No content, content without tags, and content marked as failed.
MCStored == {{}, {[tags |-> {}, failed |-> FALSE]},
             {[tags |-> {}, failed |-> TRUE]}}
=============================================================================
