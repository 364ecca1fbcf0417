---------------------------- MODULE TaskContract ----------------------------
(***************************************************************************)
(* What a run of the job queue promises, with no mention of processes or   *)
(* messages.  A task opens with a set of work items.  Each item is settled *)
(* once and for good: its results are stored in the content group, it is   *)
(* listed as failed, or the container that holds it could not be read.     *)
(* The output is committed, or discarded because an assignment failed,     *)
(* only when every item is settled; an aborted task promises nothing.      *)
(***************************************************************************)
EXTENDS Naturals

CONSTANTS Items, NumTasks

VARIABLES n,         \* tasks begun so far
          open,      \* is task n under way?
          waiting,   \* its items that are not settled
          stored, failed, unread,
          outcome    \* how each task ended

contractVars == <<n, open, waiting, stored, failed, unread, outcome>>

ContractInit ==
  /\ n = 0 /\ ~open /\ waiting = {}
  /\ stored = {} /\ failed = {} /\ unread = {}
  /\ outcome = [t \in 1 .. NumTasks |-> "pending"]

Open(items) ==
  /\ ~open /\ n < NumTasks
  /\ n' = n + 1 /\ open' = TRUE
  /\ waiting' = items /\ stored' = {} /\ failed' = {} /\ unread' = {}
  /\ UNCHANGED outcome

\* A task that fails to start ends without having had any item.
FailToOpen ==
  /\ ~open /\ n < NumTasks
  /\ n' = n + 1
  /\ outcome' = [outcome EXCEPT ![n + 1] = "aborted"]
  /\ UNCHANGED <<open, waiting, stored, failed, unread>>

Settle(items) ==
  /\ open /\ items # {}
  /\ waiting' = waiting \ items
  /\ \/ stored' = stored \cup items /\ UNCHANGED <<failed, unread>>
     \/ failed' = failed \cup items /\ UNCHANGED <<stored, unread>>
     \/ unread' = unread \cup items /\ UNCHANGED <<stored, failed>>
  /\ UNCHANGED <<n, open, outcome>>

Close(how) ==
  /\ open
  /\ how \in {"committed", "rejected"} => waiting = {}
  /\ open' = FALSE
  /\ outcome' = [outcome EXCEPT ![n] = how]
  /\ UNCHANGED <<n, waiting, stored, failed, unread>>

ContractNext ==
  \/ \E items \in SUBSET Items : Open(items)
  \/ FailToOpen
  \/ \E items \in SUBSET waiting : Settle(items)
  \/ \E how \in {"committed", "rejected", "aborted"} : Close(how)

Contract == ContractInit /\ [][ContractNext]_contractVars
=============================================================================
