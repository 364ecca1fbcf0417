-------------------------- MODULE WorkerScheduler --------------------------
(***************************************************************************)
(* The master's work scheduler (transport-runtime/manager/                 *)
(* worker_scheduler.h): which workers have identified themselves, which    *)
(* hold an assignment, which items wait in the queue, and the counters     *)
(* the scheduler keeps beside those flags.  The scheduler defends itself   *)
(* with exceptions; `raised' records the first one thrown since reset().   *)
(*                                                                         *)
(* Every operation is an action.  Here the client is free: any worker may  *)
(* be unassigned with any item count, or declared inactive, at any time.   *)
(* TaskProtocol restricts it to what the master and the slaves really do.  *)
(***************************************************************************)
EXTENDS Integers, FiniteSets

CONSTANTS Workers,       \* MPI ranks 1..size-1, the slave processes
          Items,         \* serial numbers of work items
          Kinds,         \* the worker types a backend may report
          ShareDivisor   \* 5 in the code: a share is 1/5 of an even split

ASSUME WorkersAssumption == IsFiniteSet(Workers) /\ Workers # {}
ASSUME ItemsAssumption == IsFiniteSet(Items)
ASSUME KindsAssumption == Kinds \subseteq {"cpu", "gpu"}
ASSUME DivisorAssumption == ShareDivisor \in Nat \ {0}

VARIABLES queue,         \* items not yet handed to a worker
          initialized,   \* workers whose worker_data has been filled in
          assigned,      \* workers holding an assignment
          inactive,      \* workers that have closed down
          timed,         \* workers with a non-zero wanted processing time
          kinds,         \* has_cpus / has_gpus, as the set of types seen
          waiting,       \* waiting_for_setup
          unassigned,    \* number of workers without an assignment
          active,        \* number of active workers
          inFlight,      \* work_items_in_flight
          completed,     \* work_items_completed
          maxShare,      \* max_work_allocation
          plan,          \* list<work_assignment> still to be pushed out
          raised,        \* the scheduling exception thrown, or "none"
          wanted         \* the items given to the task (history)

schedVars == <<queue, initialized, assigned, inactive, timed, kinds, waiting,
               unassigned, active, inFlight, completed, maxShare, plan,
               raised, wanted>>

Exceptions == {"no_unassigned", "already_assigned", "assign_not_exist",
               "unassigned_mismatch", "mixed_strategy",
               "not_already_assigned", "overrelease", "already_inactive",
               "under_inflight"}

NoPlan == [w \in Workers |-> {}]
Planning == plan # NoPlan

\* The constructor also leaves waiting_for_setup at zero, before any task.
Ready == waiting = 0 /\ initialized # {}

\* Mutation: workers that hold an assignment are not filtered out.
Idle_All == Workers
Idle == Workers \ assigned

-----------------------------------------------------------------------------
(* Task set-up                                                             *)

SchedInit ==
  /\ queue = {} /\ initialized = {} /\ assigned = {} /\ inactive = {}
  /\ timed = {} /\ kinds = {} /\ plan = NoPlan
  /\ waiting = 0 /\ unassigned = 0 /\ active = 0
  /\ inFlight = 0 /\ completed = 0 /\ maxShare = 1 /\ wanted = {}
  /\ raised = "none"

\* prepare_queue() for the task, then reset() before the workers report.
NewTask(items) ==
  /\ queue' = items /\ wanted' = items
  /\ waiting' = Cardinality(Workers) /\ initialized' = {}
  /\ assigned' = {} /\ inactive' = {} /\ timed' = {} /\ kinds' = {}
  /\ unassigned' = 0 /\ active' = 0 /\ inFlight' = 0 /\ completed' = 0
  /\ plan' = NoPlan /\ raised' = "none"
  /\ UNCHANGED maxShare

\* complete_queue_setup(), called when the last worker has reported.
LargestShare ==
  LET share == Cardinality(queue) \div (ShareDivisor * Cardinality(Workers))
  IN  IF share > 1 THEN share ELSE 1

\* A second identification is logged and otherwise ignored.
InitializeWorker(w, k) ==
  /\ waiting # 0
  /\ IF w \in initialized
     THEN UNCHANGED <<initialized, kinds, waiting, unassigned, active, maxShare>>
     ELSE /\ initialized' = initialized \cup {w}
          /\ kinds' = kinds \cup {k}
          /\ waiting' = waiting - 1
          /\ unassigned' = unassigned + 1
          /\ active' = active + 1
          /\ maxShare' = IF waiting = 1 THEN LargestShare ELSE maxShare
  /\ UNCHANGED <<queue, assigned, inactive, timed, inFlight, completed, plan,
                 raised, wanted>>

-----------------------------------------------------------------------------
(* Planning: assign_work()                                                 *)

\* Mutation: the iterator over the queue is not moved on between workers.
Divisions_Shared ==
  {p \in [Workers -> SUBSET queue] :
     /\ \A w \in Workers \ Idle : p[w] = {}
     /\ (\E w \in Idle : p[w] = {}) => UNION {p[w] : w \in Workers} = queue}

\* Ways of dividing the queue between idle workers: every worker gets its
\* own items, and a worker goes without only when the queue runs out.
Divisions ==
  {p \in [Workers -> SUBSET queue] :
     /\ \A w \in Workers \ Idle : p[w] = {}
     /\ \A v, w \in Workers : v # w => p[v] \cap p[w] = {}
     /\ (\E w \in Idle : p[w] = {}) => UNION {p[w] : w \in Workers} = queue}

\* n <= floor(|queue| / sqrt(|Idle| * |Workers|)), or one item.
WithinEvenShare(n) ==
  \/ n <= 1
  \/ n * n * Cardinality(Idle) * Cardinality(Workers)
        <= Cardinality(queue) * Cardinality(queue)

\* A worker that has not been timed comes first and gets a single item; the
\* granularity of a timed one is any number of items up to both caps.
CpuPlans ==
  {p \in Divisions :
     /\ \A w \in Idle \ timed : Cardinality(p[w]) <= 1
     /\ \A w \in Idle \cap timed : /\ Cardinality(p[w]) <= maxShare
                                   /\ WithinEvenShare(Cardinality(p[w]))
     /\ (\E w \in Idle \cap timed : p[w] # {}) =>
           \A w \in Idle \ timed : p[w] # {}}

\* The queue is split as evenly as it divides.
GpuPlans ==
  LET each == Cardinality(queue) \div Cardinality(Idle)
  IN {p \in Divisions :
        /\ UNION {p[w] : w \in Workers} = queue
        /\ \A w \in Idle : Cardinality(p[w]) \in {each, each + 1}}

Assignable == queue # {} /\ unassigned > 0

\* A pool with both kinds of worker has no strategy; the GPU strategy checks
\* its list of idle workers against the counter.
AssignWork ==
  /\ Ready /\ Assignable /\ ~Planning /\ raised = "none"
  /\ \/ /\ kinds = {"cpu"}
        /\ plan' \in CpuPlans
        /\ UNCHANGED raised
     \/ /\ kinds = {"gpu"}
        /\ IF Cardinality(Idle) # unassigned
           THEN raised' = "unassigned_mismatch" /\ UNCHANGED plan
           ELSE plan' \in GpuPlans /\ UNCHANGED raised
     \/ /\ kinds = {"cpu", "gpu"}
        /\ raised' = "mixed_strategy"
        /\ UNCHANGED plan
  /\ UNCHANGED <<queue, initialized, assigned, inactive, timed, kinds, waiting,
                 unassigned, active, inFlight, completed, maxShare, wanted>>

-----------------------------------------------------------------------------
(* Assignment, release and close-down of one worker                        *)

\* Mutation: the worker is released but not counted as unassigned again.
Released_Uncounted(n) == unassigned' = unassigned
Released(n) == unassigned' = unassigned + 1

\* Mutation: the decrement is not guarded (and wraps in the code).
Landed_Unguarded(n) == inFlight' = inFlight - n /\ UNCHANGED raised
\* Mutation: finished items are not taken off the number in flight.
Landed_Kept(n) == UNCHANGED <<inFlight, raised>>
Landed(n) ==
  IF inFlight >= n
  THEN inFlight' = inFlight - n /\ UNCHANGED raised
  ELSE raised' = "overrelease" /\ UNCHANGED inFlight

TakeFromQueue(items) == queue' = queue \ items

\* The checks mark_assigned() makes before it touches anything.
Refusal(w) ==
  IF unassigned = 0 THEN "no_unassigned"
  ELSE IF w \in assigned THEN "already_assigned" ELSE "none"

\* Push one planned assignment out.  An item missing from the queue throws
\* when the worker is already marked; the task is over then, so which of its
\* other items were taken before the throw is left out.
MarkAssigned(w) ==
  /\ raised = "none" /\ plan[w] # {}
  /\ plan' = [plan EXCEPT ![w] = {}]
  /\ IF Refusal(w) # "none"
     THEN /\ raised' = Refusal(w)
          /\ UNCHANGED <<queue, assigned, unassigned, inFlight>>
     ELSE /\ assigned' = assigned \cup {w}
          /\ unassigned' = unassigned - 1
          /\ TakeFromQueue(plan[w])
          /\ inFlight' = inFlight + Cardinality(plan[w] \cap queue)
          /\ raised' = IF plan[w] \subseteq queue
                       THEN "none" ELSE "assign_not_exist"
  /\ UNCHANGED <<initialized, inactive, timed, kinds, waiting, active,
                 completed, maxShare, wanted>>

\* A worker reports the end of its assignment with n items processed.
MarkUnassigned(w, n) ==
  /\ Ready /\ ~Planning /\ raised = "none"
  /\ IF w \notin assigned
     THEN /\ raised' = "not_already_assigned"
          /\ UNCHANGED <<assigned, timed, unassigned, inFlight, completed>>
     ELSE /\ assigned' = assigned \ {w}
          /\ timed' = timed \cup {w}
          /\ Released(n)
          /\ completed' = completed + n
          /\ Landed(n)
  /\ UNCHANGED <<queue, initialized, inactive, kinds, waiting, active,
                 maxShare, plan, wanted>>

\* A worker has closed down; the last one must leave nothing in flight.
MarkInactive(w) ==
  /\ Ready /\ ~Planning /\ raised = "none"
  /\ IF w \in inactive
     THEN raised' = "already_inactive" /\ UNCHANGED <<inactive, active>>
     ELSE /\ inactive' = inactive \cup {w}
          /\ active' = active - 1
          /\ raised' = IF active = 1 /\ inFlight > 0
                       THEN "under_inflight" ELSE raised
  /\ UNCHANGED <<queue, initialized, assigned, timed, kinds, waiting,
                 unassigned, inFlight, completed, maxShare, plan, wanted>>

SchedNext ==
  \/ \E items \in SUBSET Items : NewTask(items)
  \/ \E w \in Workers, k \in Kinds : InitializeWorker(w, k)
  \/ AssignWork
  \/ \E w \in Workers : MarkAssigned(w)
  \/ \E w \in Workers, n \in 0 .. Cardinality(Items) : MarkUnassigned(w, n)
  \/ \E w \in Workers : MarkInactive(w)

SchedSpec == SchedInit /\ [][SchedNext]_schedVars

-----------------------------------------------------------------------------
(* Properties                                                              *)

\* Every variable has its type; in particular no counter goes below zero
\* (they are unsigned in worker_scheduler.h and would wrap).
SchedTypeOK ==
  /\ queue \in SUBSET Items /\ wanted \in SUBSET Items
  /\ initialized \in SUBSET Workers
  /\ assigned \in SUBSET Workers
  /\ inactive \in SUBSET Workers
  /\ timed \in SUBSET Workers
  /\ kinds \in SUBSET {"cpu", "gpu"}
  /\ waiting \in Nat /\ unassigned \in Nat /\ active \in Nat
  /\ inFlight \in Nat /\ completed \in Nat
  /\ maxShare \in Nat \ {0}
  /\ plan \in [Workers -> SUBSET Items]
  /\ raised \in Exceptions \cup {"none"}

\* The counters initialize_worker(), mark_assigned(), mark_unassigned() and
\* mark_inactive() keep by hand always agree with the per-worker flags.
CountersAgree ==
  /\ \/ waiting = Cardinality(Workers \ initialized)
     \/ waiting = 0 /\ initialized = {}
  /\ unassigned = Cardinality(initialized \ assigned)
  /\ active = Cardinality(initialized \ inactive)

\* While assign_work_to_workers() pushes the list it computed, every entry
\* still names queued items, and no item is promised to two workers.
PlanSound ==
  raised = "none" =>
    /\ \A w \in Workers : plan[w] \subseteq queue
    /\ \A v, w \in Workers : v # w => plan[v] \cap plan[w] = {}

\* Until something is thrown, every item of the task is queued, in flight
\* or completed: query_completion() divides by their sum.
ItemsConserved ==
  raised = "none" =>
    Cardinality(queue) + inFlight + completed = Cardinality(wanted)

\* The exceptions by which the scheduler checks its own bookkeeping are
\* never thrown, whatever counts and messages the workers send.
OwnChecksNeverFire ==
  raised \notin {"no_unassigned", "already_assigned", "assign_not_exist",
                 "unassigned_mismatch"}

\* What makes these inductive: a worker is flagged only once it has reported,
\* and while a plan is pending every worker has reported and those it names
\* hold no assignment.
FlagsNested == assigned \subseteq initialized /\ inactive \subseteq initialized
PromisedToIdle ==
  \A w \in Workers : plan[w] # {} => initialized = Workers /\ w \notin assigned

SchedInv ==
  /\ SchedTypeOK /\ CountersAgree /\ FlagsNested
  /\ PromisedToIdle /\ PlanSound /\ ItemsConserved /\ OwnChecksNeverFire
=============================================================================
