----------------------- MODULE WorkerSchedulerProofs -----------------------
(***************************************************************************)
(* Proofs that the scheduler's bookkeeping is right for every pool of      *)
(* workers and every queue.                                                *)
(***************************************************************************)
EXTENDS WorkerScheduler, FiniteSetTheorems, TLAPS

\* The pool and the queues are finite sets, so their cardinalities count.
LEMMA FinitePool ==
  ASSUME NEW S \in SUBSET Workers
  PROVE  IsFiniteSet(S) /\ Cardinality(S) \in Nat
BY WorkersAssumption, FS_Subset, FS_CardinalityType

\* So do the sets of items.
LEMMA FiniteItems ==
  ASSUME NEW S \in SUBSET Items
  PROVE  IsFiniteSet(S) /\ Cardinality(S) \in Nat
BY ItemsAssumption, FS_Subset, FS_CardinalityType

\* Moving one worker between the two sides of a flag moves the counter by one.
LEMMA OneWorker ==
  ASSUME NEW S \in SUBSET Workers, NEW w \in Workers
  PROVE  /\ w \notin S => Cardinality(S \cup {w}) = Cardinality(S) + 1
         /\ w \in S => /\ Cardinality(S \ {w}) = Cardinality(S) - 1
                       /\ Cardinality(S) >= 1
<1>1. IsFiniteSet(S) /\ Cardinality(S) \in Nat
  BY FinitePool
<1>2. w \notin S => Cardinality(S \cup {w}) = Cardinality(S) + 1
  BY <1>1, FS_AddElement
<1>3. w \in S => Cardinality(S \ {w}) = Cardinality(S) - 1
  BY <1>1, FS_RemoveElement
<1>4. Cardinality(S \ {w}) \in Nat
  BY FinitePool
<1>. QED BY <1>1, <1>2, <1>3, <1>4

\* Handing out part of the queue moves as many items as it takes off it.
LEMMA PartOfQueue ==
  ASSUME NEW q \in SUBSET Items, NEW p \in SUBSET q
  PROVE  /\ Cardinality(q \ p) + Cardinality(p) = Cardinality(q)
         /\ Cardinality(p) \in Nat /\ Cardinality(q \ p) \in Nat
<1>1. IsFiniteSet(q) /\ Cardinality(q) \in Nat
  BY FiniteItems
<1>2. Cardinality(q \ p) = Cardinality(q) - Cardinality(q \cap p)
  BY <1>1, FS_Difference
<1>3. q \cap p = p
  OBVIOUS
<1>4. p \in SUBSET Items /\ q \ p \in SUBSET Items
  OBVIOUS
<1>5. Cardinality(p) \in Nat /\ Cardinality(q \ p) \in Nat
  BY <1>4, FiniteItems
<1>. QED BY <1>1, <1>2, <1>3, <1>5

\* Once set-up is complete every worker of the pool has reported.
LEMMA ReadyMeansAll ==
  ASSUME SchedTypeOK, CountersAgree, Ready
  PROVE  initialized = Workers
<1>1. Cardinality(Workers \ initialized) = 0
  BY DEF CountersAgree, Ready
<1>2. IsFiniteSet(Workers \ initialized)
  BY FinitePool DEF SchedTypeOK
<1>3. Workers \ initialized = {}
  BY <1>1, <1>2, FS_EmptySet
<1>. QED BY <1>3 DEF SchedTypeOK

-----------------------------------------------------------------------------
\* The scheduler before its workers are known.
LEMMA InitInv == SchedInit => SchedInv
<1>. SUFFICES ASSUME SchedInit PROVE SchedInv
  OBVIOUS
<1>1. Cardinality({}) = 0
  BY FS_EmptySet
<1>2. SchedTypeOK
  BY DEF SchedInit, SchedTypeOK, NoPlan, Exceptions
<1>3. CountersAgree
  <2>1. initialized \ assigned = {} /\ initialized \ inactive = {}
    BY DEF SchedInit
  <2>. QED BY <1>1, <2>1 DEF SchedInit, CountersAgree
<1>4. FlagsNested /\ PromisedToIdle /\ PlanSound /\ OwnChecksNeverFire
  BY DEF SchedInit, FlagsNested, PromisedToIdle, PlanSound, NoPlan,
         OwnChecksNeverFire
<1>5. ItemsConserved
  BY <1>1 DEF SchedInit, ItemsConserved
<1>. QED BY <1>2, <1>3, <1>4, <1>5 DEF SchedInv

\* prepare_queue() and reset()
LEMMA NewTaskInv ==
  ASSUME SchedInv, NEW items \in SUBSET Items, NewTask(items)
  PROVE  SchedInv'
<1>1. Cardinality(items) \in Nat /\ Cardinality(Workers) \in Nat
  BY FiniteItems, FinitePool
<1>2. Cardinality({}) = 0
  BY FS_EmptySet
<1>3. SchedTypeOK'
  BY <1>1 DEF SchedInv, SchedTypeOK, NewTask, NoPlan, Exceptions
<1>4. CountersAgree'
  <2>1. /\ Workers \ initialized' = Workers
        /\ initialized' \ assigned' = {} /\ initialized' \ inactive' = {}
    BY DEF NewTask
  <2>2. waiting' = Cardinality(Workers) /\ unassigned' = 0 /\ active' = 0
    BY DEF NewTask
  <2>. QED BY <1>2, <2>1, <2>2 DEF CountersAgree
<1>5. FlagsNested' /\ PromisedToIdle' /\ PlanSound' /\ OwnChecksNeverFire'
  BY DEF NewTask, FlagsNested, PromisedToIdle, PlanSound, NoPlan,
         OwnChecksNeverFire
<1>6. ItemsConserved'
  BY <1>1 DEF NewTask, ItemsConserved
<1>. QED BY <1>3, <1>4, <1>5, <1>6 DEF SchedInv

\* initialize_worker() and complete_queue_setup()
LEMMA InitializeWorkerInv ==
  ASSUME SchedInv, NEW w \in Workers, NEW k \in Kinds, InitializeWorker(w, k)
  PROVE  SchedInv'
<1>. USE DEF SchedInv
<1>1. CASE w \in initialized
  <2>1. UNCHANGED schedVars
    BY <1>1 DEF InitializeWorker, schedVars
  <2>. QED
    BY <2>1 DEF schedVars, SchedTypeOK, CountersAgree, FlagsNested,
         PromisedToIdle, PlanSound, ItemsConserved, OwnChecksNeverFire
<1>2. CASE w \notin initialized
  <2>1. /\ initialized' = initialized \cup {w}
        /\ waiting' = waiting - 1 /\ waiting # 0
        /\ unassigned' = unassigned + 1 /\ active' = active + 1
        /\ kinds' = kinds \cup {k}
        /\ maxShare' = IF waiting = 1 THEN LargestShare ELSE maxShare
    BY <1>2 DEF InitializeWorker
  <2>2. UNCHANGED <<queue, assigned, inactive, timed, inFlight, completed,
                    plan, raised, wanted>>
    BY DEF InitializeWorker
  <2>3. w \notin assigned /\ w \notin inactive
    BY <1>2 DEF FlagsNested
  <2>4. LargestShare \in Nat \ {0}
    <3>1. /\ Cardinality(queue) \in Nat /\ Cardinality(Workers) \in Nat
          /\ ShareDivisor \in Nat \ {0}
      BY FiniteItems, FinitePool, DivisorAssumption DEF SchedTypeOK
    <3>2. Cardinality(Workers) # 0
      BY WorkersAssumption, FS_EmptySet
    <3>3. ShareDivisor * Cardinality(Workers) \in Nat \ {0}
      BY <3>1, <3>2
    <3>4. Cardinality(queue) \div (ShareDivisor * Cardinality(Workers)) \in Int
      BY <3>1, <3>3
    <3>. QED BY <3>4 DEF LargestShare
  <2>5. SchedTypeOK'
    BY <2>1, <2>2, <2>4, KindsAssumption DEF SchedTypeOK
  <2>6. CountersAgree'
    <3>1. waiting' = Cardinality(Workers \ initialized')
      <4>1. waiting = Cardinality(Workers \ initialized)
        BY <2>1 DEF CountersAgree
      <4>2. Workers \ initialized' = (Workers \ initialized) \ {w}
        BY <2>1
      <4>3. Cardinality((Workers \ initialized) \ {w})
              = Cardinality(Workers \ initialized) - 1
        BY <1>2, OneWorker DEF SchedTypeOK
      <4>. QED BY <2>1, <4>1, <4>2, <4>3
    <3>2. unassigned' = Cardinality(initialized' \ assigned')
      <4>1. initialized' \ assigned' = (initialized \ assigned) \cup {w}
        BY <2>1, <2>2, <2>3
      <4>2. Cardinality((initialized \ assigned) \cup {w})
              = Cardinality(initialized \ assigned) + 1
        BY <1>2, OneWorker DEF SchedTypeOK
      <4>. QED BY <2>1, <4>1, <4>2 DEF CountersAgree
    <3>3. active' = Cardinality(initialized' \ inactive')
      <4>1. initialized' \ inactive' = (initialized \ inactive) \cup {w}
        BY <2>1, <2>2, <2>3
      <4>2. Cardinality((initialized \ inactive) \cup {w})
              = Cardinality(initialized \ inactive) + 1
        BY <1>2, OneWorker DEF SchedTypeOK
      <4>. QED BY <2>1, <4>1, <4>2 DEF CountersAgree
    <3>. QED BY <3>1, <3>2, <3>3 DEF CountersAgree
  <2>7. PromisedToIdle'
    BY <1>2, <2>1, <2>2 DEF PromisedToIdle
  <2>8. FlagsNested' /\ PlanSound' /\ ItemsConserved' /\ OwnChecksNeverFire'
    BY <2>1, <2>2 DEF FlagsNested, PlanSound, ItemsConserved, OwnChecksNeverFire
  <2>. QED BY <2>5, <2>6, <2>7, <2>8
<1>. QED BY <1>1, <1>2

\* Both strategies choose among the divisions of the queue.
LEMMA PlansAreDivisions ==
  /\ CpuPlans \subseteq Divisions
  /\ GpuPlans \subseteq Divisions
BY DEF CpuPlans, GpuPlans

\* assign_work(): the GPU strategy finds as many idle workers as the counter
\* says, and what is planned is queued and goes to idle workers only.
LEMMA AssignWorkInv ==
  ASSUME SchedInv, AssignWork
  PROVE  SchedInv'
<1>. USE DEF SchedInv
<1>1. initialized = Workers
  BY ReadyMeansAll DEF AssignWork
<1>2. Cardinality(Idle) = unassigned
  BY <1>1 DEF Idle, CountersAgree
<1>3. UNCHANGED <<queue, initialized, assigned, inactive, timed, kinds, waiting,
                  unassigned, active, inFlight, completed, maxShare, wanted>>
  BY DEF AssignWork
<1>4. plan' \in Divisions \/ UNCHANGED plan
  BY PlansAreDivisions DEF AssignWork
<1>5. raised' \in {"none", "mixed_strategy"}
  BY <1>2 DEF AssignWork
<1>6. plan' \in [Workers -> SUBSET queue] \/ UNCHANGED plan
  BY <1>4 DEF Divisions
<1>7. SchedTypeOK'
  BY <1>3, <1>5, <1>6 DEF SchedTypeOK, Exceptions
<1>8. PromisedToIdle'
  <2>1. CASE plan' \in Divisions
    BY <1>1, <1>3, <2>1 DEF Divisions, Idle, PromisedToIdle
  <2>2. CASE UNCHANGED plan
    BY <1>3, <2>2 DEF PromisedToIdle
  <2>. QED BY <1>4, <2>1, <2>2
<1>9. PlanSound'
  <2>1. CASE plan' \in Divisions
    BY <1>3, <2>1 DEF Divisions, PlanSound
  <2>2. CASE UNCHANGED plan
    BY <1>3, <2>2 DEF PlanSound, AssignWork
  <2>. QED BY <1>4, <2>1, <2>2
<1>10. CountersAgree' /\ FlagsNested'
  BY <1>3 DEF CountersAgree, FlagsNested
<1>11. ItemsConserved' /\ OwnChecksNeverFire'
  BY <1>3, <1>5 DEF ItemsConserved, OwnChecksNeverFire, AssignWork
<1>. QED BY <1>7, <1>8, <1>9, <1>10, <1>11

\* mark_assigned(): none of its checks can fail, because the plan names idle
\* workers and queued items, and stays so while it is being pushed out.
LEMMA MarkAssignedInv ==
  ASSUME SchedInv, NEW w \in Workers, MarkAssigned(w)
  PROVE  SchedInv'
<1>. USE DEF SchedInv
<1>1. /\ raised = "none" /\ plan[w] # {}
      /\ plan' = [plan EXCEPT ![w] = {}]
      /\ UNCHANGED <<initialized, inactive, timed, kinds, waiting, active,
                     completed, maxShare, wanted>>
  BY DEF MarkAssigned
<1>2. initialized = Workers /\ w \notin assigned
  BY <1>1 DEF PromisedToIdle
<1>3. plan[w] \subseteq queue /\ plan[w] \in SUBSET Items
  BY <1>1 DEF PlanSound, SchedTypeOK
<1>4. /\ unassigned >= 1
      /\ Cardinality((initialized \ assigned) \ {w}) = unassigned - 1
  <2>1. w \in initialized \ assigned
    BY <1>2
  <2>. QED BY <2>1, OneWorker DEF CountersAgree, SchedTypeOK
<1>5. Refusal(w) = "none"
  BY <1>2, <1>4 DEF Refusal
<1>6. /\ assigned' = assigned \cup {w}
      /\ unassigned' = unassigned - 1
      /\ queue' = queue \ plan[w]
      /\ inFlight' = inFlight + Cardinality(plan[w])
      /\ raised' = "none"
  <2>1. plan[w] \cap queue = plan[w]
    BY <1>3
  <2>. QED BY <1>3, <1>5, <2>1 DEF MarkAssigned, TakeFromQueue
<1>7. /\ Cardinality(queue') + Cardinality(plan[w]) = Cardinality(queue)
      /\ Cardinality(plan[w]) \in Nat
      /\ Cardinality(queue') \in Nat
  BY <1>3, <1>6, PartOfQueue DEF SchedTypeOK
<1>8. SchedTypeOK'
  BY <1>1, <1>4, <1>6, <1>7 DEF SchedTypeOK
<1>9. CountersAgree'
  <2>1. initialized' \ assigned' = (initialized \ assigned) \ {w}
    BY <1>1, <1>6
  <2>2. unassigned' = Cardinality(initialized' \ assigned')
    BY <1>4, <1>6, <2>1
  <2>. QED BY <1>1, <2>2 DEF CountersAgree
<1>10. FlagsNested'
  BY <1>1, <1>2, <1>6 DEF FlagsNested, SchedTypeOK
<1>11. PromisedToIdle'
  BY <1>1, <1>6 DEF PromisedToIdle, SchedTypeOK
<1>12. PlanSound'
  <2>1. ASSUME NEW v \in Workers PROVE plan'[v] \subseteq queue'
    <3>1. CASE v = w
      BY <1>1, <3>1 DEF SchedTypeOK
    <3>2. CASE v # w
      BY <1>1, <1>6, <3>2 DEF PlanSound, SchedTypeOK
    <3>. QED BY <3>1, <3>2
  <2>2. ASSUME NEW u \in Workers, NEW v \in Workers, u # v
        PROVE  plan'[u] \cap plan'[v] = {}
    BY <1>1, <2>2 DEF PlanSound, SchedTypeOK
  <2>. QED BY <2>1, <2>2 DEF PlanSound
<1>13. ItemsConserved'
  <2>1. Cardinality(queue) + inFlight + completed = Cardinality(wanted)
    BY <1>1 DEF ItemsConserved
  <2>2. Cardinality(queue) \in Nat /\ inFlight \in Nat /\ completed \in Nat
    BY FiniteItems DEF SchedTypeOK
  <2>3. Cardinality(queue') + inFlight' + completed' = Cardinality(wanted')
    BY <1>1, <1>6, <1>7, <2>1, <2>2
  <2>. QED BY <2>3 DEF ItemsConserved
<1>14. OwnChecksNeverFire'
  BY <1>6 DEF OwnChecksNeverFire
<1>. QED BY <1>8, <1>9, <1>10, <1>11, <1>12, <1>13, <1>14

\* mark_unassigned()
LEMMA MarkUnassignedInv ==
  ASSUME SchedInv, NEW w \in Workers, NEW n \in Nat, MarkUnassigned(w, n)
  PROVE  SchedInv'
<1>. USE DEF SchedInv
<1>1. /\ Ready /\ plan = NoPlan /\ raised = "none"
      /\ UNCHANGED <<queue, initialized, inactive, kinds, waiting, active,
                     maxShare, plan, wanted>>
  BY DEF MarkUnassigned, Planning
<1>2. initialized = Workers
  BY <1>1, ReadyMeansAll
<1>3. PromisedToIdle' /\ PlanSound'
  BY <1>1 DEF PromisedToIdle, PlanSound, NoPlan
<1>4. CASE w \notin assigned
  <2>1. /\ raised' = "not_already_assigned"
        /\ UNCHANGED <<assigned, timed, unassigned, inFlight, completed>>
    BY <1>4 DEF MarkUnassigned
  <2>2. SchedTypeOK'
    BY <1>1, <2>1 DEF SchedTypeOK, Exceptions
  <2>3. CountersAgree' /\ FlagsNested'
    BY <1>1, <2>1 DEF CountersAgree, FlagsNested
  <2>4. ItemsConserved' /\ OwnChecksNeverFire'
    BY <2>1 DEF ItemsConserved, OwnChecksNeverFire
  <2>. QED BY <1>3, <2>2, <2>3, <2>4
<1>5. CASE w \in assigned
  <2>1. /\ assigned' = assigned \ {w} /\ timed' = timed \cup {w}
        /\ unassigned' = unassigned + 1
        /\ completed' = completed + n
        /\ \/ inFlight >= n /\ inFlight' = inFlight - n /\ UNCHANGED raised
           \/ raised' = "overrelease" /\ UNCHANGED inFlight
    BY <1>5 DEF MarkUnassigned, Released, Landed
  <2>2. SchedTypeOK'
    BY <1>1, <2>1 DEF SchedTypeOK, Exceptions
  <2>3. CountersAgree'
    <3>1. initialized' \ assigned' = (initialized \ assigned) \cup {w}
      BY <1>1, <1>2, <2>1
    <3>2. Cardinality((initialized \ assigned) \cup {w})
            = Cardinality(initialized \ assigned) + 1
      BY <1>5, OneWorker DEF SchedTypeOK
    <3>. QED BY <1>1, <2>1, <3>1, <3>2 DEF CountersAgree
  <2>4. FlagsNested'
    BY <1>1, <2>1 DEF FlagsNested
  <2>5. ItemsConserved'
    <3>1. Cardinality(queue) + inFlight + completed = Cardinality(wanted)
      BY <1>1 DEF ItemsConserved
    <3>2. Cardinality(queue) \in Nat /\ inFlight \in Nat /\ completed \in Nat
      BY FiniteItems DEF SchedTypeOK
    <3>. QED BY <1>1, <2>1, <3>1, <3>2 DEF ItemsConserved
  <2>6. OwnChecksNeverFire'
    BY <1>1, <2>1 DEF OwnChecksNeverFire
  <2>. QED BY <1>3, <2>2, <2>3, <2>4, <2>5, <2>6
<1>. QED BY <1>4, <1>5

\* mark_inactive()
LEMMA MarkInactiveInv ==
  ASSUME SchedInv, NEW w \in Workers, MarkInactive(w)
  PROVE  SchedInv'
<1>. USE DEF SchedInv
<1>1. /\ Ready /\ plan = NoPlan /\ raised = "none"
      /\ UNCHANGED <<queue, initialized, assigned, timed, kinds, waiting,
                     unassigned, inFlight, completed, maxShare, plan, wanted>>
  BY DEF MarkInactive, Planning
<1>2. initialized = Workers
  BY <1>1, ReadyMeansAll
<1>3. PromisedToIdle' /\ PlanSound'
  BY <1>1 DEF PromisedToIdle, PlanSound, NoPlan
<1>4. raised' \in {"none", "already_inactive", "under_inflight"}
  BY <1>1 DEF MarkInactive
<1>5. OwnChecksNeverFire' /\ ItemsConserved'
  BY <1>1, <1>4 DEF OwnChecksNeverFire, ItemsConserved
<1>6. CASE w \in inactive
  <2>1. UNCHANGED <<inactive, active>>
    BY <1>6 DEF MarkInactive
  <2>2. SchedTypeOK'
    BY <1>1, <1>4, <2>1 DEF SchedTypeOK, Exceptions
  <2>3. CountersAgree' /\ FlagsNested'
    BY <1>1, <2>1 DEF CountersAgree, FlagsNested
  <2>. QED BY <1>3, <1>5, <2>2, <2>3
<1>7. CASE w \notin inactive
  <2>1. inactive' = inactive \cup {w} /\ active' = active - 1
    BY <1>7 DEF MarkInactive
  <2>2. /\ active >= 1
        /\ Cardinality((initialized \ inactive) \ {w}) = active - 1
    BY <1>2, <1>7, OneWorker DEF CountersAgree, SchedTypeOK
  <2>3. SchedTypeOK'
    BY <1>1, <1>4, <2>1, <2>2 DEF SchedTypeOK, Exceptions
  <2>4. CountersAgree'
    <3>1. initialized' \ inactive' = (initialized \ inactive) \ {w}
      BY <1>1, <2>1
    <3>. QED BY <1>1, <2>1, <2>2, <3>1 DEF CountersAgree
  <2>5. FlagsNested'
    BY <1>1, <1>2, <2>1 DEF FlagsNested
  <2>. QED BY <1>3, <1>5, <2>3, <2>4, <2>5
<1>. QED BY <1>6, <1>7

-----------------------------------------------------------------------------
\* Every operation of the scheduler keeps the invariant.
LEMMA NextInv ==
  ASSUME SchedInv, [SchedNext]_schedVars
  PROVE  SchedInv'
<1>1. CASE UNCHANGED schedVars
  BY <1>1 DEF schedVars, SchedInv, SchedTypeOK, CountersAgree, FlagsNested,
     PromisedToIdle, PlanSound, ItemsConserved, OwnChecksNeverFire
<1>2. ASSUME NEW items \in SUBSET Items, NewTask(items) PROVE SchedInv'
  BY <1>2, NewTaskInv
<1>3. ASSUME NEW w \in Workers, NEW k \in Kinds, InitializeWorker(w, k)
      PROVE  SchedInv'
  BY <1>3, InitializeWorkerInv
<1>4. CASE AssignWork
  BY <1>4, AssignWorkInv
<1>5. ASSUME NEW w \in Workers, MarkAssigned(w) PROVE SchedInv'
  BY <1>5, MarkAssignedInv
<1>6. ASSUME NEW w \in Workers, NEW n \in 0 .. Cardinality(Items),
             MarkUnassigned(w, n)
      PROVE  SchedInv'
  <2>1. n \in Nat
    BY FiniteItems
  <2>. QED BY <1>6, <2>1, MarkUnassignedInv
<1>7. ASSUME NEW w \in Workers, MarkInactive(w) PROVE SchedInv'
  BY <1>7, MarkInactiveInv
<1>. QED BY <1>1, <1>2, <1>3, <1>4, <1>5, <1>6, <1>7 DEF SchedNext

\* Every reachable state of the scheduler satisfies the inductive invariant:
\* its types, its counters, a sound plan and the balance of items.
THEOREM SchedulerInvariant == SchedSpec => []SchedInv
<1>1. SchedInit => SchedInv
  BY InitInv
<1>2. SchedInv /\ [SchedNext]_schedVars => SchedInv'
  BY NextInv
<1>. QED BY <1>1, <1>2, PTL DEF SchedSpec

\* Type correctness: in particular the unsigned counters never wrap.
THEOREM SchedulerTypes == SchedSpec => []SchedTypeOK
<1>1. SchedInv => SchedTypeOK
  BY DEF SchedInv
<1>. QED BY <1>1, SchedulerInvariant, PTL

\* The hand-kept counters agree with the per-worker flags.
THEOREM SchedulerCounters == SchedSpec => []CountersAgree
<1>1. SchedInv => CountersAgree
  BY DEF SchedInv
<1>. QED BY <1>1, SchedulerInvariant, PTL

\* A plan being pushed out names queued items, each for one worker.
THEOREM SchedulerPlans == SchedSpec => []PlanSound
<1>1. SchedInv => PlanSound
  BY DEF SchedInv
<1>. QED BY <1>1, SchedulerInvariant, PTL

\* No item is lost from or added to the scheduler's accounts.
THEOREM SchedulerConservation == SchedSpec => []ItemsConserved
<1>1. SchedInv => ItemsConserved
  BY DEF SchedInv
<1>. QED BY <1>1, SchedulerInvariant, PTL

\* The scheduler's checks of its own bookkeeping can never fail.
THEOREM SchedulerSelfChecks == SchedSpec => []OwnChecksNeverFire
<1>1. SchedInv => OwnChecksNeverFire
  BY DEF SchedInv
<1>. QED BY <1>1, SchedulerInvariant, PTL
=============================================================================
