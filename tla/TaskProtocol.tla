---------------------------- MODULE TaskProtocol ----------------------------
(***************************************************************************)
(* One run of a job queue: the master (manager/detail/                     *)
(* master_controller_core.h and master_controller_integration.h) deals a   *)
(* sequence of tasks out to the slaves (slave_controller_impl.h), polls    *)
(* them, and aggregates the temporary containers they send.  The master    *)
(* uses WorkerScheduler for its bookkeeping.                               *)
(*                                                                         *)
(* Each pair of processes has a FIFO channel in each direction: all sends  *)
(* go through one communicator and are received in probe order, and MPI    *)
(* does not let such messages overtake.  Sends are buffered.               *)
(*                                                                         *)
(* NEW_WORK_ACKNOWLEDGMENT and REPORT_ERROR are left out: the master only  *)
(* logs them.                                                              *)
(***************************************************************************)
EXTENDS WorkerScheduler, Sequences

CONSTANTS NumTasks,      \* length of the job queue
          Checkpointed,  \* tasks with a default checkpoint interval
          CommitFailed,  \* arg_cache.commit_failed: FALSE is --reject-failed
          BackendThrows, \* may a flush, or backend_process_queue(), throw?
          MasterThrows,  \* may task set-up or an aggregation throw?
          SlaveSkips     \* may a slave fail to read the task record?

ASSUME TasksAssumption == NumTasks \in Nat /\ Checkpointed \subseteq 1 .. NumTasks
ASSUME FlagsAssumption ==
  {CommitFailed, BackendThrows, MasterThrows, SlaveSkips} \subseteq BOOLEAN

VARIABLES
  \* master
  phase,         \* "next", "capture", "poll", "drain", "loads", "over"
  task,          \* index of the current task
  closing,       \* CloseDown_Context::sent_closedown
  aggregations,  \* aggregation_queue: contents of the containers
  stored,        \* items in the main container of the current writer
  failures,      \* the writer's failed serials
  dropped,       \* items in containers that could not be aggregated
  success,       \* no assignment of this task has failed
  result,        \* how each task ended (history)
  respondents,   \* number of workers that have reported their load
  \* slaves
  at,            \* where each slave is
  serving,       \* the task it works for
  todo,          \* items of its assignment not yet processed
  good,          \* num_integrations since begin_assignment()
  bad,           \* failed_serials since begin_assignment()
  cache,         \* items whose results are held in its batcher
  interval,      \* 1 while a local checkpoint interval is set
  \* network
  toSlave, toMaster

masterVars == <<phase, task, closing, aggregations, stored, failures, dropped,
                success, result, respondents>>
slaveVars == <<at, serving, todo, good, bad, cache, interval>>
vars == <<schedVars, masterVars, slaveVars, toSlave, toMaster>>

Msg(tag, items, n) == [tag |-> tag, task |-> task, items |-> items, n |-> n]
Order(tag) == Msg(tag, {}, 0)

Broadcast(msgs) == toSlave' = [w \in Workers |-> toSlave[w] \o msgs]

\* A slave stamps its messages with the task it serves, which the code does
\* not: the stamp only serves to state which task a message belongs to.
Send(w, msgs) ==
  toMaster' = [toMaster EXCEPT ![w] =
    @ \o [k \in DOMAIN msgs |-> [msgs[k] EXCEPT !.task = serving[w]]]]

FromMaster(w, tags) == toSlave[w] # <<>> /\ Head(toSlave[w]).tag \in tags
FromSlave(w, tags) == toMaster[w] # <<>> /\ Head(toMaster[w]).tag \in tags
TakeOrder(w) == toSlave' = [toSlave EXCEPT ![w] = Tail(@)]
TakeReport(w) == toMaster' = [toMaster EXCEPT ![w] = Tail(@)]

Init ==
  /\ SchedInit
  /\ phase = "next" /\ task = 0 /\ closing = FALSE /\ aggregations = <<>>
  /\ stored = {} /\ failures = {} /\ dropped = {} /\ success = TRUE
  /\ result = [t \in 1 .. NumTasks |-> "pending"] /\ respondents = 0
  /\ at = [w \in Workers |-> "wait"] /\ serving = [w \in Workers |-> 0]
  /\ todo = [w \in Workers |-> {}] /\ good = [w \in Workers |-> 0]
  /\ bad = [w \in Workers |-> {}] /\ cache = [w \in Workers |-> {}]
  /\ interval = [w \in Workers |-> 0]
  /\ toSlave = [w \in Workers |-> <<>>] /\ toMaster = [w \in Workers |-> <<>>]

-----------------------------------------------------------------------------
(* Master: starting a task                                                 *)

Stamped(tags, t) == [k \in DOMAIN tags |-> [Order(tags[k]) EXCEPT !.task = t]]
IfCheckpointed(t, tags) == IF t \in Checkpointed THEN tags ELSE <<>>

\* Mutation: the interval is set for the task but never taken back.
CheckpointLeft_Forgotten(t) == <<>>
\* ~Checkpoint_Context(): only if set_local_checkpoint_interval() was called.
CheckpointLeft(t) == IfCheckpointed(t, <<"UNSET_LOCAL_CHECKPOINT">>)

\* Set up the writer (seeding it may shorten the queue), tell every slave
\* about the task and go on to wait for their identification.
BeginTask(items) ==
  /\ phase = "next" /\ task < NumTasks
  /\ task' = task + 1
  /\ NewTask(items)
  /\ Broadcast(Stamped(IfCheckpointed(task + 1, <<"SET_LOCAL_CHECKPOINT">>)
                         \o <<"NEW_TASK">>, task + 1))
  /\ phase' = "capture"
  /\ closing' = FALSE /\ aggregations' = <<>> /\ stored' = {}
  /\ failures' = {} /\ dropped' = {} /\ success' = TRUE
  /\ UNCHANGED <<result, respondents, slaveVars, toMaster>>

\* Something throws between the two messages (no seed group, say): only the
\* Checkpoint_Context destructor runs.
SetupThrows ==
  /\ MasterThrows /\ phase = "next" /\ task < NumTasks
  /\ task' = task + 1
  /\ Broadcast(Stamped(IfCheckpointed(task + 1, <<"SET_LOCAL_CHECKPOINT">>)
                         \o CheckpointLeft(task + 1), task + 1))
  /\ result' = [result EXCEPT ![task + 1] = "aborted"]
  /\ UNCHANGED <<schedVars, phase, closing, aggregations, stored, failures,
                 dropped, success, respondents, slaveVars, toMaster>>

\* Mutation: the loop ends as soon as any worker has reported.
Captured_Any == TRUE
Captured == waiting' = 0

\* capture_worker_properties() ...
Capture(w, k) ==
  /\ phase = "capture" /\ FromSlave(w, {"WORKER_IDENTIFICATION"})
  /\ TakeReport(w)
  /\ InitializeWorker(w, k)
  /\ phase' = IF Captured THEN "poll" ELSE phase
  /\ UNCHANGED <<task, closing, aggregations, stored, failures, dropped,
                 success, result, respondents, slaveVars, toSlave>>

\* ... which, like compute_worker_loads(), throws away whatever else arrives.
Expected == CASE phase = "capture" -> {"WORKER_IDENTIFICATION"}
              [] phase = "loads" -> {"REPORT_PERFORMANCE_DATA"}
              [] OTHER -> {"DATA_READY", "FINISHED", "FAIL", "WORKER_CLOSE_DOWN"}

Discard(w) ==
  /\ phase \in {"capture", "loads"}
  /\ toMaster[w] # <<>> /\ Head(toMaster[w]).tag \notin Expected
  /\ TakeReport(w)
  /\ UNCHANGED <<schedVars, masterVars, slaveVars, toSlave>>

-----------------------------------------------------------------------------
(* Master: poll_workers()                                                  *)

Polling == phase = "poll" /\ raised = "none"

SendCloseDown ==
  /\ Polling /\ ~Planning /\ queue = {} /\ ~closing
  /\ closing' = TRUE
  /\ Broadcast(<<Order("END_OF_WORK")>>)
  /\ UNCHANGED <<schedVars, phase, task, aggregations, stored, failures,
                 dropped, success, result, respondents, slaveVars, toMaster>>

Plan ==
  /\ Polling /\ AssignWork
  /\ UNCHANGED <<masterVars, slaveVars, toSlave, toMaster>>

\* The message is on its way before mark_assigned() runs its checks.
PushAssignment(w) ==
  /\ Polling
  /\ toSlave' = [toSlave EXCEPT ![w] =
                   Append(@, Msg("NEW_WORK_ASSIGNMENT", plan[w], 0))]
  /\ MarkAssigned(w)
  /\ UNCHANGED <<masterVars, slaveVars, toMaster>>

ReceiveData(w) ==
  /\ Polling /\ ~Planning /\ FromSlave(w, {"DATA_READY"})
  /\ aggregations' = Append(aggregations, Head(toMaster[w]).items)
  /\ TakeReport(w)
  /\ UNCHANGED <<schedVars, phase, task, closing, stored, failures, dropped,
                 success, result, respondents, slaveVars, toSlave>>

\* FINISHED_* and *_FAIL.  When unassign_worker() throws, what would have
\* been merged after it goes down with the writer.
ReceiveFinished(w) ==
  /\ Polling /\ FromSlave(w, {"FINISHED", "FAIL"})
  /\ LET m == Head(toMaster[w])
     IN  /\ MarkUnassigned(w, m.n)
         /\ failures' = failures \cup m.items
         /\ success' = (success /\ m.tag = "FINISHED")
  /\ TakeReport(w)
  /\ UNCHANGED <<phase, task, closing, aggregations, stored, dropped, result,
                 respondents, slaveVars, toSlave>>

ReceiveCloseDown(w) ==
  /\ Polling /\ FromSlave(w, {"WORKER_CLOSE_DOWN"})
  /\ MarkInactive(w)
  /\ TakeReport(w)
  /\ UNCHANGED <<masterVars, slaveVars, toSlave>>

\* One aggregation at a time while polling, only when idle for five seconds,
\* the rest after the loop.  A DATA_CONTAINER_ERROR is trapped.
\* Mutation: one failing container makes the drain give up on the others.
Rest_None == <<>>
Rest == Tail(aggregations)

Aggregate ==
  /\ (Polling /\ ~Planning) \/ phase = "drain"
  /\ aggregations # <<>>
  /\ aggregations' = Rest
  /\ \/ /\ stored' = stored \cup Head(aggregations)
        /\ UNCHANGED dropped
     \/ /\ MasterThrows
        /\ dropped' = dropped \cup Head(aggregations)
        /\ UNCHANGED stored
  /\ UNCHANGED <<schedVars, phase, task, closing, failures, success, result,
                 respondents, slaveVars, toSlave, toMaster>>

\* Mutation: the loop ends when nothing is left to hand out or in flight.
AllInactive_NoWork == queue = {} /\ inFlight = 0
AllInactive == active = 0

EndPolling ==
  /\ Polling /\ ~Planning /\ AllInactive
  /\ phase' = "drain"
  /\ UNCHANGED <<schedVars, task, closing, aggregations, stored, failures,
                 dropped, success, result, respondents, slaveVars, toSlave,
                 toMaster>>

\* Leaving schedule_integration(): the writer is committed or aborts, and
\* the Checkpoint_Context destructor runs.
Leave(msgs, how) ==
  /\ Broadcast(msgs \o Stamped(CheckpointLeft(task), task))
  /\ result' = [result EXCEPT ![task] = how]
  /\ phase' = "next"

CloseTask ==
  /\ phase = "drain" /\ aggregations = <<>>
  /\ Leave(<<>>, IF success \/ CommitFailed THEN "committed" ELSE "rejected")
  /\ UNCHANGED <<schedVars, task, closing, aggregations, stored, failures,
                 dropped, success, respondents, slaveVars, toMaster>>

\* Mutation: the slaves are not told when an exception ends the task.
Farewell_Silent == <<>>
Farewell == IF closing THEN <<>> ELSE <<Order("END_OF_WORK")>>

\* The scheduler, an aggregation, a progress report or the push of the
\* completion time has thrown: the CloseDown_Context destructor sends
\* END_OF_WORK unless it is out already, and the writer aborts.
AbortTask ==
  /\ \/ phase = "poll" /\ raised # "none"
     \/ MasterThrows /\ ((Polling /\ ~Planning) \/ phase = "drain")
  /\ Leave(Farewell, "aborted")
  /\ closing' = TRUE /\ aggregations' = <<>>
  /\ UNCHANGED <<schedVars, task, stored, failures, dropped, success,
                 respondents, slaveVars, toMaster>>

-----------------------------------------------------------------------------
(* Master: the end of the run                                              *)

NoneComplete == \A t \in 1 .. NumTasks : result[t] = "aborted"

\* compute_worker_loads() is called only when some task has completed.
QueryLoads ==
  /\ phase = "next" /\ task = NumTasks /\ ~NoneComplete
  /\ phase' = "loads"
  /\ Broadcast(<<Order("QUERY_PERFORMANCE_DATA")>>)
  /\ UNCHANGED <<schedVars, task, closing, aggregations, stored, failures,
                 dropped, success, result, respondents, slaveVars, toMaster>>

ReceiveLoad(w) ==
  /\ phase = "loads" /\ FromSlave(w, {"REPORT_PERFORMANCE_DATA"})
  /\ respondents' = respondents + 1
  /\ TakeReport(w)
  /\ UNCHANGED <<schedVars, phase, task, closing, aggregations, stored,
                 failures, dropped, success, result, slaveVars, toSlave>>

\* The WorkerPool_Context destructor.
Terminate ==
  /\ \/ phase = "next" /\ task = NumTasks /\ NoneComplete
     \/ phase = "loads" /\ respondents = Cardinality(Workers)
  /\ phase' = "over"
  /\ Broadcast(<<Order("TERMINATE")>>)
  /\ UNCHANGED <<schedVars, task, closing, aggregations, stored, failures,
                 dropped, success, result, respondents, slaveVars, toMaster>>

-----------------------------------------------------------------------------
(* Slaves                                                                  *)

\* wait_for_tasks(): checkpoint intervals.
SlaveCheckpoint(w) ==
  /\ at[w] = "wait"
  /\ FromMaster(w, {"SET_LOCAL_CHECKPOINT", "UNSET_LOCAL_CHECKPOINT"})
  /\ interval' = [interval EXCEPT ![w] =
       IF Head(toSlave[w]).tag = "SET_LOCAL_CHECKPOINT" THEN 1 ELSE 0]
  /\ TakeOrder(w)
  /\ UNCHANGED <<schedVars, masterVars, at, serving, todo, good, bad, cache, toMaster>>

\* process_task(): identify ourselves and set up a batcher.
SlaveBegin(w) ==
  /\ at[w] = "wait" /\ FromMaster(w, {"NEW_TASK"})
  /\ LET t == Head(toSlave[w]).task
     IN  /\ serving' = [serving EXCEPT ![w] = t]
         /\ toMaster' = [toMaster EXCEPT ![w] =
              Append(@, [Order("WORKER_IDENTIFICATION") EXCEPT !.task = t])]
  /\ at' = [at EXCEPT ![w] = "task"] /\ cache' = [cache EXCEPT ![w] = {}]
  /\ TakeOrder(w)
  /\ UNCHANGED <<schedVars, masterVars, todo, good, bad, interval>>

\* process_task() traps an unreadable record: back to waiting for tasks.
SlaveSkip(w) ==
  /\ SlaveSkips /\ at[w] = "wait" /\ FromMaster(w, {"NEW_TASK"})
  /\ TakeOrder(w)
  /\ UNCHANGED <<schedVars, masterVars, slaveVars, toMaster>>

SlaveAssignment(w) ==
  /\ at[w] = "task" /\ FromMaster(w, {"NEW_WORK_ASSIGNMENT"})
  /\ at' = [at EXCEPT ![w] = "work"]
  /\ todo' = [todo EXCEPT ![w] = Head(toSlave[w]).items]
  /\ good' = [good EXCEPT ![w] = 0] /\ bad' = [bad EXCEPT ![w] = {}]
  /\ TakeOrder(w)
  /\ UNCHANGED <<schedVars, masterVars, serving, cache, interval, toMaster>>

\* One configuration integrates or fails; the batcher may flush its cache.
SlaveProcess(w, i, ok, flush) ==
  /\ at[w] = "work" /\ i \in todo[w]
  /\ todo' = [todo EXCEPT ![w] = @ \ {i}]
  /\ good' = [good EXCEPT ![w] = IF ok THEN @ + 1 ELSE @]
  /\ bad' = [bad EXCEPT ![w] = IF ok THEN @ ELSE @ \cup {i}]
  /\ LET held == IF ok THEN cache[w] \cup {i} ELSE cache[w]
     IN  /\ cache' = [cache EXCEPT ![w] = IF flush THEN {} ELSE held]
         /\ IF flush THEN Send(w, <<Msg("DATA_READY", held, 0)>>)
                     ELSE UNCHANGED toMaster
  /\ UNCHANGED <<schedVars, masterVars, at, serving, interval, toSlave>>

\* report_integration_success() counts the item and then flushes.  When the
\* flush throws, the backend reports the same item as failed and unbatches it.
SlaveMiscount(w, i) ==
  /\ BackendThrows /\ at[w] = "work" /\ i \in todo[w]
  /\ todo' = [todo EXCEPT ![w] = @ \ {i}]
  /\ good' = [good EXCEPT ![w] = @ + 1]
  /\ bad' = [bad EXCEPT ![w] = @ \cup {i}]
  /\ UNCHANGED <<schedVars, masterVars, at, serving, cache, interval, toSlave,
                 toMaster>>

\* Mutation: failed items are not counted as processed.
Processed_SuccessOnly(w) == good[w]
\* Mutation: failed items are taken off the number of successes.
Processed_Difference(w) == good[w] - Cardinality(bad[w])
Processed(w) == good[w] + Cardinality(bad[w])

\* The backend returns, or throws and may leave items unprocessed.
SlaveFinish(w, ok) ==
  /\ at[w] = "work"
  /\ IF ok THEN todo[w] = {} ELSE BackendThrows
  /\ Send(w, <<Msg(IF ok THEN "FINISHED" ELSE "FAIL", bad[w], Processed(w))>>)
  /\ at' = [at EXCEPT ![w] = "task"] /\ todo' = [todo EXCEPT ![w] = {}]
  /\ UNCHANGED <<schedVars, masterVars, serving, good, bad, cache, interval, toSlave>>

\* Mutation: the batcher is not closed, so its cache dies with it.
LastWords_NoFlush(w) == <<Order("WORKER_CLOSE_DOWN")>>
\* Mutation: the close-down acknowledgment overtakes the last container.
LastWords_CloseFirst(w) ==
  <<Order("WORKER_CLOSE_DOWN"), Msg("DATA_READY", cache[w], 0)>>
LastWords(w) ==
  <<Msg("DATA_READY", cache[w], 0), Order("WORKER_CLOSE_DOWN")>>

\* END_OF_WORK: close the batcher, which flushes it, then acknowledge.
SlaveClose(w) ==
  /\ at[w] = "task" /\ FromMaster(w, {"END_OF_WORK"})
  /\ Send(w, LastWords(w))
  /\ cache' = [cache EXCEPT ![w] = {}] /\ at' = [at EXCEPT ![w] = "wait"]
  /\ TakeOrder(w)
  /\ UNCHANGED <<schedVars, masterVars, serving, todo, good, bad, interval>>

\* The case has no break and falls through to a receive of TERMINATE.
SlaveReportLoad(w) ==
  /\ at[w] = "wait" /\ FromMaster(w, {"QUERY_PERFORMANCE_DATA"})
  /\ Send(w, <<Order("REPORT_PERFORMANCE_DATA")>>)
  /\ at' = [at EXCEPT ![w] = "leaving"]
  /\ TakeOrder(w)
  /\ UNCHANGED <<schedVars, masterVars, serving, todo, good, bad, cache, interval>>

SlaveTerminate(w) ==
  /\ at[w] \in {"wait", "leaving"} /\ FromMaster(w, {"TERMINATE"})
  /\ at' = [at EXCEPT ![w] = "exited"]
  /\ TakeOrder(w)
  /\ UNCHANGED <<schedVars, masterVars, serving, todo, good, bad, cache, interval, toMaster>>

-----------------------------------------------------------------------------
MasterNext ==
  \/ \E items \in SUBSET Items : BeginTask(items)
  \/ SetupThrows
  \/ \E w \in Workers, k \in Kinds : Capture(w, k)
  \/ \E w \in Workers : \/ Discard(w) \/ PushAssignment(w) \/ ReceiveData(w)
                        \/ ReceiveFinished(w) \/ ReceiveCloseDown(w)
                        \/ ReceiveLoad(w)
  \/ SendCloseDown \/ Plan \/ Aggregate \/ EndPolling \/ CloseTask \/ AbortTask
  \/ QueryLoads \/ Terminate

SlaveNext(w) ==
  \/ SlaveCheckpoint(w) \/ SlaveBegin(w) \/ SlaveSkip(w) \/ SlaveAssignment(w)
  \/ \E i \in Items, ok, flush \in BOOLEAN : SlaveProcess(w, i, ok, flush)
  \/ \E i \in Items : SlaveMiscount(w, i)
  \/ \E ok \in BOOLEAN : SlaveFinish(w, ok)
  \/ SlaveClose(w) \/ SlaveReportLoad(w) \/ SlaveTerminate(w)

Over == phase = "over" /\ \A w \in Workers : at[w] = "exited"
Finished == Over /\ UNCHANGED vars

Next == MasterNext \/ (\E w \in Workers : SlaveNext(w)) \/ Finished

Spec == Init /\ [][Next]_vars

\* The master polls without blocking and every slave is a process of its
\* own; an MPI message once sent is eventually seen by a probe.
Fairness ==
  /\ WF_vars(MasterNext)
  /\ \A w \in Workers : WF_vars(SlaveNext(w))
FairSpec == Spec /\ Fairness

-----------------------------------------------------------------------------
(* Properties                                                              *)

Message == [tag : {"SET_LOCAL_CHECKPOINT", "UNSET_LOCAL_CHECKPOINT", "NEW_TASK",
                   "NEW_WORK_ASSIGNMENT", "END_OF_WORK", "QUERY_PERFORMANCE_DATA",
                   "TERMINATE", "WORKER_IDENTIFICATION", "DATA_READY", "FINISHED",
                   "FAIL", "WORKER_CLOSE_DOWN", "REPORT_PERFORMANCE_DATA"},
            task : 0 .. NumTasks, items : SUBSET Items, n : Nat]

TypeOK ==
  /\ SchedTypeOK
  /\ phase \in {"next", "capture", "poll", "drain", "loads", "over"}
  /\ task \in 0 .. NumTasks
  /\ closing \in BOOLEAN /\ success \in BOOLEAN
  /\ aggregations \in Seq(SUBSET Items)
  /\ stored \in SUBSET Items /\ failures \in SUBSET Items /\ dropped \in SUBSET Items
  /\ result \in [1 .. NumTasks -> {"pending", "committed", "rejected", "aborted"}]
  /\ respondents \in 0 .. Cardinality(Workers)
  /\ at \in [Workers -> {"wait", "task", "work", "leaving", "exited"}]
  /\ serving \in [Workers -> 0 .. NumTasks]
  /\ todo \in [Workers -> SUBSET Items] /\ bad \in [Workers -> SUBSET Items]
  /\ cache \in [Workers -> SUBSET Items] /\ good \in [Workers -> Nat]
  /\ interval \in [Workers -> {0, 1}]
  /\ toSlave \in [Workers -> Seq(Message)]
  /\ toMaster \in [Workers -> Seq(Message)]

\* poll_workers() never takes a message of an earlier task for one of the
\* current task.  Nothing in a message says which task it belongs to: after
\* an abort the slaves go on sending, and it is only the capture loop, run
\* until every slave has identified itself, that reads the old ones away.
NoStaleMessage ==
  phase \in {"poll", "drain"} =>
    \A w \in Workers : \A k \in DOMAIN toMaster[w] : toMaster[w][k].task = task

\* When poll_workers() leaves its loop every slave has had its last word and
\* the master has read it: no container is announced after the final drain.
NothingUnread ==
  phase = "drain" => \A w \in Workers : toMaster[w] = <<>>

\* Neither side ever takes the default branch of its switch while it polls:
\* a slave in wait_for_tasks() would throw, a slave in a task would lose the
\* message.
Understood(w) == CASE at[w] = "wait" -> {"SET_LOCAL_CHECKPOINT", "UNSET_LOCAL_CHECKPOINT",
                                         "NEW_TASK", "QUERY_PERFORMANCE_DATA", "TERMINATE"}
                   [] at[w] = "leaving" -> {"TERMINATE"}
                   [] OTHER -> {"NEW_WORK_ASSIGNMENT", "END_OF_WORK"}
OnlyExpectedMessages ==
  \A w \in Workers :
    /\ toSlave[w] # <<>> => Head(toSlave[w]).tag \in Understood(w)
    /\ phase = "poll" /\ toMaster[w] # <<>> => Head(toMaster[w]).tag \in Expected

\* A slave integrates with the checkpoint interval of the task it serves:
\* however the previous task ended, its local interval has been taken back.
CheckpointOfOwnTask ==
  \A w \in Workers :
    at[w] \in {"task", "work"} =>
      (interval[w] = 1 <=> serving[w] \in Checkpointed)

\* In how many places item i of the current task is: waiting, promised,
\* being processed, cached, in a container on its way, or in the writer.
In(i, S) == IF i \in S THEN 1 ELSE 0
Sent(i, channel, tags) ==
  Cardinality(UNION {{<<w, k>> : k \in {j \in DOMAIN channel[w] :
    /\ channel[w][j].tag \in tags /\ channel[w][j].task = task
    /\ i \in channel[w][j].items}} : w \in Workers})
Copies(i) ==
  In(i, queue) + In(i, stored) + In(i, failures) + In(i, dropped)
  + Cardinality({k \in DOMAIN aggregations : i \in aggregations[k]})
  + Sent(i, toSlave, {"NEW_WORK_ASSIGNMENT"})
  + Sent(i, toMaster, {"DATA_READY", "FINISHED", "FAIL"})
  + Cardinality({w \in Workers : serving[w] = task /\ i \in cache[w]})
  + Cardinality({w \in Workers : /\ serving[w] = task /\ at[w] = "work"
                                 /\ i \in todo[w] \cup bad[w]})

\* From the moment a task is queued until its writer is closed, each of its
\* items is in exactly one place: no result is lost between a slave's cache
\* and the main container, and none gets there twice.  While the backend
\* does not throw, that is; then the task is aborted.
OneCopy ==
  /\ task > 0 /\ raised = "none"
  /\ phase \in {"capture", "poll", "drain"} \/ result[task] = "committed"
  => \A i \in Items : Copies(i) = In(i, wanted)

\* Work is only dealt out when every slave has joined the task: a slave that
\* skips a task it cannot read never finds an assignment in its mailbox.
JoinedBeforeWork ==
  phase = "poll" => \A w \in Workers : serving[w] = task

\* The run keeps the promise of TaskContract: a task whose output is
\* committed has settled every item, and settled it once.
PromiseKept == INSTANCE TaskContract WITH
  n <- task, open <- phase \in {"capture", "poll", "drain"},
  waiting <- wanted \ (stored \cup failures \cup dropped),
  failed <- failures, unread <- dropped, outcome <- result
Contract == PromiseKept!Contract

\* The scheduler throws no exception: what the slaves report is always what
\* mark_unassigned() and mark_inactive() expect to hear.
NoSchedulingError == raised = "none"

\* However tasks end, every one of them does, and in the end all processes
\* exit.
Terminates == <>Over
=============================================================================
