# CppTransport: specifications, model checking and proofs

CppTransport computes inflationary correlation functions. A *translator* turns
a model description into C++; the *runtime* (`src/CppTransport/transport-runtime`)
integrates thousands of k-configurations in parallel over MPI and stores the
results in SQLite containers that belong to a *repository*. The numerical work
is independent per configuration. What is hard to get right is everything
around it: one master and many slaves agreeing on who does what, exceptions
that must not leave anybody waiting, and results that travel through caches,
temporary containers and an aggregation queue without being lost or stored
twice. This directory specifies that part.

Paths below are relative to `src/CppTransport/transport-runtime` unless they
start with `src/`.

## 1. Inventory

| Component | Source | State | Operations | Correct when |
|---|---|---|---|---|
| Work scheduler | `manager/worker_scheduler.h` | queue, per-worker flags, hand-kept counters, items in flight | prepare, reset, identify, plan, assign, release, close down | counters and flags agree; items are conserved; plans name queued items once; its own checks never throw |
| Master | `manager/detail/master_controller_{core,decl,integration}.h` | job queue, aggregation queue, close-down and checkpoint contexts | run tasks, capture workers, poll, aggregate, commit or abort, terminate | every task ends, slaves always released, nothing from one task leaks into the next |
| Slave | `manager/detail/slave_controller_impl.h` | current task, assignment, batcher | wait for tasks, identify, work, flush, close down | last container announced before it closes down; every message it gets is one it expects |
| Messages | `manager/mpi_operations.h` | MPI channels | typed payloads, probe, receive | counts in payloads equal what was assigned |
| Batcher | `data/batchers/*.h` | cached rows, failed serials, flush flag, checkpoint timer | push, report success or failure, flush, unbatch, close | partial data of a failed configuration is not stored; no row is stored twice |
| Backend loop | `src/CppTransport/templates/canonical_mpi.h` | position in its queue | integrate each item, report it | every item reported exactly once |
| Data manager | `data/detail/data_manager_impl.h`, `sqlite3/` | containers, failure and drop lists | create, seed, aggregate, check integrity, close | the recorded missing serials are those missing; paired groups agree |
| Repository and writers | `repository/`, `sqlite3/` | records, in-flight registers | register, commit, abort, delete, tag, recover | a crash between two steps can be recovered; database, documents and output directories agree |
| Transactions | `transactions/transaction_manager.h` | lock file, journal, count of transactions | begin, journal, commit, roll back | one process at a time; no exit leaves the lock behind; a transaction that fails changes nothing |
| Job queue | `manager/detail/{master_controller_core,job_descriptors}.h`, `repository/repository_graphkit.h` | list of jobs, required tasks | validate, autocomplete, process in order | only what was asked and what it needs is computed, once; a job finds what it is made from |
| Line cache | `data/datapipe/` | cached lines | lookup, evict, invalidate | no stale line |
| Device work queue | `scheduler/` | queues of limited memory | enqueue | every item in one queue, within capacity |
| Reporting, journal, derived products, models, translator | `reporting/`, `derived-products/`, `models/`, `src/CppTransport/translator` | | | sequential computation and formatting: outside this development |

*How they interact.* The master calls the scheduler directly and sends MPI
messages to the slaves. A slave runs the backend, which calls the batcher; the
batcher calls back into the slave to announce a container with `*_DATA_READY`.
The master queues announced containers and attaches them to the task's main
container when it has been idle for five seconds, or after its polling loop.
Writers register with the repository and are committed, or abort, when the
task's function is left. RAII contexts (`Checkpoint_Context`,
`CloseDown_Context`, `WorkerPool_Context`) send messages from destructors, so
that the exceptional paths are part of the protocol.

*What is hard.* Interleaving of several slaves' assignments, containers and
close-downs; tasks that end by an exception while slaves are working, whose
messages are then still in the network; failures counted in one place and
checked in another; and the deadlocks that follow when one side waits for a
message the other has no reason to send. `PROJECT.json` lists each hazard at
its line, with the properties about it.

## 2. Modules

### WorkerScheduler

`worker_scheduler.h`, one action per operation. Its client is free: workers may
report any count and close down at any time.

| Variable | Code |
|---|---|
| `queue`, `inFlight`, `completed`, `maxShare` | `queue`, `work_items_in_flight`, `work_items_completed`, `max_work_allocation` |
| `waiting`, `unassigned`, `active` | `waiting_for_setup`, `unassigned`, `active` |
| `initialized`, `assigned`, `inactive`, `timed` | flags of `worker_data[w]`; `timed` is `get_total_time() > 0` |
| `kinds` | `has_cpus`, `has_gpus` |
| `plan` | the local `list<work_assignment>` that `assign_work_to_workers()` is pushing out |
| `raised` | the exception thrown, if any (history until `reset()`) |
| `wanted` | the items given to the task (history) |

The shuffled queue is a set and a plan is any division the strategy may
produce. CPU strategy: workers without a timing come first and get one item;
for the rest the number of items that fill the scheduling granularity depends
on measured times, so it is any number up to the two caps the code computes
(`maxShare`, and the queue over the geometric mean of idle and all workers).
GPU strategy: an even division. A pool with both kinds throws. The constant 5
in `complete_queue_setup()` is `ShareDivisor`.

### TaskProtocol

Composes the scheduler (by `EXTENDS`) with the master, the slaves and the
network. A task is `BeginTask` (writer set-up, seeding, `NEW_INTEGRATION`),
`Capture`/`Discard` (`capture_worker_properties()`), the polling actions, the
final drain and `CloseTask` or `AbortTask`. The variable `phase` is where the
master is; `at[w]` is where slave `w` is. `SlaveProcess` is one configuration:
success or failure, and possibly a flush of the batcher's cache. `SlaveClose`
closes the batcher, announces its last container and acknowledges. After the
last task the master queries loads, if any task completed, and terminates the
pool.

Faults are switched on by constants: `MasterThrows` (set-up, aggregation,
progress report or completion-time push throws), `BackendThrows` (a flush or
the backend throws), `SlaveSkips` (a slave cannot read the task record). The
history variables `result`, `stored`, `failures` and `dropped` record how each
task ended and what became of its items; the `task` field of a message is not
in the code and only serves to state properties.

Channels are FIFO per pair of processes and unbounded. All sends go through one
communicator and are received in probe order; MPI does not let two messages
between the same processes overtake when both match. `NEW_WORK_ACKNOWLEDGMENT`
and `REPORT_ERROR` are only logged by the master and are left out.

### TaskContract

What a run promises, without processes or messages: a task opens with items,
each item is settled once (stored, failed, or in a container that could not be
read), and the output is committed or rejected only when every item is settled.
`TaskProtocol!Contract` states the refinement: `waiting` is mapped to the items
of the task that are in none of `stored`, `failures` and `dropped`.

### ContentGroup

What happens to the results themselves: from the observer of a slave, through
its batcher, a temporary container and the aggregation by the master, into the
main container, and from there, with the integrity check and the commit, into a
content-group record that a later run may be seeded from. With `Paired` there
are two streams, `"int"` (integration) and `"zeta"` (the paired postintegration
task), each with its own batcher, container and writer.

| Variable | Code |
|---|---|
| `container`, `registered`, `record`, `seed` | on disk: SQLite container, in-flight tables of writers, content-group record, `seed_group` |
| `program` | what the master still has to do in `schedule_integration()`, `schedule_paired_postintegration()`, or recovery: register, work, check, synchronize, recheck, commit, abort |
| `failed`, `missing`, `fail` | `failed_serials`, `missing_serials`, `is_failed()` of the writers, lost in a crash |
| `todo`, `aggregations` | work queue, aggregation queue |
| `doing`, `pushed`, `level`, `cache` | a slave's configuration, the samples pushed, its `refinement_level`, and its batchers |

The slave's actions are the cases of `backend_process_queue()`: a configuration
is started, pushes its samples, is withdrawn and retried on a refined mesh
(`Refine`, on `overflow_error`), succeeds, or fails (`runtime_exception`). The
order inside `Fail` is the code's: reported, perhaps flushed, then unbatched.
`Recover` rebuilds the writers from the in-flight tables, as a pair if both are
there, and runs the same close and commit.

The comment where a pair is seeded, that the integrity check "doesn't enforce it
(yet)" (`manager/detail/master_controller_postintegration.h:352`), is out of date:
`synchronize_missing_serials()` makes both groups lack the same serials, and
`PairAgrees` shows that this survives a crash between the two commits.

Rows are `<<table, serial, sample>>`, with one table standing for all those that
always receive their rows together. A three-point configuration also stores the
two-point rows of the wavenumbers ("legs") no earlier configuration has stored;
`Legs` gives the triangles. A flush may happen whenever the code tests for one,
for any set of batchers, because capacities and timers are data. Background,
statistics and initial-condition tables are left out, as are exceptions of the
backend as a whole and `--reject-failed` (`TaskProtocol` has both), so a task
that reaches its end commits. Dealing out work is reduced to one configuration
at a time, with messages that arrive at once: the order in which messages and
containers reach the master is the subject of `TaskProtocol`. The removal of
temporary containers and the locks of the repository are not modelled, nor are an
exception thrown while a writer is seeded and the foreign key from a group to
its seed.

### Repository

How several processes change one repository. A transaction
(`transactions/transaction_manager.h`) takes a lock file, works on the database
inside an SQLite transaction and on JSON documents in `-temp` files noted in a
journal; `commit()` applies the journal, commits the database and removes the
lock. The module has one action per step between which another process can act
or this one be killed.

| Variable | Code |
|---|---|
| `lockfile`, `magic` | the lock file's content, and `magic_string` of each transaction manager: a time in seconds, taken from `clock` |
| `file`, `temp`, `dir` | a document, its `-temp` file, and where the output directory of a group is |
| `rows`, `reserved`, `registered` | the tables of content groups, in-flight names, and active writers |
| `writing`, `reading` | SQLite's RESERVED and SHARED locks |
| `pc`, `agenda`, `todo` | where a process is in a transaction, the commands it still has to run, and the groups the command has still to process |
| `transactions`, `attempts`, `journal`, `pos`, `pending` | `repository<>::transactions`, attempts left to get the lock, the journal and the record to apply next, the changes inside the SQLite transaction |
| `intruded`, `torn`, `acked`, `timedOut`, `refused` | history: the lock was broken; files were changed by a transaction that was not committed; which tags were reported done; who got `NO_LOCK`, and who "already underway" |

`Start`, `LockFree`, `LockHeld`, `NoLock` and `MakeLock` are
`generate_transaction_manager()` and the constructor; `Enter`, `Close`,
`Abort`, `Delete` and `Tag` are the bodies of the commands, one content group at
a time; `LockChecked`, `Apply`, `Applied`, `CommitSql` and `Unlock` are
`commit()`, and `LockLost`, `ApplyThrows`, `CommitBusy`, `BodyThrows` and
`Unwind` its exceptions with the destructor's `rollback()`. A task is three
commands (reserve, register, close or abort); an exception in one of them turns
the rest into an abort, as the writer's destructor does. `Recover` is
`perform_recovery()`: it removes the lock file and closes every registered
writer, without asking whether their owners are alive.

There is one task, whose document lists its content groups, and a document per
group of which only a set of tags is kept. SQLite is external: its transactions
are atomic, one connection writes at a time, and a COMMIT of changes is refused
while another connection reads. `MoveRecord`s and documents are the only
journalled effects; the rename of an aborted output is not journalled, as in the
code. What a closed group contains is `ContentGroup`'s subject.

### JobQueue

From the names on the command line to the jobs that are run: `KeepJob` and
`EraseJob` are the loop of `validate_tasks()`; `FindDependencies`,
`PruneTasksWithContent`, `PrunePairedTasks` and `InsertJobDescriptors` the four
parts of `autocomplete_task_schedule()`; `Integration`, `NoContentGroup`,
`Postintegration`, `PairedPostintegration` and `Output` process one job each, with
what it needs and every way it may end; `Terminate` is the process ending in the
destructor of a postintegration writer (third finding).

| Variable | Code |
|---|---|
| `job_queue`, `required`, `at` | `job_queue`, `required_tasks`, the position of the loop in `validate_tasks()` and `execute_tasks()` |
| `content` | the content groups of each task in the repository: tags, and whether marked as failed |
| `pc` | which part of `execute_tasks()` comes next |
| `asked`, `found`, `lost` | history: the command line; tasks with content when the queue was planned; tasks computed since without success |

Tasks and the graph of what they take content from are constants. A topological
order is any that puts parents first: which one `boost::topological_sort` returns
depends on the order of the names, and jobs with one name stay in any order. How
a job comes by its result is the subject of `TaskProtocol` and `ContentGroup`;
here it is content, content marked as failed, or none, and the two groups of a
pair are chosen independently. `--seed` changes what a job starts from, not
whether it can start, and is left out. The repository is not changed by other
processes meanwhile.

### Proofs and instances

`WorkerSchedulerProofs`, `ContentGroupProofs`, `RepositoryProofs` and
`JobQueueProofs` hold the theorems about the modules they are named after;
`TaskProtocolProofs` and `TaskAccountsProofs`, which extends it, those about
`TaskProtocol` and its refinement of `TaskContract`; `RepositoryRecordsProofs`
extends `RepositoryProofs` with what transactions keep about tags, output and
lists, and `ContentRowsProofs` extends `ContentGroupProofs` with where the rows of
each configuration are. See section 4.

`MCWorkerScheduler` and `MCTaskProtocol` add the symmetry sets for TLC;
`MCContentGroup` adds the triangles of a small task, `MCRepository` the commands
a user may give, `MCJobQueue` a small repository of tasks.

## 3. Runs

| Run | Instance | Shows |
|---|---|---|
| `scheduler` | 2 workers, 4 items, both kinds | type, counters, plans, conservation, self-checks, for any client |
| `protocol` | 2 GPU workers, 3 items, 2 tasks, `MasterThrows`, `SlaveSkips` | exactly one copy of every item; nothing unread; only expected messages, none stale; no scheduling exception; checkpoint interval of the right task; no work unless all slaves joined; refinement of `TaskContract` |
| `termination` | 2 workers, 1 item, 2 tasks, master and backend throw, `--reject-failed` | every task ends and every process exits |
| `skip_hang` | 2 workers, 1 item, `SlaveSkips` | **violation** of `Terminates` |
| `pair` | 2 slaves, 2 triangles with a shared leg, 2 samples, paired, 1 refinement, 2 groups, unreadable containers | types; what a group stores of a configuration is whole; no row twice; unfailed groups complete; seeds preserved |
| `recovery` | 1 slave, 2 triangles, paired, 2 groups, every fault and crashes | missing serials exact; pairs agree; unfailed groups complete; seeds preserved |
| `partial_recovered` | 1 slave, 2 configurations, crashes | **violation** of `StoredWhole` |
| `abort_terminates` | 1 slave, 2 configurations, paired, throwing tasks | **violation** of `AbortIsFinal` |
| `shared_leg` | 1 slave, 2 triangles with a shared leg, no fault but a failed configuration | **violation** of `LegsPresent` |
| `repository` | 2 processes, 1 stored group and 1 free name, 3 commands, 1 kill | types; the lock excludes unless broken, and is not left behind; listing, documents and output agree outside a torn transaction; no lost update; no writer forgotten; every command ends |
| `delete_pair` | 1 process, 2 groups deleted in one transaction | **violation** of `ListingAgrees` |
| `jobs` | 5 tasks with one pair, at most 2 named on the command line | types; the queue is what was asked and needed, each once; no integration beside its pair; what a job needs is there when its turn comes |

*Bounds.* Two workers are enough for a plan to be pushed in two steps, for one
worker to close down while another works and for messages to interleave. With
three items one worker gets two, so that an assignment can fail in part; with
one item one worker stays idle. Two tasks are enough for a message or an
interval of one to reach the next. `ShareDivisor = 1` lets shares above one item
occur with four items. No action has an artificial bound: queues are bounded by
the number of items, and the number of tasks by `NumTasks`. Workers and items
are interchangeable, so both are symmetry sets, except in the liveness runs.

For `ContentGroup`, two samples are needed for a configuration to be stored in
part, and two configurations for one to be lost while another is kept, for both
to share a leg, and for a container to hold both. One refinement lets a
configuration be retried and then be refined too deeply. Two groups are one run
and one seeded from it, or a crashed run, its recovery and a seeded one.
`MaxRuns` is the only bound in a guard; `MaxRefinements` is the code's limit.
`recovery` has a single slave: crashes and the order of closing and committing
concern the master, and that slaves never share rows is shown by
`NoDuplicateRows` with two, and proved for any number of them.

For `Repository`, two processes and one free name beside one stored group let a
task, a deletion, a tag and a recovery overlap in any order; three commands in
all (`MaxCommands`) are needed for a job, the recovery that intrudes on it, and
a third party that finds what they left. Two attempts (`Attempts`, 50 in the
code) are one that is repeated and one that is not; two seconds of the clock
(`MaxTime`) are two magic strings, equal or different; one process is killed
(`MaxCrashes`). `delete_pair` needs one process, and nothing else to happen.

For `JobQueue`, five tasks hold one of each kind, a pair with a second task on
the same integration, and an output task that needs both: the smallest graph
where an integration is left to its pair and still needed by another. Two names
on the command line (`MaxAsked`) may be equal, missing, or one the dependency of
the other. A task starts without content, with an untagged group, or with a
failed one, and the user gives one tag or none.

*Deadlock* is checked, and `Finished` (`Rest` in `Repository`) is the only state
in which the run may stop. `protocol` and `skip_hang` switch the check off: with
slaves that skip a task the program does stop (first finding); `termination`
checks the same protocol for deadlock. `jobs` switches it off too: a session ends
when its queue is done, or with the process.

*Fairness.* The master polls with `iprobe` and the slaves with a blocking
`probe`; each is an operating-system process that is not starved, and a message
sent is eventually seen. So: weak fairness of the master's and of each slave's
next step. No fairness is assumed of a particular outcome (success, flush,
exception). In `Repository`, each process takes its next step; users, the clock,
crashes and reports are free.

### Findings

1. `skip_hang`. A slave that announces it is "skipping this task" has not
   identified itself, and the master waits for it forever.
2. `partial_recovered`. A failing configuration is reported, and perhaps flushed,
   before it is withdrawn (`src/CppTransport/templates/canonical_mpi.h:723-724`).
   Its partial rows are dropped when the group is closed, because the writer
   knows the failure; after a crash it does not, and recovery commits the
   configuration as present. `MissingExact` and `UnfailedHasAll` do hold in
   `recovery`: the record is exact about which serials occur, not about whether
   they are whole.
3. `abort_terminates`. `repository/detail/repository_impl.h:683` throws if the
   failure path is a directory, which is always so; its twins at 583 and 754
   test `!is_directory`. The exception leaves a destructor, the process ends
   before the writer is deregistered, and the next recovery commits the zeta
   group of an aborted task.
4. `shared_leg`. When the triangle that stores the two-point data of a leg fails,
   that data is dropped with it, and the other triangles that need the leg stay
   in the group without it (`data/detail/data_manager_impl.h:322`).
5. `delete_pair`. Deleting two content groups of one task in one transaction: the
   second change of the task's document is made to the document on disk and
   overwrites the first one's temporary file; at commit the second rename throws,
   when one group is off the list and in the trash, and the database keeps both
   (`sqlite3/detail/repository_sqlite3_impl.h:1605`).

What `repository` shows to hold only with its premise is worth as much as the
findings. A COMMIT refused with `SQLITE_BUSY`, or a crash just before it, leaves
documents and directories changed and the database not (`torn`); two processes
that look for the lock file at the same time, or a recovery beside a running
job, overlap (`intruded`); and a process that gave up waiting for the lock once
can begin no other transaction (`RefusedOnlyAfterTimeout`). Even so every stored
group has its document (`RowsDocumented`), no registered writer disappears
without its output being stored or put aside (`WriterNeverForgotten`), and
the lock file is left behind by nothing but a crash (`NoLockLeftBehind`).

The other side of this: `ExclusiveAccess`, `NoLostUpdate`,
`ListingAgreesUnlessTorn` and `OutputInPlace` say nothing of the states they
excuse. They would not catch the two ways of breaking the lock
(`intruded`), nor the refused COMMIT and the output renamed outside the journal
(`torn`, for the last two). They show that nothing else has these effects: no exit
of a transaction gives up the lock early, a record enumerated before the lock was
taken is read again under it, and a process killed after its COMMIT leaves the
lock file only. The hazards of `PROJECT.json` name them for that, and for
the excused effects only properties without an excuse.

Likewise the three excuses of `DependenciesReady` are what the code does. Besides
a task that failed earlier, they are: content that counts as "group present; no
need to schedule this task" (`manager/detail/master_controller_core.h:179`) though
the search of the job that needs it refuses it, for its tags or because it is
marked as failed; and an integration taken off the queue because paired tasks "do
not need to be handled separately" (153-155), when another task that needs it is
sorted before the pair. TLC finds the queue to be ready in every other case. What
`QueueAsAsked` allows and a reader might not expect: dependencies are transitive,
so the parent of a task that has content is computed if it has none itself.

A task whose backend throws, or whose flush throws inside
`report_integration_success()`, is aborted whatever `--reject-failed` says: the
totals do not match the assignment, and the scheduler's `SCHEDULING_ERROR` leaves
the task before the commit. `termination` shows that everybody is released all
the same.

## 4. Proofs

`WorkerSchedulerProofs` proves, for every finite non-empty pool of workers,
every finite set of items, any worker kinds and any share divisor (the named
assumptions of `WorkerScheduler`), that `SchedSpec` implies always `SchedTypeOK`,
`CountersAgree`, `PlanSound`, `ItemsConserved` and `OwnChecksNeverFire`.

The argument is one inductive invariant, `SchedInv`. None of the properties is
inductive alone. That `mark_assigned()` never throws needs the counter
`unassigned` to be positive when a planned worker is reached, which follows from
`CountersAgree` once it is known that the worker is idle and has reported:
`PromisedToIdle`. `CountersAgree` in turn needs that only workers that have
reported carry flags (`FlagsNested`), so that adding to or removing from a set of
workers changes its cardinality by one. `PlanSound` is preserved while a plan is
pushed because plans are disjoint. `ItemsConserved` needs `PlanSound`: the items
counted as in flight are the ones that left the queue. Each action has a lemma;
lemmas on cardinalities (`OneWorker`, `PartOfQueue`) are stated once.

`TaskProtocolProofs` proves, for any finite pool of slaves, any queue of tasks and
items, any checkpointed tasks and every combination of the faults, with no further
hypothesis, that `Spec` implies always `TypeOK`, `NoStaleMessage`, `NothingUnread`,
`OnlyExpectedMessages`, `CheckpointOfOwnTask` and `JoinedBeforeWork`. The inductive
invariant `ProtocolInv` describes both channels of every slave at once:

- `SchedInv` is carried over: every step of the master is a step of the scheduler,
  or leaves it alone (`SchedulerStep`).
- A mailbox is a track. `Now` is where a slave is, `Due` where the master believes
  it will be once everything sent to it has been read, and `OrdersInTurn` says that
  its unread orders lead from the one to the other, one legal order at a time
  (`Track`); the exception is a slave that `Skipped` a task it could not set up.
- `Invited`, `Identified` and `Recruited` are why nothing stale survives the capture
  loop. While a slave is being captured, NEW_TASK is the last order in its mailbox;
  its identification is the last message it sends before it is heard; and once it is
  captured nothing is left between the two. So everything a slave still had to say
  of the previous task has been read when the next one starts.
- `AtWork`, `LastWord`, `ReportsOnce` and `LeavesLast` give the order in which a slave
  reports within a task, `OwnCheckpoint` dates the checkpoint it restarts from,
  and `ClosingTime` and `LoadsCounted` say what the master knows when it stops
  handing out work.

`TaskAccountsProofs` adds what the items and the results do, under the hypothesis
`~BackendThrows`: a flush that throws makes a slave's count wrong, the scheduler then
throws in its turn and the task is aborted, so that `NoSchedulingError` and `OneCopy`
do not hold there. It proves `OneCopy`, the refinement of
`TaskContract` (`Contract`), and `NoSchedulingError` when the pool is not a mixture of
CPUs and GPUs (a mixed pool has no strategy, and the code throws). The inductive
invariant `AccountsInv`:

- Messages carry the task they are about: none is about a later task than the
  master's, and those of the current one were sent in it (`OrdersDated`,
  `ReportsDated`, `UpToDate`); a slave has one assignment at most (`OneAssignment`).
- `SharesCounted`: the items in flight are disjoint shares, one per worker, and the
  number the master counts, the number the slave will announce and the number in
  its announcement are the size of its share. This is why the master's counters
  do not underflow, across a message in either direction.
- `ItemsLocated`: an item is in one place, at one worker (`Located`, `KeptApart`),
  among queue, unread assignment, the slave's work, its cache, unread report, waiting
  aggregation, and stored, failed or dropped. A step moves a set of items from one place to
  another (`Transfer`); that this preserves `ItemsLocated` is proved once, as the
  lemma `Moving`, and each action only says what it moves. `OneCopy` follows by
  counting, since each of its summands is 0 or 1 and one of them is not 0.
- `Ledger` and `Settled`: before polling starts everything is in the queue; a task
  that was committed left every item settled and no trace of it anywhere else. The
  refinement follows: `BeginTask` opens the contract, `SetupThrows` fails to open
  it, receipts and aggregations settle items or stutter, and `CloseTask` and
  `AbortTask` close it, with nothing outstanding unless it was aborted.

`ContentGroupProofs` proves, for any finite set of configurations and any
triangles, any slaves, numbers of samples, refinements and runs, and every
combination of the faults (`ConfigsAssumption`, `LegsAssumption`,
`BoundsAssumption`), that `Spec` implies always `TypeOK`, `MissingExact`,
`PairAgrees`, `UnfailedHasAll` and `SeedPreserved`. The inductive invariant `IInv`:

- `Stage` lists the programs the master can be in the middle of, from registering
  its writers to committing or aborting them, and says of each what the writers
  know by then. Everything else depends on where the master is: `AtWork` is the
  only stage in which slaves do anything (`Slaving`), and the writers have found
  nothing missing before they are closed.
- `Checked`: once a container has been checked, it is a fixed point of the check,
  and the check's result is what the container lacks. This is the lemma
  `CheckedIsFixed`, and needs that a leg is stored with one configuration only
  (`OneOwner`): dropping the owners of missing legs makes no other leg missing.
  It is why the serials a writer is told of in the second check are all that
  the second check adds.
- `OnDisk` relates the records of a group to its containers. `Sound`: a committed
  container is a fixed point and its missing serials are recorded, and marked as
  a failure. `Matched`: if one group of a pair is committed and the other still
  registered, checking the other will find the same serials missing. So a crash
  between the two commits, after which the second is done by a recovery that
  knows nothing of the first, leaves a pair that agrees. A rejected integration
  is the other way to be registered alone. `Seeded`: no check of a seeded group
  finds anything of its seed missing, because a check is only told of failures
  of the run itself and of the partner's missing serials, and the seed's two
  groups agree.

`ContentRowsProofs` follows the rows themselves, under the same assumptions.
`NoDuplicateRows` holds with every combination of the faults; its inductive
invariant `RowsInv`, which uses `IInv`, is:

- `Apart`: batchers, waiting containers and the main container share no row. A push
  adds rows to a batcher, and this is inductive only with the next two.
- `Waiting` and `InHand`: a configuration that waits has no row anywhere. While a
  slave computes it, that slave's batchers hold exactly the samples pushed so far,
  and nobody else has it. So a retry on a refined mesh, which withdraws the rows
  from both batchers, starts from nothing.
- `BatchesWhole`: what was done and has not failed is in a batcher or container with
  all its rows or none: a batcher that fills up only notes that a flush is due
  (`check_for_flush()`), and is flushed whole between two configurations. Only a failed one is flushed with some of its rows, and it is
  not computed again in this run.
- `Tidy`: what a check records as missing has no row left in the main container. The
  queue of a seeded run is what its seed lacks, and so `Waiting` holds again when
  it begins. That legs are stored with one configuration only (`OneOwner`) makes
  configurations share no row (`RowsDiffer`), and dropping one harms no other
  (`DroppedWhole`).
- `Quiet`: outside the polling loop no row is under way.

That a container violates no key when it is attached (`ContentNoKeyViolated`)
follows: the failure of an aggregation, which the code traps and reports, is
never of its own making.

`StoredWhole` is proved under `~Crashes` and `~(TaskFails /\ Paired)`.
`WholeInv` says that the main container holds every configuration whole, except
those the integration writer knows to have failed or has dropped; that no group
is left registered by a job that is gone; and that a pair is closed together,
so that each of its writers learns what the other lacks before either commits.
Neither hypothesis can be left out. Recovery knows of no failure and keeps rows
of a failed configuration as they are: after a kill (`partial_recovered`), or
when an exception ends a job with a pair, because
`abort_postintegration_writer()` leaves the zeta group registered (third
finding); TLC finds `StoredWhole` violated in both cases. In an unpaired task
an exception is covered by the theorem: the one writer is taken out of the
in-flight table.

`RepositoryProofs` proves, for any finite set of groups, any processes, tags and
limits, with or without readers and kills (`GroupsAssumption`, `NamesAssumption`,
`LimitsAssumption`, `CommandsAssumption`), that `Spec` implies always `TypeOK`,
`ExclusiveAccess`, `NoLockLeftBehind`, `RefusedOnlyAfterTimeout`, `RowsDocumented`
and `WriterNeverForgotten`. The inductive invariant `IInv` is built in layers, each
used by the next:

- `Types` says what each variable may hold, and (`Counted`) that a transaction
  under way is counted once and serves a command.
- `Documented`: the pending changes of a process are those of its command
  (`OwnChanges`), and the document of a group about to be inserted is on disk or
  in the journal, which has been applied to its end when the COMMIT comes
  (`DocumentFirst`): the row is never first. It does not use the lock, and
  therefore holds when the lock is broken.
- `Locking`: unless the lock was broken it is there while anybody is inside
  (`LockedInside`), so that the next process to find it absent enters alone; and
  without kills whoever wrote it last is still working under it (`LockOwned`), so
  that no exit leaves it behind.
- `Refusals`: an idle process whose count is not zero gave up waiting for the lock.
- `ReserveOwn` and `Registers`: a name being reserved is reserved by one process and
  has no output yet; only registered writers are reserved names, pending changes
  belong to the holder of SQLite's write lock, and a deregistration comes with an
  insertion or after the output was put aside, so that `WriterNeverForgotten`
  holds of a COMMIT.

`RepositoryRecordsProofs` proves, under the same assumptions, `OutputInPlace`,
`NoLostUpdate` and `ListingAgreesUnlessTorn`, the last under `OneAtATime`: a
deletion names one group. `delete_pair` shows that this cannot be left out, and
nothing else is assumed of commands. `RecordsInv` is:

- `Work`: what a transaction has noted in its journal and what it has pending in
  SQLite belong together. A task's command does all of its work or none
  (`TaskWork`), tags are noted for the groups named and no others (`TagWork`),
  output is moved only of a group whose row is deleted too (`DeleteWork`).
  `InTurn` and `Counting` tie that to the control point and the position in the
  journal, `Plans` to what may follow on an agenda.
- `Possession`: a group that is being produced is on one agenda (`OneHand`), is not
  stored until its own process stores it (`Unstored`), and its output is there when
  a command needs it (`Ready`); names and rows have output (`Known`). This is what
  a user's deletion and a task of another process could disturb, and why they do
  not meet: a group is either stored, and open to commands, or in somebody's hand.
- `Placed`: a stored group or a registered writer whose output is not in its place is
  `Displaced` by a transaction that has not committed. If it ends without COMMIT
  it was `Half` done, and `torn` is set.
- `Acknowledged`: what was reported is in the document (`Remembered`), and in the
  temporary document of any transaction that will replace it (`Tagging`), because
  that is made from the document while the lock is held.
- `ListKept`, for the list of the task: it is the list of the database, or the one
  the pending changes will make it, once the document was put in place
  (`Relisted`); the same of the temporary document. Every change is made from the
  list on disk, so this is inductive only if a transaction makes one change
  (`Singles`). `ListsAppend` and `ListsWithout` say what adding and erasing do to a
  list without repetitions.

All but `Work` and `Plans` hold only while no two transactions overlap: they use
`Locking` to know that nobody else is inside.

`JobQueueProofs` proves, for any finite repository of tasks without cycles, any
pairs, contents and command line (`TasksAssumption`, `KindsAssumption`,
`ParentsAssumption`, `PairedAssumption`, `StoredAssumption`; a topological order
exists by assumption), that always `TypeOK`, `PairComputedOnce`,
`DependenciesReady` and `QueueAsAsked`. `Needed` follows one fact through the phases: what a needed
task takes content from is needed too (`"content"`), needed or present
(`"pairs"`), and in the end present, queued, or left to a queued pair. `Ordered`
says that parents come first in the sorted queue, and `ResultsKept` that what has
been computed can be found with the tags of the command line unless it was lost.
The two together put what a job needs before it. That dependencies are closed
under parents is a lemma about the transitive closure (`DependenciesClosed`).
For `QueueAsAsked`, `Counted` follows the number of jobs of each task: validation
erases only jobs of tasks that do not exist, so that the jobs that stay correspond
one to one to those that were there (`CountsErased`); what is inserted is called
for by a task of the command line, and the sorted queue has every job it had,
because all jobs of one task are the same job (`CountsInserted`).

Every safety property of a passing run is thus stated by a theorem. Model-checked
only are liveness (`Terminates`, `Settles`), which is out of the prover's reach, and
the properties that the code violates (section 3), of which `StoredWhole` holds
with the hypotheses above.

## 5. Not modelled, and the plan

Order of work still to do:

1. `Repository`: derived content, output groups, notes, and the order of
   dependence in which groups are deleted; `ContentGroup` composed with it, and an
   abstract specification "a content group is in the repository completely or not
   at all, and a recorded serial is whole", which `ContentGroup` implements
   without crashes.
2. `DeviceQueue` (splitting by device memory) and `LineCache` as pure algorithms
   and a small state machine.
3. Protocol variants: output and postintegration messages, exceptions inside
   the capture loop, sends that block; background tables in `ContentGroup`.

Outside the development: the translator (a sequential compiler), numerical
kernels and integrators, derived products and plotting, reports, serialization,
build files and vendored code. Within the modelled components, timing data,
progress estimates and log messages are abstracted away.
