---------------------------- MODULE ContentGroup ----------------------------
(***************************************************************************)
(* How the results of an integration, and of the zeta task paired with it, *)
(* reach the repository: the batchers of the slaves (data/batchers/), the  *)
(* temporary containers they flush to, aggregation by the master, the      *)
(* integrity check (data/detail/data_manager_impl.h), commit and abort of  *)
(* the writers (repository/), a crash of the job at any point, recovery    *)
(* (sqlite3/detail/repository_sqlite3_impl.h) and a further run seeded     *)
(* from an earlier group.                                                  *)
(*                                                                         *)
(* A row is <<table, serial, sample>>.  The tables that always receive     *)
(* their rows together are one: "npf" stands for the tables indexed by     *)
(* configuration and "twopf" for those a three-point task indexes by the   *)
(* wavenumbers ("legs") of its triangles.  A two-point task has no legs.   *)
(* Background, statistics and initial-condition tables are left out.       *)
(*                                                                         *)
(* Dealing out work is TaskProtocol's subject: here a slave takes one      *)
(* configuration at a time and its messages arrive at once.                *)
(***************************************************************************)
EXTENDS Naturals, Sequences, FiniteSets

CONSTANTS Configs,        \* serial numbers, in the order they were added
          Legs,           \* Legs[c]: the two-point configurations c needs
          Samples,        \* stored time samples per configuration
          Slaves,
          None,           \* a slave at rest works on None
          Paired,         \* is there a zeta task next to the integration?
          MaxRefinements, \* the task's get_max_refinements()
          MaxRuns,        \* bound: number of content groups
          AggregationFails, \* may a container be unreadable?
          TaskFails,      \* may an exception end the task?
          Crashes         \* may the job be killed?

ASSUME ConfigsAssumption ==
  Configs \subseteq Nat /\ IsFiniteSet(Configs) /\ None \notin Configs
ASSUME LegsAssumption == DOMAIN Legs = Configs
ASSUME BoundsAssumption ==
  /\ Samples \in Nat \ {0} /\ MaxRefinements \in Nat /\ MaxRuns \in Nat
  /\ {Paired, AggregationFails, TaskFails, Crashes} \subseteq BOOLEAN

Streams == IF Paired THEN {"int", "zeta"} ELSE {"int"}
Runs == 1 .. MaxRuns

VARIABLES
  \* on disk
  runs,        \* number of content groups created
  container,   \* container[r][s]: the rows of the main container
  registered,  \* registered[r]: writers in the in-flight tables
  record,      \* record[r][s]: the content group record
  seed,        \* seed[r]: the group r was seeded from, 0 if none
  \* the master process
  program,     \* the operations it still has to do, in order
  current,     \* the group it works on
  failed,      \* failed_serials of its writers
  missing,     \* missing_serials of its writers
  fail,        \* is_failed() of its writers
  todo,        \* work queue
  aggregations,\* temporary containers waiting to be aggregated
  \* the slaves
  doing, pushed, level, \* configuration, samples pushed, refinement level
  cache        \* cache[w][s]: rows held by the batcher

diskVars == <<runs, container, registered, record, seed>>
writerVars == <<failed, missing, fail>>
slaveVars == <<doing, pushed, level, cache>>
vars == <<diskVars, program, current, writerVars, todo, aggregations, slaveVars>>

-----------------------------------------------------------------------------
(* Rows                                                                    *)

\* threepf_kconfig_database::add_record(): a leg is stored with the first
\* configuration that needs it, and with that one only.
Stored(c) == {k \in Legs[c] : \A d \in Configs : k \in Legs[d] => c <= d}

RowsAt(c, j) == {<<"npf", c, j>>} \cup {<<"twopf", k, j>> : k \in Stored(c)}
Rows(c) == UNION {RowsAt(c, j) : j \in 1 .. Samples}

SerialsIn(table, rows) == {r[2] : r \in {q \in rows : q[1] = table}}
Present(rows) == SerialsIn("npf", rows)
AllLegs == UNION {Legs[c] : c \in Configs}

-----------------------------------------------------------------------------
(* The integrity check                                                     *)

MapTwopfToThreepf(ks) == {c \in Configs : Stored(c) \cap ks # {}}
TwopfDropList(cs) == UNION {Stored(c) : c \in cs}

\* Mutation: the list of failures reported by the backend is not consulted.
MissingSerials_TablesOnly(rows, reported) == Configs \ Present(rows)
\* Serials with no row, failed serials, and the owners of missing legs.
MissingSerials(rows, reported) ==
  (Configs \ Present(rows)) \cup reported
    \cup MapTwopfToThreepf(AllLegs \ SerialsIn("twopf", rows))

\* Mutation: the missing serials are recorded, but their rows are kept.
Dropped_Nothing(rows, cs) == rows
\* Delete what is left of cs, so that all tables are consistent.
Dropped(rows, cs) ==
  {r \in rows : /\ r[1] = "npf" => r[2] \notin cs
                /\ r[1] = "twopf" => r[2] \notin TwopfDropList(cs)}

\* Mutation: missing content is not noted on the writer.
FailFlag_Kept(s, total) == fail[s]
FailFlag(s, total) == fail[s] \/ total # {}

\* One transaction on the container of s, whose writer has been told to
\* add serials to its failure list.
CheckIntegrity(s, serials) ==
  LET total == MissingSerials(container[current][s], failed[s] \cup serials)
  IN  /\ failed' = [failed EXCEPT ![s] = @ \cup serials]
      /\ missing' = IF total = {} THEN missing
                                  ELSE [missing EXCEPT ![s] = total]
      /\ fail' = [fail EXCEPT ![s] = FailFlag(s, total)]
      /\ container' = [container EXCEPT ![current][s] = Dropped(@, total)]

-----------------------------------------------------------------------------
(* The master's program                                                    *)

Op(op, s) == [op |-> op, on |-> s, serials |-> {}]
\* The operation on both writers of ws, the integration first.
InOrder(op, ws) == (IF "int" \in ws THEN <<Op(op, "int")>> ELSE <<>>)
                     \o (IF "zeta" \in ws THEN <<Op(op, "zeta")>> ELSE <<>>)

Idle == program = <<>>
Doing(op) == ~Idle /\ Head(program).op = op
OnWriter == Head(program).on
Working == Doing("work")

\* Mutation: the two containers of a pair are closed independently.
Synchronization_Never(ws) == <<>>
\* synchronize_missing_serials() for a pair of writers only.
Synchronization(ws) ==
  IF Cardinality(ws) = 2 THEN <<Op("synchronize", "int")>> ELSE <<>>

\* data_manager::close_writer() followed by the commit.
CloseAndCommit(ws) ==
  InOrder("check", ws) \o Synchronization(ws) \o InOrder("commit", ws)

NoWriters == [s \in Streams |-> {}]
NotFailed == [s \in Streams |-> FALSE]
Blank == [state |-> "none", missing |-> {}, fail |-> FALSE]

Init ==
  /\ runs = 0
  /\ container = [r \in Runs |-> NoWriters] /\ registered = [r \in Runs |-> {}]
  /\ record = [r \in Runs |-> [s \in Streams |-> Blank]]
  /\ seed = [r \in Runs |-> 0]
  /\ program = <<>> /\ current = 0
  /\ failed = NoWriters /\ missing = NoWriters /\ fail = NotFailed
  /\ todo = {} /\ aggregations = <<>>
  /\ doing = [w \in Slaves |-> None] /\ pushed = [w \in Slaves |-> 0]
  /\ level = [w \in Slaves |-> 0] /\ cache = [w \in Slaves |-> NoWriters]

-----------------------------------------------------------------------------
(* Master: a task                                                          *)

\* A pair can serve as a seed only if both groups are in the repository and
\* miss the same serials; seed_writer_pair() throws otherwise.
Seedable(q) ==
  /\ \A s \in Streams : record[q][s].state = "committed"
  /\ \A s, t \in Streams : record[q][s].missing = record[q][t].missing

\* Mutation: only the integration container is seeded.
SeedRows_IntegrationOnly(q, s) == IF q = 0 \/ s = "zeta" THEN {} ELSE container[q][s]
SeedRows(q, s) == IF q = 0 THEN {} ELSE container[q][s]

\* Mutation: the work queue is not shortened to what the seed misses.
WorkQueue_Everything(q) == Configs
WorkQueue(q) == IF q = 0 THEN Configs ELSE record[q]["int"].missing

\* schedule_integration() or schedule_paired_postintegration(): create the
\* containers, seed them from group q if q # 0, and prepare the queue.
Begin(q) ==
  /\ Idle /\ runs < MaxRuns
  /\ q # 0 => Seedable(q)
  /\ runs' = runs + 1 /\ current' = runs + 1
  /\ container' = [container EXCEPT ![runs + 1] =
                     [s \in Streams |-> SeedRows(q, s)]]
  /\ record' = [record EXCEPT ![runs + 1] =
                  [s \in Streams |-> [Blank EXCEPT !.state = "open"]]]
  /\ seed' = [seed EXCEPT ![runs + 1] = q]
  /\ todo' = WorkQueue(q)
  /\ failed' = NoWriters /\ missing' = NoWriters /\ fail' = NotFailed
  /\ program' = InOrder("register", Streams) \o <<Op("work", "int")>>
  /\ UNCHANGED <<registered, aggregations, slaveVars>>

RegisterWriter ==
  /\ Doing("register")
  /\ registered' = [registered EXCEPT ![current] = @ \cup {OnWriter}]
  /\ program' = Tail(program)
  /\ UNCHANGED <<runs, container, record, seed, current, writerVars, todo,
                 aggregations, slaveVars>>

\* A container is attached in a transaction of its own; a row it shares with
\* the main container violates a key constraint.  Errors are trapped.
Clashes(k) == k.rows \cap container[current][k.to] # {}

Aggregate ==
  /\ Working /\ aggregations # <<>>
  /\ aggregations' = Tail(aggregations)
  /\ LET k == Head(aggregations)
     IN  \/ /\ ~Clashes(k)
            /\ container' = [container EXCEPT ![current][k.to] = @ \cup k.rows]
            /\ UNCHANGED fail
         \/ /\ AggregationFails \/ Clashes(k)
            /\ fail' = [fail EXCEPT ![k.to] = TRUE]
            /\ UNCHANGED container
  /\ UNCHANGED <<runs, registered, record, seed, program, current, failed,
                 missing, todo, slaveVars>>

AtRest == \A w \in Slaves : doing[w] = None /\ cache[w] = NoWriters

\* Every slave has closed its batcher and every container is aggregated.
FinishWork ==
  /\ Working /\ todo = {} /\ AtRest /\ aggregations = <<>>
  /\ program' = CloseAndCommit(Streams)
  /\ UNCHANGED <<diskVars, current, writerVars, todo, aggregations, slaveVars>>

CheckWriter ==
  /\ Doing("check")
  /\ CheckIntegrity(OnWriter, {})
  /\ program' = Tail(program)
  /\ UNCHANGED <<runs, registered, record, seed, current, todo, aggregations,
                 slaveVars>>

\* Each writer that lacks some of the serials missing from either is told
\* that they have failed, and checked again.
SynchronizeMissingSerials ==
  /\ Doing("synchronize")
  /\ LET total == missing["int"] \cup missing["zeta"]
         Recheck(s) == IF total \ missing[s] = {} THEN <<>>
                       ELSE <<[Op("recheck", s) EXCEPT !.serials = total \ missing[s]]>>
     IN  program' = Recheck("int") \o Recheck("zeta") \o Tail(program)
  /\ UNCHANGED <<diskVars, current, writerVars, todo, aggregations, slaveVars>>

RecheckWriter ==
  /\ Doing("recheck")
  /\ CheckIntegrity(OnWriter, Head(program).serials)
  /\ program' = Tail(program)
  /\ UNCHANGED <<runs, registered, record, seed, current, todo, aggregations,
                 slaveVars>>

\* The record and the in-flight table change in one transaction.
CommitWriter ==
  /\ Doing("commit")
  /\ record' = [record EXCEPT ![current][OnWriter] =
       [state |-> "committed", missing |-> missing[OnWriter], fail |-> fail[OnWriter]]]
  /\ registered' = [registered EXCEPT ![current] = @ \ {OnWriter}]
  /\ program' = Tail(program)
  /\ UNCHANGED <<runs, container, seed, current, writerVars, todo, aggregations,
                 slaveVars>>

\* The memory of the job, master and slaves, is gone.
Forget ==
  /\ program' = <<>> /\ current' = 0
  /\ failed' = NoWriters /\ missing' = NoWriters /\ fail' = NotFailed
  /\ todo' = {} /\ aggregations' = <<>>
  /\ doing' = [w \in Slaves |-> None] /\ pushed' = [w \in Slaves |-> 0]
  /\ level' = [w \in Slaves |-> 0] /\ cache' = [w \in Slaves |-> NoWriters]

\* An exception leaves the task: its writers go out of scope and abort, the
\* integration writer first.  What the slaves still send is read away.
TaskThrows ==
  /\ TaskFails /\ Working
  /\ program' = InOrder("abort", Streams)
  /\ todo' = {} /\ aggregations' = <<>>
  /\ doing' = [w \in Slaves |-> None] /\ pushed' = [w \in Slaves |-> 0]
  /\ level' = [w \in Slaves |-> 0] /\ cache' = [w \in Slaves |-> NoWriters]
  /\ UNCHANGED <<diskVars, current, writerVars>>

Rejected == record' = [record EXCEPT ![current][OnWriter].state = "rejected"]

AbortIntegration ==
  /\ Doing("abort") /\ OnWriter = "int"
  /\ Rejected
  /\ registered' = [registered EXCEPT ![current] = @ \ {"int"}]
  /\ program' = Tail(program)
  /\ UNCHANGED <<runs, container, seed, current, writerVars, todo, aggregations,
                 slaveVars>>

\* abort_postintegration_writer() throws if the failure path *is* a
\* directory, which it has just made sure of.  Its caller is a destructor, so
\* the process terminates, before deregister_writer().
AbortPostintegration ==
  /\ Doing("abort") /\ OnWriter = "zeta"
  /\ Rejected
  /\ Forget
  /\ UNCHANGED <<runs, container, registered, seed>>

Crash ==
  /\ Crashes /\ ~Idle
  /\ Forget
  /\ UNCHANGED diskVars

\* perform_recovery() of one content group: new writers for what is in the
\* in-flight tables, as a pair if both are; then close and commit them.
Recover(r) ==
  /\ Idle /\ registered[r] # {}
  /\ current' = r
  /\ failed' = NoWriters /\ missing' = NoWriters /\ fail' = NotFailed
  /\ program' = CloseAndCommit(registered[r])
  /\ UNCHANGED <<diskVars, todo, aggregations, slaveVars>>

-----------------------------------------------------------------------------
(* Slaves                                                                  *)

Container(s, held, streams) ==
  IF s \in streams /\ held[s] # {} THEN <<[to |-> s, rows |-> held[s]]>> ELSE <<>>

\* Flush the batchers of streams, which hold held: announce the containers,
\* and go on with empty caches.
Flush(w, held, streams) ==
  /\ aggregations' = aggregations \o Container("int", held, streams)
                                  \o Container("zeta", held, streams)
  /\ cache' = [cache EXCEPT ![w] =
                 [s \in Streams |-> IF s \in streams THEN {} ELSE held[s]]]

StartConfiguration(w, c) ==
  /\ Working /\ doing[w] = None /\ c \in todo
  /\ todo' = todo \ {c}
  /\ doing' = [doing EXCEPT ![w] = c]
  /\ pushed' = [pushed EXCEPT ![w] = 0] /\ level' = [level EXCEPT ![w] = 0]
  /\ UNCHANGED <<diskVars, program, current, writerVars, aggregations, cache>>

\* Mutation: the batcher is left in immediate flushing mode.
FlushedByPush_Immediate(streams) == streams
\* check_for_flush() in delayed mode only notes that a flush is due.
FlushedByPush(streams) == {}

\* Mutation: a configuration may be refined without end.
MeshAllowed_Always(w) == TRUE
\* twopf_kmode() throws on entry if the mesh would be refined too often.
MeshAllowed(w) == level[w] <= MaxRefinements

\* The observer pushes the rows of the next time sample to the batcher, and
\* the batcher to its paired batcher; full is the set of batchers whose
\* storage exceeds their capacity.
PushSample(w, full) ==
  /\ doing[w] # None /\ MeshAllowed(w) /\ pushed[w] < Samples
  /\ pushed' = [pushed EXCEPT ![w] = @ + 1]
  /\ LET rows == RowsAt(doing[w], pushed[w] + 1)
     IN  Flush(w, [s \in Streams |-> cache[w][s] \cup rows], FlushedByPush(full))
  /\ UNCHANGED <<diskVars, program, current, writerVars, todo, doing, level>>

\* Mutation: the paired batcher is not unwound.
Unbatched_IntegrationOnly(held, c) ==
  [s \in Streams |-> IF s = "int" THEN held[s] \ Rows(c) ELSE held[s]]
Unbatched(held, c) == [s \in Streams |-> held[s] \ Rows(c)]

\* std::overflow_error: unwind and try again with a refined mesh.
Refine(w) ==
  /\ doing[w] # None /\ MeshAllowed(w)
  /\ level' = [level EXCEPT ![w] = @ + 1]
  /\ pushed' = [pushed EXCEPT ![w] = 0]
  /\ cache' = [cache EXCEPT ![w] = Unbatched(@, doing[w])]
  /\ UNCHANGED <<diskVars, program, current, writerVars, todo, aggregations, doing>>

\* report_integration_success(): the batchers whose flush is due, or whose
\* checkpoint interval has passed, are flushed.
Succeed(w, streams) ==
  /\ doing[w] # None /\ pushed[w] = Samples
  /\ Flush(w, cache[w], streams)
  /\ doing' = [doing EXCEPT ![w] = None]
  /\ UNCHANGED <<diskVars, program, current, writerVars, todo, pushed, level>>

\* Mutation: the master does not merge the list of failed serials.
FailuresMerged_Never(c) == failed
FailuresMerged(c) == [failed EXCEPT !["int"] = @ \cup {c}]

\* runtime_exception: report_integration_failure(), which flushes what is
\* due, and only then unbatch().  The failure reaches the integration writer
\* with FINISHED_INTEGRATION; the zeta writer is not told.
Fail(w, streams) ==
  /\ doing[w] # None
  /\ LET kept == Unbatched(cache[w], doing[w])
     IN  /\ aggregations' = aggregations \o Container("int", cache[w], streams)
                                         \o Container("zeta", cache[w], streams)
         /\ cache' = [cache EXCEPT ![w] =
                        [s \in Streams |-> IF s \in streams THEN {} ELSE kept[s]]]
  /\ failed' = FailuresMerged(doing[w])
  /\ fail' = [fail EXCEPT !["int"] = (failed'["int"] # {})]
  /\ doing' = [doing EXCEPT ![w] = None]
  /\ UNCHANGED <<diskVars, program, current, missing, todo, pushed, level>>

\* END_OF_WORK: the batchers are closed, which flushes them.
CloseBatchers(w) ==
  /\ Working /\ todo = {} /\ doing[w] = None /\ cache[w] # NoWriters
  /\ Flush(w, cache[w], Streams)
  /\ UNCHANGED <<diskVars, program, current, writerVars, todo, doing, pushed, level>>

-----------------------------------------------------------------------------
MasterNext ==
  \/ \E q \in 0 .. runs : Begin(q)
  \/ RegisterWriter \/ Aggregate \/ FinishWork
  \/ CheckWriter \/ SynchronizeMissingSerials \/ RecheckWriter \/ CommitWriter
  \/ TaskThrows \/ AbortIntegration \/ AbortPostintegration
  \/ \E r \in 1 .. runs : Recover(r)

SlaveNext(w) ==
  \/ \E c \in Configs : StartConfiguration(w, c)
  \/ Refine(w) \/ CloseBatchers(w)
  \/ \E streams \in SUBSET Streams :
       PushSample(w, streams) \/ Succeed(w, streams) \/ Fail(w, streams)

\* The bound MaxRuns is reached and nothing is in hand.
Finished == Idle /\ runs = MaxRuns /\ UNCHANGED vars

Next == MasterNext \/ (\E w \in Slaves : SlaveNext(w)) \/ Crash \/ Finished

Spec == Init /\ [][Next]_vars

-----------------------------------------------------------------------------
(* Properties                                                              *)

AllRows == UNION {Rows(c) : c \in Configs}
Record == [state : {"none", "open", "rejected", "committed"},
           missing : SUBSET Configs, fail : BOOLEAN]
Operation == [op : {"register", "work", "check", "synchronize", "recheck",
                    "commit", "abort"},
              on : Streams, serials : SUBSET Configs]

TypeOK ==
  /\ runs \in 0 .. MaxRuns /\ current \in 0 .. MaxRuns
  /\ container \in [Runs -> [Streams -> SUBSET AllRows]]
  /\ registered \in [Runs -> SUBSET Streams]
  /\ record \in [Runs -> [Streams -> Record]]
  /\ seed \in [Runs -> 0 .. MaxRuns]
  /\ program \in Seq(Operation)
  /\ failed \in [Streams -> SUBSET Configs]
  /\ missing \in [Streams -> SUBSET Configs]
  /\ fail \in [Streams -> BOOLEAN]
  /\ todo \in SUBSET Configs
  /\ aggregations \in Seq([to : Streams, rows : SUBSET AllRows])
  /\ doing \in [Slaves -> Configs \cup {None}]
  /\ pushed \in [Slaves -> 0 .. Samples]
  /\ level \in [Slaves -> 0 .. MaxRefinements + 1]
  /\ cache \in [Slaves -> [Streams -> SUBSET AllRows]]

Committed(r, s) == record[r][s].state = "committed"
Held(r, s) == Present(container[r][s])

\* The missing serials a committed group records are exactly those its
\* container has no rows for: after failures, unreadable containers, crashes
\* at any point of closing and committing, recovery and seeding.  A later
\* seeded run relies on it to know what to integrate.
MissingExact ==
  \A r \in Runs, s \in Streams :
    Committed(r, s) => record[r][s].missing = Configs \ Held(r, s)

\* The two groups of a pair miss the same serials, which seed_writer_pair()
\* assumes, although the zeta writer is told of no failure and either of its
\* commits may be done by recovery.
PairAgrees ==
  \A r \in Runs : \A s, t \in Streams :
    Committed(r, s) /\ Committed(r, t) => record[r][s].missing = record[r][t].missing

\* A group that is not marked failed holds every configuration.
UnfailedHasAll ==
  \A r \in Runs, s \in Streams :
    Committed(r, s) /\ ~record[r][s].fail => Held(r, s) = Configs

\* A seeded group holds everything its seed did, and more: nothing that was
\* integrated before is lost, whatever fails in the new run.
SeedPreserved ==
  \A r \in Runs, s \in Streams :
    Committed(r, s) /\ seed[r] # 0 => Held(seed[r], s) \subseteq Held(r, s)

\* Where rows of stream s are while the task is at work: in the batchers, in
\* containers on their way, in the main container, or still to be pushed.
ToCome(w) == IF doing[w] = None THEN {}
             ELSE UNION {RowsAt(doing[w], j) : j \in pushed[w] + 1 .. Samples}
Queued(k, s) == IF aggregations[k].to = s THEN aggregations[k].rows ELSE {}
Places(s) == {<<"main", 0, container[current][s]>>}
  \cup {<<"cache", w, cache[w][s]>> : w \in Slaves}
  \cup {<<"next", w, ToCome(w)>> : w \in Slaves}
  \cup {<<"queue", k, Queued(k, s)>> : k \in DOMAIN aggregations}

\* No row is ever in two places, or produced a second time: it would violate
\* a key and its whole container would be lost.  A configuration retried with
\* a refined mesh does push its rows again, to both batchers, and a seeded
\* run adds to rows that are there already.
NoDuplicateRows ==
  Working => \A s \in Streams : \A p, q \in Places(s) :
    p # q => p[3] \cap q[3] = {}

\* What is stored of a configuration is stored whole: every time sample, in
\* the tables of its triangle and of the legs it is responsible for.
StoredWhole ==
  \A r \in Runs, s \in Streams : Committed(r, s) =>
    \A c \in Held(r, s) : Rows(c) \subseteq container[r][s]

\* abort_integration_writer() and abort_postintegration_writer() take the
\* output of an aborted task out of the in-flight tables, so that recovery
\* does not commit it afterwards.
AbortIsFinal ==
  [][\A r \in Runs, s \in Streams :
       record[r][s].state = "rejected" => record'[r][s].state # "committed"]_vars

\* A three-point configuration is kept only with the two-point data of all
\* its legs.
LegsPresent ==
  \A r \in Runs, s \in Streams : Committed(r, s) =>
    \A c \in Held(r, s) : Legs[c] \subseteq SerialsIn("twopf", container[r][s])
=============================================================================
