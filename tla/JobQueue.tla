------------------------------ MODULE JobQueue ------------------------------
(***************************************************************************)
(* How the master turns the tasks named on its command line into a queue   *)
(* of jobs, and works through it (manager/detail/master_controller_core.h, *)
(* job_descriptors.h, repository/repository_graphkit.h).                   *)
(*                                                                         *)
(* A task makes its content from content of its parents: a postintegration *)
(* task from that of another task, an output task from those of its        *)
(* products.  Tasks that are needed and have no content are added to the   *)
(* queue.  A zeta task may be paired with its parent, an integration: both *)
(* are then computed together, whether or not the parent has content.      *)
(*                                                                         *)
(* How a job comes by its result is the subject of TaskProtocol and        *)
(* ContentGroup.  Here it is a choice: content, content marked as failed,  *)
(* or none.  The repository is not changed by others in the meantime.      *)
(***************************************************************************)
EXTENDS Naturals, Sequences, FiniteSets

CONSTANTS Tasks,     \* tasks in the repository
          Kind,      \* Kind[t]: the type of the record of t
          Parents,   \* Parents[t]: the tasks t takes content from
          Paired,    \* the zeta tasks that are paired with their parent
          Missing,   \* a name no task of the repository has
          Tags,      \* tags a user may give
          Stored,    \* contents a task may have at the start
          MaxAsked   \* bound: tasks named on the command line

Names == Tasks \cup {Missing}
Group == [tags : SUBSET Tags, failed : BOOLEAN]
Job == [name : Names, tags : SUBSET Tags]

\* Positions of tasks such that parents come first.
Orders ==
  {rank \in [Tasks -> 1 .. Cardinality(Tasks)] :
     \A s, t \in Tasks : /\ rank[s] = rank[t] => s = t
                         /\ s \in Parents[t] => rank[s] < rank[t]}

ASSUME TasksAssumption == IsFiniteSet(Tasks) /\ Missing \notin Tasks
ASSUME KindsAssumption ==
  Kind \in [Tasks -> {"integration", "postintegration", "output"}]
ASSUME ParentsAssumption ==
  /\ Parents \in [Tasks -> SUBSET Tasks]
  /\ \A t \in Tasks : Kind[t] = "integration" => Parents[t] = {}
  /\ \A t \in Tasks : Kind[t] = "postintegration" => Cardinality(Parents[t]) = 1
  /\ Orders # {}
ASSUME PairedAssumption ==
  /\ Paired \subseteq {t \in Tasks : Kind[t] = "postintegration"}
  /\ \A t \in Paired : \A s \in Parents[t] : Kind[s] = "integration"
ASSUME StoredAssumption == Stored \subseteq SUBSET Group /\ MaxAsked \in Nat

VARIABLES
  content,   \* content[t]: content groups of t in the repository
  job_queue, \* the jobs, in the order they will be done
  required,  \* required_tasks
  pc,        \* what execute_tasks() does next
  at,        \* position in job_queue
  \* history
  asked,     \* the command line
  found,     \* tasks that had content when the queue was planned
  lost       \* tasks that were computed since, without success

vars == <<content, job_queue, required, pc, at, asked, found, lost>>
repository == <<content, lost>>

-----------------------------------------------------------------------------

Occurrences(s, t) == {i \in DOMAIN s : s[i].name = t}
Queued(t) == Occurrences(job_queue, t) # {}

\* The command line names some tasks, and tags for all of them.
Init ==
  /\ content \in [Tasks -> Stored]
  /\ \E n \in 0 .. MaxAsked, tags \in SUBSET Tags :
       asked \in [1 .. n -> [name : Names, tags : {tags}]]
  /\ job_queue = asked
  /\ required = {} /\ pc = "validate" /\ at = 1
  /\ found = {} /\ lost = {}

\* Mutation: tasks that cannot be read stay in the queue.
Readable_All(j) == TRUE
Readable(j) == j.name \in Tasks

Validating == pc = "validate" /\ at <= Len(job_queue)

\* validate_tasks(): the task of a job is looked up, and the job erased if
\* the repository does not have it.
KeepJob ==
  /\ Validating /\ Readable(job_queue[at])
  /\ at' = at + 1
  /\ UNCHANGED <<repository, job_queue, required, pc, asked, found>>

EraseJob ==
  /\ Validating /\ ~Readable(job_queue[at])
  /\ job_queue' = SubSeq(job_queue, 1, at - 1)
                    \o SubSeq(job_queue, at + 1, Len(job_queue))
  /\ UNCHANGED <<repository, required, pc, at, asked, found>>

\* Without jobs there is nothing to complete.
Validated ==
  /\ pc = "validate" /\ at > Len(job_queue)
  /\ at' = 1
  /\ pc' = IF job_queue = <<>> THEN "run" ELSE "depend"
  /\ UNCHANGED <<repository, job_queue, required, asked, found>>

-----------------------------------------------------------------------------
(* autocomplete_task_schedule()                                            *)

\* find_dependencies(): what has an arrow, or a path of arrows, to t.
Dependencies(t) ==
  {d \in Tasks \ {t} :
     \A C \in SUBSET Tasks :
       (Parents[t] \subseteq C /\ \A c \in C : Parents[c] \subseteq C) => d \in C}

FindDependencies ==
  /\ pc = "depend"
  /\ required' = UNION {Dependencies(t) : t \in {u \in Tasks : Queued(u)}}
  /\ pc' = "content"
  /\ UNCHANGED <<repository, job_queue, at, asked, found>>

\* prune_tasks_with_content(): any content group will do, whatever its tags,
\* and whether or not it is marked as failed.
PruneTasksWithContent ==
  /\ pc = "content"
  /\ found' = {t \in Tasks : content[t] # {}}
  /\ required' = required \ found'
  /\ pc' = "pairs"
  /\ UNCHANGED <<repository, job_queue, at, asked>>

\* Mutation: a parent is integrated for itself and again for the pair.
PairedOff_None(tasks) == {}
\* Parents that will be computed together with one of the tasks.
PairedOff(tasks) ==
  {p \in UNION {Parents[t] : t \in tasks \cap Paired} : ~Queued(p)}

\* prune_paired_tasks(): required_tasks, which is also the list of tasks to
\* schedule, receives the tasks of the command line.
PrunePairedTasks ==
  /\ pc = "pairs"
  /\ LET scheduled == required \cup {t \in Tasks : Queued(t)}
     IN  required' = scheduled \ PairedOff(scheduled)
  /\ pc' = "insert"
  /\ UNCHANGED <<repository, job_queue, at, asked, found>>

\* Mutation: a job is inserted for each required task.
Inserted_All(s) == s \in required
Inserted(s) == s \in required /\ ~Queued(s)

\* The tags of the command line, which an inserted job receives.
CommandTags == job_queue[1].tags

InsertedJob(t) == [name |-> t, tags |-> CommandTags]

\* Mutation: the queue is left in the order of the command line.
InOrder_Any(q, rank) == TRUE
\* The queue is sorted by the position of its tasks.
InOrder(q, rank) ==
  \A i, j \in DOMAIN q : i < j => rank[q[i].name] <= rank[q[j].name]

Added == {InsertedJob(t) : t \in {s \in Tasks : Inserted(s)}}
Jobs == Added \cup {job_queue[i] : i \in DOMAIN job_queue}

\* How often j is in the queue when the required jobs are added at its end.
Copies(j) == Cardinality({i \in DOMAIN job_queue : job_queue[i] = j})
               + (IF j \in Added THEN 1 ELSE 0)

\* insert_job_descriptors().  Which topological order is computed depends on
\* the names of the tasks.
InsertJobDescriptors ==
  /\ pc = "insert"
  /\ LET n == Len(job_queue) + Cardinality({s \in Tasks : Inserted(s)})
     IN  \E rank \in Orders, q \in [1 .. n -> Jobs] :
           /\ \A j \in Jobs : Cardinality({i \in 1 .. n : q[i] = j}) = Copies(j)
           /\ InOrder(q, rank)
           /\ job_queue' = q
  /\ pc' = "run"
  /\ UNCHANGED <<repository, required, at, asked, found>>

-----------------------------------------------------------------------------
(* process_task()                                                          *)

current == job_queue[at]
Running(k) == pc = "run" /\ at <= Len(job_queue) /\ Kind[current.name] = k

\* check_tags(), and groups marked as failed are not looked at.  (A tag that
\* is the name of a group is left out.)
Usable(t, tags) == \E g \in content[t] : ~g.failed /\ tags \subseteq g.tags
\* find_..._task_output() finds a group for each parent.
Ready(j) == \A p \in Parents[j.name] : Usable(p, j.tags)

\* The tasks in good get content, those in bad get content that is marked
\* as failed, and those in none get nothing.
Results(good, bad, none) ==
  /\ content' = [t \in Tasks |->
       content[t]
         \cup (IF t \in good THEN {[tags |-> current.tags, failed |-> FALSE]} ELSE {})
         \cup (IF t \in bad THEN {[tags |-> current.tags, failed |-> TRUE]} ELSE {})]
  /\ lost' = lost \cup bad \cup none
  /\ UNCHANGED <<job_queue, required, asked, found>>

NextJob == at' = at + 1 /\ UNCHANGED pc
\* Aborting the writer of a postintegration task ends the process; before it
\* was created, an exception only ends the job.
Terminate == pc' = "terminated" /\ UNCHANGED at

Integration ==
  /\ Running("integration")
  /\ \/ Results({current.name}, {}, {})
     \/ Results({}, {current.name}, {})
     \/ Results({}, {}, {current.name})
  /\ NextJob

\* validate_content_group() throws before there is a writer.
NoContentGroup ==
  /\ Running("postintegration")
  /\ current.name \notin Paired /\ ~Ready(current)
  /\ Results({}, {}, {current.name})
  /\ NextJob

Postintegration ==
  /\ Running("postintegration")
  /\ current.name \notin Paired /\ Ready(current)
  /\ \/ Results({current.name}, {}, {}) /\ NextJob
     \/ Results({}, {current.name}, {}) /\ NextJob
     \/ Results({}, {}, {current.name}) /\ (NextJob \/ Terminate)

\* schedule_paired_postintegration(): the writer of the parent is committed
\* first.
PairedPostintegration ==
  /\ Running("postintegration") /\ current.name \in Paired
  /\ LET both == {current.name} \cup Parents[current.name]
     IN  \/ \E good \in SUBSET both : Results(good, both \ good, {}) /\ NextJob
         \/ \E good \in SUBSET Parents[current.name] :
              /\ Results(good, Parents[current.name] \ good, {current.name})
              /\ Terminate
         \/ Results({}, {}, both) /\ (NextJob \/ Terminate)

\* A slave that cannot attach a content group fails its products, and the
\* writer aborts.
Output ==
  /\ Running("output")
  /\ \/ Ready(current) /\ Results({current.name}, {}, {})
     \/ Results({}, {}, {current.name})
  /\ NextJob

Finish ==
  /\ pc = "run" /\ at > Len(job_queue)
  /\ pc' = "done"
  /\ UNCHANGED <<repository, job_queue, required, at, asked, found>>

Next ==
  \/ KeepJob \/ EraseJob \/ Validated
  \/ FindDependencies \/ PruneTasksWithContent
  \/ PrunePairedTasks \/ InsertJobDescriptors
  \/ Integration \/ NoContentGroup \/ Postintegration \/ PairedPostintegration
  \/ Output \/ Finish

Spec == Init /\ [][Next]_vars

-----------------------------------------------------------------------------
(* Properties                                                              *)

\* Once a job is validated, it is a task of the repository.
TypeOK ==
  /\ content \in [Tasks -> SUBSET Group]
  /\ pc \in {"validate", "depend", "content", "pairs", "insert", "run", "done",
             "terminated"}
  /\ job_queue \in Seq(Job)
  /\ at \in 1 .. Len(job_queue) + 1
  /\ \A i \in DOMAIN job_queue :
       pc # "validate" \/ i < at => job_queue[i].name \in Tasks
  /\ required \subseteq Tasks /\ found \subseteq Tasks /\ lost \subseteq Tasks

Planned == pc \in {"run", "done", "terminated"}

\* The queue holds what was asked, each task as often as it was, and once
\* each task without content that one of them depends on, however indirectly;
\* autocompletion neither drops, repeats nor invents work.
QueueAsAsked ==
  Planned => \A t \in Tasks :
    LET n == Cardinality(Occurrences(job_queue, t)) IN
    IF Occurrences(asked, t) # {} THEN n = Cardinality(Occurrences(asked, t))
    ELSE n = 0 \/ (/\ n = 1 /\ t \notin found
                   /\ \E a \in Tasks :
                        Occurrences(asked, a) # {} /\ t \in Dependencies(a))

PairOf(t) == {z \in Paired : t \in Parents[z]}

\* A task nobody asked for is not computed by itself when it is computed
\* together with a paired task of the same queue.
PairComputedOnce ==
  Planned => \A t \in Tasks :
    Queued(t) /\ Occurrences(asked, t) = {} => ~\E z \in PairOf(t) : Queued(z)

ToBeDone(t) == \E j \in Occurrences(job_queue, t) : at <= j

\* When the turn of a job comes, everything it is made from is there, with the
\* tags it looks for, but for three reasons: a task before it failed, there
\* was content that is of no use (another tag, or marked as failed), or its
\* parent was left to a paired task that may come later in the queue.
DependenciesReady ==
  pc = "run" /\ at <= Len(job_queue) /\ current.name \notin Paired =>
    \A p \in Parents[current.name] :
      \/ Usable(p, current.tags)
      \/ p \in lost \/ p \in found
      \/ \E z \in PairOf(p) : ToBeDone(z)
=============================================================================
