--------------------------- MODULE JobQueueProofs ---------------------------
(***************************************************************************)
(* Proofs about the job queue, for any tasks, pairs and command line.      *)
(***************************************************************************)
EXTENDS JobQueue, SequenceTheorems, FiniteSetTheorems, TLAPS

-----------------------------------------------------------------------------
(* Tasks and what they depend on                                           *)

\* What a task takes content from, it depends on.
LEMMA ParentsAreDependencies ==
  ASSUME NEW t \in Tasks, NEW p \in Parents[t]
  PROVE  p \in Tasks /\ p # t /\ p \in Dependencies(t)
<1>1. p \in Tasks
  BY ParentsAssumption
<1>2. p # t
  <2>1. PICK rank \in Orders : TRUE
    BY ParentsAssumption
  <2>2. rank[p] < rank[t] /\ rank[t] \in Nat
    BY <1>1, <2>1, FS_CardinalityType, TasksAssumption DEF Orders
  <2>. QED BY <2>2
<1>. QED BY <1>1, <1>2 DEF Dependencies

\* What a dependency takes content from is a dependency.
LEMMA DependenciesClosed ==
  ASSUME NEW a \in Tasks, NEW t \in Dependencies(a), NEW p \in Parents[t],
         p # a
  PROVE  p \in Dependencies(a)
<1>1. t \in Tasks /\ p \in Tasks
  BY ParentsAssumption DEF Dependencies
<1>2. ASSUME NEW C \in SUBSET Tasks, Parents[a] \subseteq C,
             \A c \in C : Parents[c] \subseteq C
      PROVE  p \in C
  BY <1>2 DEF Dependencies
<1>. QED BY <1>1, <1>2 DEF Dependencies

\* Parents that are computed together with a pair are integrations.
LEMMA PairsAreIntegrations ==
  ASSUME NEW S \in SUBSET Tasks, NEW p \in PairedOff(S)
  PROVE  p \in Tasks /\ Kind[p] = "integration" /\ p \notin Paired
BY ParentsAssumption, PairedAssumption DEF PairedOff

-----------------------------------------------------------------------------
(* The invariant                                                           *)

\* Every job is from the command line, or needed by one that is; all carry
\* the same tags.
JobTypes ==
  /\ asked \in Seq(Job)
  /\ \A i, j \in DOMAIN job_queue : job_queue[i].tags = job_queue[j].tags

FromCommandLine ==
  /\ ~Planned => \A i \in DOMAIN job_queue :
                   \E k \in DOMAIN asked : job_queue[i] = asked[k]
  /\ pc \in {"depend", "content", "pairs", "insert"} => job_queue # <<>>
  /\ pc \in {"depend", "content", "pairs", "insert"} => at = 1

\* A task with content is not computed, nor one that is left to a pair.
Provided(t) == \/ t \in found \/ Queued(t) \/ t \in required
               \/ \E z \in PairOf(t) : Queued(z) \/ z \in required

AllProvided == \A t \in Tasks : \A p \in Parents[t] :
                 Queued(t) \/ t \in required => Provided(p)

Needed ==
  /\ pc = "content" => \A t \in Tasks : \A p \in Parents[t] :
       Queued(t) \/ t \in required => Queued(p) \/ p \in required
  /\ pc = "pairs" => AllProvided
  /\ pc = "insert" =>
       /\ AllProvided
       /\ \A t \in Tasks : Queued(t) => t \in required
       /\ \A t \in required : ~Queued(t) => ~\E z \in PairOf(t) : z \in required
  /\ Planned => \A t \in Tasks : \A p \in Parents[t] :
       Queued(t) => \/ p \in found \/ Queued(p)
                    \/ \E z \in PairOf(p) : Queued(z)

Ordered ==
  Planned => \A i, j \in DOMAIN job_queue :
    job_queue[i].name \in Parents[job_queue[j].name] => i < j

Made(t) == {t} \cup (IF t \in Paired THEN Parents[t] ELSE {})

\* What has been computed is there to be found, or was lost.
ResultsKept ==
  Planned => \A i \in DOMAIN job_queue : i < at =>
    \A t \in Made(job_queue[i].name) : Usable(t, job_queue[i].tags) \/ t \in lost

IInv == /\ TypeOK /\ JobTypes
        /\ FromCommandLine /\ PairComputedOnce
        /\ Needed /\ Ordered /\ ResultsKept

-----------------------------------------------------------------------------
(* The initial state                                                       *)

\* Nothing is planned or computed at the start, and all jobs carry the tags
\* of the command line.
LEMMA InitInv == Init => IInv
<1>. SUFFICES ASSUME Init PROVE IInv
  OBVIOUS
<1>1. PICK n \in 0 .. MaxAsked, tags \in SUBSET Tags :
        asked \in [1 .. n -> [name : Names, tags : {tags}]]
  BY DEF Init
<1>2. n \in Nat
  BY StoredAssumption
<1>3. asked \in Seq(Job) /\ Len(asked) \in Nat
  <2>1. asked \in [1 .. n -> Job]
    BY <1>1 DEF Job
  <2>2. [1 .. n -> Job] \subseteq Seq(Job)
    BY <1>2, SeqDef
  <2>. QED BY <2>1, <2>2
<1>4. \A i \in DOMAIN asked : asked[i].tags = tags
  BY <1>1
<1>5. content \in [Tasks -> SUBSET Group]
  BY StoredAssumption DEF Init
<1>6. TypeOK
  BY <1>3, <1>5 DEF Init, TypeOK
<1>7. JobTypes /\ FromCommandLine
  BY <1>3, <1>4 DEF Init, JobTypes, FromCommandLine, Planned
<1>. QED BY <1>6, <1>7 DEF Init, IInv, Planned, PairComputedOnce, Needed,
                            Ordered, ResultsKept

-----------------------------------------------------------------------------
(* Validation                                                              *)

\* Erasing a job leaves jobs that were there.
LEMMA Erased ==
  ASSUME TypeOK, JobTypes, EraseJob
  PROVE  /\ job_queue' \in Seq(Job)
         /\ Len(job_queue') = Len(job_queue) - 1
         /\ \A i \in DOMAIN job_queue' :
              job_queue'[i] = IF i < at THEN job_queue[i] ELSE job_queue[i + 1]
<1>. DEFINE n == Len(job_queue)
            s == SubSeq(job_queue, 1, at - 1)
            t == SubSeq(job_queue, at + 1, n)
<1>1. n \in Nat /\ at \in 1 .. n /\ \A i \in 1 .. n : job_queue[i] \in Job
  BY DEF TypeOK, EraseJob, Validating
<1>2. /\ s \in Seq(Job) /\ Len(s) = at - 1
      /\ \A i \in 1 .. at - 1 : s[i] = job_queue[i]
  <2>1. at - 1 \in Int /\ 1 \in Int /\ \A i \in 1 .. at - 1 : job_queue[i] \in Job
    BY <1>1
  <2>2. s \in Seq(Job) /\ Len(s) = IF 1 <= at - 1 THEN at - 1 - 1 + 1 ELSE 0
    BY <2>1, SubSeqProperties
  <2>3. \A i \in 1 .. (at - 1) - 1 + 1 : s[i] = job_queue[1 + i - 1]
    BY <2>1, SubSeqProperties
  <2>. QED BY <1>1, <2>2, <2>3
<1>3. /\ t \in Seq(Job) /\ Len(t) = n - at
      /\ \A i \in 1 .. n - at : t[i] = job_queue[at + i]
  <2>1. at + 1 \in Int /\ n \in Int /\ \A i \in at + 1 .. n : job_queue[i] \in Job
    BY <1>1
  <2>2. t \in Seq(Job) /\ Len(t) = IF at + 1 <= n THEN n - (at + 1) + 1 ELSE 0
    BY <2>1, SubSeqProperties
  <2>3. \A i \in 1 .. n - (at + 1) + 1 : t[i] = job_queue[(at + 1) + i - 1]
    BY <2>1, SubSeqProperties
  <2>. QED BY <1>1, <2>2, <2>3
<1>. HIDE DEF s, t
<1>4. /\ s \o t \in Seq(Job) /\ Len(s \o t) = Len(s) + Len(t)
      /\ \A i \in 1 .. Len(s) + Len(t) :
           (s \o t)[i] = IF i <= Len(s) THEN s[i] ELSE t[i - Len(s)]
  BY <1>2, <1>3, ConcatProperties
<1>5. job_queue' = s \o t
  BY DEF EraseJob, s, t
<1>6. \A i \in 1 .. n - 1 :
        (s \o t)[i] = IF i < at THEN job_queue[i] ELSE job_queue[i + 1]
  <2>. TAKE i \in 1 .. n - 1
  <2>1. CASE i < at
    BY <1>1, <1>2, <1>3, <1>4, <2>1
  <2>2. CASE ~(i < at)
    <3>. DEFINE k == i - (at - 1)
    <3>1. k \in 1 .. n - at /\ at + k = i + 1
      BY <1>1, <2>2
    <3>2. t[k] = job_queue[i + 1]
      BY <1>3, <3>1
    <3>3. i \in 1 .. Len(s) + Len(t) /\ ~(i <= Len(s)) /\ i - Len(s) = k
      BY <1>1, <1>2, <1>3, <2>2
    <3>. QED BY <1>4, <2>2, <3>2, <3>3
  <2>. QED BY <2>1, <2>2
<1>7. DOMAIN job_queue' = 1 .. n - 1 /\ Len(job_queue') = n - 1
  BY <1>1, <1>2, <1>3, <1>4, <1>5
<1>. QED BY <1>4, <1>5, <1>6, <1>7

\* The steps of validation.
LEMMA StepValidation ==
  ASSUME IInv, KeepJob \/ EraseJob \/ Validated
  PROVE  IInv'
<1>. USE DEF IInv
<1>1. CASE KeepJob
  <2>1. TypeOK'
    BY <1>1 DEF KeepJob, Validating, Readable, TypeOK, repository
  <2>2. JobTypes' /\ FromCommandLine'
    BY <1>1 DEF KeepJob, Validating, JobTypes, FromCommandLine, Planned
  <2>. QED BY <1>1, <2>1, <2>2 DEF KeepJob, Validating, Planned,
         PairComputedOnce, Needed, Ordered, ResultsKept
<1>2. CASE EraseJob
  <2>. DEFINE n == Len(job_queue)
  <2>1. /\ job_queue' \in Seq(Job) /\ Len(job_queue') = n - 1
        /\ DOMAIN job_queue' = 1 .. n - 1
        /\ \A i \in 1 .. n - 1 :
             job_queue'[i] = IF i < at THEN job_queue[i] ELSE job_queue[i + 1]
    BY <1>2, Erased
  <2>2. at \in 1 .. n /\ n \in Nat /\ DOMAIN job_queue = 1 .. n /\ at' = at
    BY <1>2 DEF TypeOK, EraseJob, Validating
  <2>. HIDE DEF n
  <2>3. TypeOK'
    <3>1. at' \in 1 .. Len(job_queue') + 1
      BY <2>1, <2>2
    <3>2. \A i \in DOMAIN job_queue' : i < at' => job_queue'[i].name \in Tasks
      BY <2>1, <2>2 DEF TypeOK
    <3>. QED BY <1>2, <2>1, <3>1, <3>2 DEF EraseJob, Validating, TypeOK, repository
  <2>4. \A i \in DOMAIN job_queue' : \E k \in DOMAIN job_queue : job_queue'[i] = job_queue[k]
    <3>. TAKE i \in DOMAIN job_queue'
    <3>1. i \in 1 .. n /\ i + 1 \in 1 .. n
      BY <2>1, <2>2
    <3>. QED BY <2>1, <2>2, <3>1
  <2>5. JobTypes'
    <3>1. asked' = asked
      BY <1>2 DEF EraseJob
    <3>2. \A i, j \in DOMAIN job_queue' : job_queue'[i].tags = job_queue'[j].tags
      BY <2>4 DEF JobTypes
    <3>. QED BY <3>1, <3>2 DEF JobTypes
  <2>6. FromCommandLine'
    <3>1. ~Planned /\ pc = "validate" /\ pc' = pc /\ asked' = asked
      BY <1>2 DEF EraseJob, Validating, Planned
    <3>. QED BY <2>4, <3>1 DEF FromCommandLine
  <2>. QED BY <1>2, <2>3, <2>5, <2>6 DEF EraseJob, Validating, Planned,
         PairComputedOnce, Needed, Ordered, ResultsKept
<1>3. CASE Validated
  <2>1. Len(job_queue) \in Nat /\ DOMAIN job_queue = 1 .. Len(job_queue)
    BY DEF TypeOK
  <2>2. TypeOK'
    <3>1. at = Len(job_queue) + 1
      BY <1>3, <2>1 DEF Validated, TypeOK
    <3>2. \A i \in DOMAIN job_queue : job_queue[i].name \in Tasks
      BY <2>1, <3>1 DEF TypeOK
    <3>. QED BY <1>3, <2>1, <3>2 DEF Validated, TypeOK, repository
  <2>3. JobTypes' /\ FromCommandLine'
    BY <1>3 DEF Validated, JobTypes, FromCommandLine, Planned
  <2>4. CASE job_queue = <<>>
    <3>1. \A t \in Tasks : ~Queued(t)'
      BY <1>3, <2>4 DEF Validated, Queued, Occurrences
    <3>. QED BY <1>3, <2>2, <2>3, <2>4, <3>1 DEF Validated, PairComputedOnce, Needed,
                Ordered, ResultsKept
  <2>5. CASE job_queue # <<>>
    <3>1. pc' = "depend"
      BY <1>3, <2>5 DEF Validated
    <3>. QED BY <2>2, <2>3, <3>1 DEF Planned, PairComputedOnce, Needed, Ordered,
                ResultsKept
  <2>. QED BY <2>4, <2>5
<1>. QED BY <1>1, <1>2, <1>3

-----------------------------------------------------------------------------
(* Planning                                                                *)

\* The three steps that work on required_tasks.
LEMMA StepRequired ==
  ASSUME IInv, FindDependencies \/ PruneTasksWithContent \/ PrunePairedTasks
  PROVE  IInv'
<1>. USE DEF IInv
<1>1. /\ UNCHANGED <<repository, job_queue, at, asked>>
      /\ pc \in {"depend", "content", "pairs"}
      /\ pc' \in {"content", "pairs", "insert"}
  BY DEF FindDependencies, PruneTasksWithContent, PrunePairedTasks
<1>2. \A t \in Tasks : Queued(t)' = Queued(t)
  BY <1>1 DEF Queued, Occurrences
<1>3. required' \subseteq Tasks /\ found' \subseteq Tasks
  BY DEF FindDependencies, PruneTasksWithContent, PrunePairedTasks, TypeOK,
         Dependencies
<1>4. TypeOK'
  <2>1. \A i \in DOMAIN job_queue : job_queue[i].name \in Tasks
    BY <1>1 DEF TypeOK
  <2>. QED BY <1>1, <1>3, <2>1 DEF TypeOK, repository
<1>5. JobTypes' /\ FromCommandLine'
  BY <1>1 DEF JobTypes, FromCommandLine, Planned
<1>6. PairComputedOnce' /\ Ordered' /\ ResultsKept'
  BY <1>1 DEF PairComputedOnce, Ordered, ResultsKept, Planned
<1>7. CASE FindDependencies
  <2>1. ASSUME NEW t \in Tasks, NEW p \in Parents[t], Queued(t) \/ t \in required'
        PROVE  Queued(p) \/ p \in required'
    <3>1. CASE Queued(t)
      <4>1. p \in Dependencies(t)
        BY ParentsAreDependencies
      <4>. QED BY <1>7, <3>1, <4>1 DEF FindDependencies
    <3>2. CASE t \in required'
      <4>1. PICK a \in Tasks : Queued(a) /\ t \in Dependencies(a)
        BY <1>7, <3>2 DEF FindDependencies
      <4>2. p = a \/ p \in Dependencies(a)
        BY <4>1, DependenciesClosed
      <4>. QED BY <1>7, <4>1, <4>2 DEF FindDependencies
    <3>. QED BY <2>1, <3>1, <3>2
  <2>2. Needed'
    <3>1. pc' = "content" /\ ~Planned'
      BY <1>7 DEF FindDependencies, Planned
    <3>2. \A t \in Tasks : \A p \in Parents[t] :
            Queued(t)' \/ t \in required' => Queued(p)' \/ p \in required'
      BY <1>2, <2>1, ParentsAreDependencies
    <3>. QED BY <3>1, <3>2 DEF Needed
  <2>. QED BY <1>4, <1>5, <1>6, <2>2
<1>8. CASE PruneTasksWithContent
  <2>1. /\ pc = "content" /\ pc' = "pairs"
        /\ required' = required \ found'
    BY <1>8 DEF PruneTasksWithContent
  <2>2. ASSUME NEW t \in Tasks, NEW p \in Parents[t], Queued(t) \/ t \in required'
        PROVE  Queued(p) \/ p \in required' \/ p \in found'
    BY <2>1, <2>2 DEF Needed
  <2>3. AllProvided'
    BY <1>2, <2>2, ParentsAreDependencies DEF AllProvided, Provided
  <2>4. Needed'
    BY <2>1, <2>3 DEF Needed, Planned
  <2>. QED BY <1>4, <1>5, <1>6, <2>4
<1>9. CASE PrunePairedTasks
  <2>. DEFINE S == required \cup {t \in Tasks : Queued(t)}
  <2>1. /\ pc = "pairs" /\ pc' = "insert" /\ found' = found
        /\ S \subseteq Tasks /\ required' = S \ PairedOff(S)
    BY <1>9 DEF PrunePairedTasks, TypeOK
  <2>. HIDE DEF S
  <2>2. \A p \in PairedOff(S) : ~Queued(p) /\ p \notin Paired
    BY <2>1, PairsAreIntegrations DEF PairedOff
  <2>3. \A t \in S : t \in Paired \/ Queued(t) => t \in required'
    BY <2>1, <2>2
  <2>4. ASSUME NEW t \in Tasks, NEW p \in Parents[t], Queued(t) \/ t \in required'
        PROVE  Provided(p)'
    <3>1. p \in Tasks
      BY ParentsAreDependencies
    <3>2. Queued(t) \/ t \in required
      BY <2>1, <2>4 DEF S
    <3>3. Provided(p)
      BY <2>1, <3>2 DEF Needed, AllProvided
    <3>4. CASE p \in required
      <4>1. CASE p \in PairedOff(S)
        <5>1. PICK z \in S \cap Paired : p \in Parents[z]
          BY <4>1 DEF PairedOff
        <5>2. z \in required' /\ z \in PairOf(p)
          BY <2>3, <5>1 DEF PairOf
        <5>. QED BY <5>2 DEF Provided, PairOf
      <4>2. CASE p \notin PairedOff(S)
        BY <2>1, <3>4, <4>2 DEF Provided, S
      <4>. QED BY <4>1, <4>2
    <3>5. CASE p \in found \/ Queued(p)
      BY <1>2, <2>1, <3>1, <3>5 DEF Provided
    <3>6. CASE \E z \in PairOf(p) : Queued(z) \/ z \in required
      <4>1. PICK z \in PairOf(p) : Queued(z) \/ z \in required
        BY <3>6
      <4>2. z \in S /\ z \in Paired
        BY <4>1, PairedAssumption DEF S, PairOf
      <4>3. z \in required'
        BY <2>3, <4>2
      <4>. QED BY <4>1, <4>3 DEF Provided, PairOf
    <3>. QED BY <3>3, <3>4, <3>5, <3>6 DEF Provided
  <2>5. AllProvided'
    BY <1>2, <2>4 DEF AllProvided
  <2>6. \A t \in Tasks : Queued(t)' => t \in required'
    BY <1>2, <2>1, <2>3 DEF S
  <2>7. ASSUME NEW t \in required', ~Queued(t)', NEW z \in PairOf(t), z \in required'
        PROVE  FALSE
    <3>1. t \in Tasks /\ ~Queued(t)
      BY <1>2, <1>3, <2>7
    <3>2. z \in S \cap Paired /\ t \in Parents[z]
      BY <2>1, <2>7 DEF PairOf
    <3>3. t \in PairedOff(S)
      BY <3>1, <3>2 DEF PairedOff
    <3>. QED BY <2>1, <2>7, <3>3
  <2>8. Needed'
    BY <2>1, <2>5, <2>6, <2>7 DEF Needed, Planned, PairOf
  <2>. QED BY <1>4, <1>5, <1>6, <2>8
<1>. QED BY <1>7, <1>8, <1>9

\* What the queue holds after the required jobs are inserted, and how.
LEMMA InsertedQueue ==
  ASSUME IInv, InsertJobDescriptors
  PROVE  /\ job_queue' \in Seq(Job) /\ job_queue' # <<>>
         /\ \A i \in DOMAIN job_queue' : job_queue'[i].name \in Tasks
         /\ \A i, j \in DOMAIN job_queue' : job_queue'[i].tags = job_queue'[j].tags
         /\ \A t \in Tasks : Queued(t)' <=> t \in required
         /\ \A i, j \in DOMAIN job_queue' :
              job_queue'[i].name \in Parents[job_queue'[j].name] => i < j
<1>. USE DEF IInv
<1>. DEFINE N == {s \in Tasks : Inserted(s)}
            n == Len(job_queue) + Cardinality(N)
<1>1. PICK rank \in Orders, q \in [1 .. n -> Jobs] :
        /\ \A j \in Jobs : Cardinality({i \in 1 .. n : q[i] = j}) = Copies(j)
        /\ InOrder(q, rank)
        /\ job_queue' = q
  BY DEF InsertJobDescriptors
<1>2. /\ pc = "insert" /\ job_queue # <<>> /\ job_queue \in Seq(Job)
      /\ \A i \in DOMAIN job_queue : job_queue[i].name \in Tasks
      /\ \A i, j \in DOMAIN job_queue : job_queue[i].tags = job_queue[j].tags
      /\ required \subseteq Tasks
  BY DEF InsertJobDescriptors, TypeOK, JobTypes, FromCommandLine
<1>3. 1 \in DOMAIN job_queue /\ Len(job_queue) \in Nat \ {0}
  BY <1>2
<1>4. Cardinality(N) \in Nat /\ n \in Nat \ {0}
  BY <1>3, FS_Subset, FS_CardinalityType, TasksAssumption
<1>. HIDE DEF N, n
<1>5. \A t \in Tasks : /\ InsertedJob(t) \in Job /\ InsertedJob(t).name = t
                       /\ InsertedJob(t).tags = job_queue[1].tags
  <2>1. job_queue[1] \in Job
    BY <1>2, <1>3, ElementOfSeq
  <2>2. job_queue[1].tags \in SUBSET Tags
    BY <2>1 DEF Job
  <2>. QED BY <2>2 DEF InsertedJob, CommandTags, Job, Names
<1>6. \A j \in Jobs : /\ j \in Job /\ j.name \in Tasks
                      /\ j.tags = job_queue[1].tags
                      /\ j.name \in required
  <2>. TAKE j \in Jobs
  <2>1. CASE j \in Added
    BY <1>5, <2>1 DEF Added, Inserted
  <2>2. CASE \E i \in DOMAIN job_queue : j = job_queue[i]
    <3>1. PICK i \in DOMAIN job_queue : j = job_queue[i]
      BY <2>2
    <3>2. j \in Job /\ j.name \in Tasks /\ j.tags = job_queue[1].tags
      BY <1>2, <1>3, <3>1
    <3>3. Queued(j.name)
      BY <3>1 DEF Queued, Occurrences
    <3>. QED BY <1>2, <3>2, <3>3 DEF Needed
  <2>. QED BY <2>1, <2>2 DEF Jobs
<1>7. \A j \in Jobs : \E i \in 1 .. n : q[i] = j
  <2>. TAKE j \in Jobs
  <2>. DEFINE before == {i \in DOMAIN job_queue : job_queue[i] = j}
              after == {i \in 1 .. n : q[i] = j}
  <2>1. IsFiniteSet(before) /\ IsFiniteSet(after)
    <3>1. before \subseteq 1 .. Len(job_queue) /\ after \subseteq 1 .. n
      BY <1>2
    <3>2. IsFiniteSet(1 .. Len(job_queue)) /\ IsFiniteSet(1 .. n)
      BY <1>3, <1>4, FS_Interval
    <3>. QED BY <3>1, <3>2, FS_Subset
  <2>2. Cardinality(before) \in Nat /\ (before # {} => Cardinality(before) # 0)
    BY <2>1, FS_CardinalityType, FS_EmptySet
  <2>3. j \in Added \/ before # {}
    BY DEF Jobs
  <2>4. Copies(j) = Cardinality(before) + (IF j \in Added THEN 1 ELSE 0)
    BY DEF Copies
  <2>5. Cardinality(after) = Copies(j)
    BY <1>1
  <2>. HIDE DEF before
  <2>6. Cardinality(after) # 0
    BY <2>2, <2>3, <2>4, <2>5
  <2>7. after # {}
    BY <2>6, FS_EmptySet
  <2>. QED BY <2>7
<1>8. /\ job_queue' = q /\ DOMAIN q = 1 .. n
      /\ \A i \in 1 .. n : q[i] \in Jobs
  BY <1>1
<1>9. job_queue' \in Seq(Job) /\ job_queue' # <<>>
  <2>1. q \in [1 .. n -> Job]
    BY <1>1, <1>6
  <2>2. [1 .. n -> Job] \subseteq Seq(Job)
    BY <1>4, SeqDef
  <2>3. q \in Seq(Job) /\ Len(q) = n
    BY <1>4, <2>1, <2>2, LenProperties
  <2>4. q # <<>>
    BY <1>4, <2>3, EmptySeq
  <2>. QED BY <1>8, <2>1, <2>2, <2>4
<1>10. ASSUME NEW t \in Tasks PROVE Queued(t)' <=> t \in required
  <2>1. ASSUME Queued(t)' PROVE t \in required
    <3>1. PICK i \in 1 .. n : q[i].name = t
      BY <1>8, <2>1 DEF Queued, Occurrences
    <3>. QED BY <1>6, <1>8, <3>1
  <2>2. ASSUME t \in required PROVE Queued(t)'
    <3>1. PICK j \in Jobs : j.name = t
      <4>1. CASE Queued(t)
        BY <4>1 DEF Queued, Occurrences, Jobs
      <4>2. CASE ~Queued(t)
        BY <1>5, <2>2, <4>2 DEF Inserted, Added, Jobs
      <4>. QED BY <4>1, <4>2
    <3>2. PICK i \in 1 .. n : q[i] = j
      BY <1>7
    <3>. QED BY <1>8, <3>1, <3>2 DEF Queued, Occurrences
  <2>. QED BY <2>1, <2>2
<1>11. ASSUME NEW i \in 1 .. n, NEW j \in 1 .. n, q[i].name \in Parents[q[j].name]
       PROVE  i < j
  <2>1. q[i].name \in Tasks /\ q[j].name \in Tasks
    BY <1>6, <1>8
  <2>2. /\ rank[q[i].name] < rank[q[j].name]
        /\ rank[q[i].name] \in Nat /\ rank[q[j].name] \in Nat
    <3>1. rank \in [Tasks -> 1 .. Cardinality(Tasks)]
      BY DEF Orders
    <3>2. Cardinality(Tasks) \in Nat
      BY FS_CardinalityType, TasksAssumption
    <3>3. rank[q[i].name] < rank[q[j].name]
      BY <1>11, <2>1 DEF Orders
    <3>. QED BY <2>1, <3>1, <3>2, <3>3
  <2>3. j < i => rank[q[j].name] <= rank[q[i].name]
    BY <1>1, <1>8 DEF InOrder
  <2>4. i # j
    BY <2>2
  <2>. QED BY <2>2, <2>3, <2>4
<1>. QED BY <1>6, <1>8, <1>9, <1>10, <1>11

\* Autocompletion ends with a queue that holds what its jobs need, in order.
LEMMA StepInsert ==
  ASSUME IInv, InsertJobDescriptors
  PROVE  IInv'
<1>. USE DEF IInv
<1>1. /\ pc = "insert" /\ pc' = "run" /\ at = 1
      /\ UNCHANGED <<repository, required, at, asked, found>>
  BY DEF InsertJobDescriptors, FromCommandLine
<1>2. /\ job_queue' \in Seq(Job)
      /\ \A i \in DOMAIN job_queue' : job_queue'[i].name \in Tasks
      /\ \A i, j \in DOMAIN job_queue' : job_queue'[i].tags = job_queue'[j].tags
      /\ \A t \in Tasks : Queued(t)' <=> t \in required
      /\ \A i, j \in DOMAIN job_queue' :
           job_queue'[i].name \in Parents[job_queue'[j].name] => i < j
  BY InsertedQueue
<1>3. TypeOK'
  <2>1. at' \in 1 .. Len(job_queue') + 1
    BY <1>1, <1>2, LenProperties
  <2>. QED BY <1>1, <1>2, <2>1 DEF TypeOK, repository
<1>4. JobTypes' /\ FromCommandLine'
  BY <1>1, <1>2 DEF JobTypes, FromCommandLine, Planned
<1>5. PairComputedOnce'
  <2>. SUFFICES ASSUME NEW t \in Tasks, Queued(t)', Occurrences(asked, t)' = {},
                       NEW z \in PairOf(t), Queued(z)'
                PROVE  FALSE
    BY DEF PairComputedOnce, PairOf
  <2>1. t \in required /\ z \in required
    BY <1>2, PairedAssumption DEF PairOf
  <2>2. ~Queued(t)
    <3>. SUFFICES ASSUME Queued(t) PROVE FALSE
      OBVIOUS
    <3>1. PICK i \in DOMAIN job_queue : job_queue[i].name = t
      BY DEF Queued, Occurrences
    <3>2. PICK k \in DOMAIN asked : job_queue[i] = asked[k]
      BY <1>1, <3>1 DEF FromCommandLine, Planned
    <3>. QED BY <1>1, <3>1, <3>2 DEF Occurrences
  <2>. QED BY <1>1, <2>1, <2>2 DEF Needed
<1>6. Needed'
  <2>. SUFFICES ASSUME NEW t \in Tasks, NEW p \in Parents[t], Queued(t)'
                PROVE  \/ p \in found \/ Queued(p)'
                       \/ \E z \in PairOf(p) : Queued(z)'
    BY <1>1 DEF Needed, PairOf
  <2>1. p \in Tasks /\ PairOf(p) \subseteq Tasks
    BY ParentsAreDependencies, PairedAssumption DEF PairOf
  <2>2. \A s \in Tasks : Queued(s) \/ s \in required => Queued(s)'
    BY <1>1, <1>2 DEF Needed
  <2>3. Provided(p)
    BY <1>1, <1>2 DEF Needed, AllProvided
  <2>. QED BY <2>1, <2>2, <2>3 DEF Provided
<1>7. Ordered' /\ ResultsKept'
  BY <1>1, <1>2 DEF Ordered, ResultsKept, TypeOK
<1>. QED BY <1>3, <1>4, <1>5, <1>6, <1>7

-----------------------------------------------------------------------------
(* Jobs                                                                    *)

\* A job leaves the queue as it is and accounts for what it makes.
LEMMA JobDone ==
  ASSUME IInv, pc = "run", at <= Len(job_queue),
         NEW good \in SUBSET Tasks, NEW bad \in SUBSET Tasks,
         NEW none \in SUBSET Tasks,
         Results(good, bad, none), NextJob \/ Terminate,
         Made(current.name) \subseteq good \cup bad \cup none
  PROVE  IInv'
<1>. USE DEF IInv
<1>1. /\ UNCHANGED <<job_queue, required, asked, found>>
      /\ at' = at \/ (at' = at + 1 /\ pc' = pc)
      /\ pc' \in {"run", "terminated"}
  BY DEF Results, NextJob, Terminate
<1>2. /\ job_queue \in Seq(Job) /\ at \in 1 .. Len(job_queue)
      /\ Len(job_queue) \in Nat /\ current \in Job
  BY ElementOfSeq, LenProperties DEF TypeOK, current
<1>3. TypeOK'
  <2>1. content' \in [Tasks -> SUBSET Group]
    <3>1. current.tags \in SUBSET Tags
      BY <1>2 DEF Job
    <3>2. {[tags |-> current.tags, failed |-> f] : f \in BOOLEAN} \subseteq Group
      BY <3>1 DEF Group
    <3>. QED BY <3>2 DEF Results, TypeOK
  <2>2. lost' \subseteq Tasks
    BY DEF Results, TypeOK
  <2>3. at' \in 1 .. Len(job_queue) + 1
    BY <1>1, <1>2
  <2>. QED BY <1>1, <2>1, <2>2, <2>3 DEF TypeOK
<1>4. \A t \in Tasks : Queued(t)' = Queued(t)
  BY <1>1 DEF Queued, Occurrences
<1>5. JobTypes' /\ FromCommandLine' /\ Ordered'
  BY <1>1 DEF JobTypes, FromCommandLine, Ordered, Planned
<1>6. PairComputedOnce'
  BY <1>1, <1>4, PairedAssumption DEF PairComputedOnce, Planned, PairOf, Occurrences
<1>7. Needed'
  <2>1. \A t \in Tasks : Parents[t] \subseteq Tasks /\ PairOf(t) \subseteq Tasks
    BY ParentsAssumption, PairedAssumption DEF PairOf
  <2>2. \A t \in Tasks : \A p \in Parents[t] :
          Queued(t) => p \in found \/ Queued(p) \/ \E z \in PairOf(p) : Queued(z)
    BY DEF Needed, Planned
  <2>3. \A t \in Tasks : \A p \in Parents[t] :
          Queued(t)' => \/ p \in found' \/ Queued(p)'
                        \/ \E z \in PairOf(p)' : Queued(z)'
    BY <1>1, <1>4, <2>1, <2>2 DEF PairOf
  <2>. QED BY <1>1, <2>3 DEF Needed
<1>8. ResultsKept'
  <2>. SUFFICES ASSUME NEW i \in DOMAIN job_queue, i < at',
                       NEW t \in Made(job_queue[i].name)
                PROVE  Usable(t, job_queue[i].tags)' \/ t \in lost'
    BY <1>1 DEF ResultsKept, Made
  <2>1. t \in Tasks
    BY <1>2, ParentsAssumption, PairedAssumption DEF Made, TypeOK
  <2>2. content[t] \subseteq content'[t] /\ lost \subseteq lost'
    BY <2>1 DEF Results
  <2>3. CASE i < at
    <3>1. Usable(t, job_queue[i].tags) \/ t \in lost
      BY <2>3 DEF ResultsKept, Planned
    <3>. QED BY <1>1, <2>2, <3>1 DEF Usable
  <2>4. CASE ~(i < at)
    <3>1. i = at
      BY <1>1, <1>2, <2>4
    <3>2. t \in good \/ t \in lost'
      BY <3>1 DEF Results, current
    <3>3. ASSUME t \in good
          PROVE  [tags |-> job_queue[i].tags, failed |-> FALSE] \in content'[t]
      BY <2>1, <3>1, <3>3 DEF Results, current
    <3>4. t \in good => Usable(t, job_queue[i].tags)'
      BY <1>1, <3>3 DEF Usable
    <3>. QED BY <3>2, <3>4
  <2>. QED BY <2>3, <2>4
<1>. QED BY <1>3, <1>5, <1>6, <1>7, <1>8

\* The actions that process a job.
LEMMA StepJob ==
  ASSUME IInv,
         Integration \/ NoContentGroup \/ Postintegration
           \/ PairedPostintegration \/ Output
  PROVE  IInv'
<1>1. pc = "run" /\ at <= Len(job_queue)
  BY DEF Integration, NoContentGroup, Postintegration, PairedPostintegration,
         Output, Running
<1>2. current.name \in Tasks
  <2>1. at \in DOMAIN job_queue
    BY <1>1, LenProperties DEF IInv, TypeOK
  <2>. QED BY <1>1, <2>1 DEF IInv, TypeOK, current
<1>3. Parents[current.name] \in SUBSET Tasks
  BY <1>2, ParentsAssumption
<1>4. CASE Integration \/ NoContentGroup \/ Postintegration \/ Output
  <2>1. current.name \notin Paired
    BY <1>2, <1>4, PairedAssumption DEF Integration, NoContentGroup,
       Postintegration, Output, Running
  <2>2. Made(current.name) = {current.name}
    BY <2>1 DEF Made
  <2>3. /\ NextJob \/ Terminate
        /\ \/ Results({current.name}, {}, {})
           \/ Results({}, {current.name}, {})
           \/ Results({}, {}, {current.name})
    BY <1>4 DEF Integration, NoContentGroup, Postintegration, Output
  <2>4. {current.name} \in SUBSET Tasks /\ {} \in SUBSET Tasks
    BY <1>2
  <2>5. CASE Results({current.name}, {}, {})
    BY <1>1, <2>2, <2>3, <2>4, <2>5, JobDone
  <2>6. CASE Results({}, {current.name}, {})
    BY <1>1, <2>2, <2>3, <2>4, <2>6, JobDone
  <2>7. CASE Results({}, {}, {current.name})
    BY <1>1, <2>2, <2>3, <2>4, <2>7, JobDone
  <2>. QED BY <2>3, <2>5, <2>6, <2>7
<1>5. CASE PairedPostintegration
  <2>. DEFINE both == {current.name} \cup Parents[current.name]
  <2>1. Made(current.name) = both
    BY <1>5 DEF PairedPostintegration, Made
  <2>2. PICK good \in SUBSET both, bad \in SUBSET both, none \in SUBSET both :
          /\ Results(good, bad, none) /\ (NextJob \/ Terminate)
          /\ both \subseteq good \cup bad \cup none
    <3>1. CASE \E g \in SUBSET both : Results(g, both \ g, {}) /\ NextJob
      BY <3>1
    <3>2. CASE \E g \in SUBSET Parents[current.name] :
                 /\ Results(g, Parents[current.name] \ g, {current.name})
                 /\ Terminate
      <4>1. PICK g \in SUBSET Parents[current.name] :
               /\ Results(g, Parents[current.name] \ g, {current.name})
               /\ Terminate
        BY <3>2
      <4>. QED BY <4>1
    <3>3. CASE Results({}, {}, both) /\ (NextJob \/ Terminate)
      BY <3>3
    <3>. QED BY <1>5, <3>1, <3>2, <3>3 DEF PairedPostintegration
  <2>3. both \subseteq Tasks
    BY <1>2, <1>3
  <2>. HIDE DEF both
  <2>. QED BY <1>1, <2>1, <2>2, <2>3, JobDone
<1>. QED BY <1>4, <1>5

-----------------------------------------------------------------------------
(* Theorems                                                                *)

\* The end of the queue, and steps that change nothing.
LEMMA StepRest ==
  ASSUME IInv, Finish \/ UNCHANGED vars
  PROVE  IInv'
<1>1. /\ UNCHANGED <<content, job_queue, required, at, asked, found, lost>>
      /\ pc' = pc \/ (pc = "run" /\ pc' = "done")
  BY DEF Finish, vars, repository
<1>2. \A t : Queued(t)' = Queued(t)
  BY <1>1 DEF Queued, Occurrences
<1>3. \A t : PairOf(t)' = PairOf(t)
  BY DEF PairOf
<1>4. TypeOK' /\ JobTypes' /\ FromCommandLine'
  BY <1>1 DEF IInv, TypeOK, JobTypes, FromCommandLine, Planned
<1>5. PairComputedOnce'
  BY <1>1, <1>2, <1>3 DEF IInv, PairComputedOnce, Planned, Occurrences
<1>6. Ordered' /\ ResultsKept'
  BY <1>1 DEF IInv, Ordered, ResultsKept, Planned, Usable, Made
<1>7. Needed'
  <2>1. \A t : Provided(t)' = Provided(t)
    BY <1>1, <1>2, <1>3 DEF Provided
  <2>2. AllProvided' = AllProvided
    BY <1>1, <1>2, <2>1 DEF AllProvided
  <2>. QED BY <1>1, <1>2, <1>3, <2>2 DEF IInv, Needed, Planned
<1>. QED BY <1>4, <1>5, <1>6, <1>7 DEF IInv

\* The queue is planned and worked through so that every job has or gets
\* what it needs, as the invariant says in detail.
THEOREM QueueInvariant == Spec => []IInv
<1>1. IInv /\ [Next]_vars => IInv'
  BY StepValidation, StepRequired, StepInsert, StepJob, StepRest DEF Next
<1>. QED BY InitInv, <1>1, PTL DEF Spec

\* Whatever is named on the command line, only tasks of the repository are
\* processed, and the position stays inside the queue.
THEOREM QueueTypes == Spec => []TypeOK
<1>1. IInv => TypeOK
  BY DEF IInv
<1>. QED BY <1>1, QueueInvariant, PTL

\* prune_paired_tasks(): an integration nobody asked for is left to the
\* paired task that computes it, for any number of pairs and tasks.
THEOREM QueuePairs == Spec => []PairComputedOnce
<1>1. IInv => PairComputedOnce
  BY DEF IInv
<1>. QED BY <1>1, QueueInvariant, PTL

\* Why a job finds what it needs, but for the reasons DependenciesReady names.
LEMMA ReadyByInvariant == IInv => DependenciesReady
<1>. SUFFICES ASSUME IInv, pc = "run", at <= Len(job_queue),
                     NEW p \in Parents[current.name],
                     ~Usable(p, current.tags), p \notin lost, p \notin found
              PROVE  \E z \in PairOf(p) : ToBeDone(z)
  BY DEF DependenciesReady
<1>. USE DEF IInv
<1>1. at \in DOMAIN job_queue /\ DOMAIN job_queue \subseteq Nat
  BY LenProperties DEF TypeOK
<1>2. current.name \in Tasks /\ Queued(current.name)
  BY <1>1 DEF TypeOK, current, Queued, Occurrences
<1>3. ASSUME NEW i \in DOMAIN job_queue, i < at PROVE p \notin Made(job_queue[i].name)
  <2>1. job_queue[i].tags = current.tags
    BY <1>1 DEF JobTypes, current
  <2>. QED BY <1>3, <2>1 DEF ResultsKept, Planned
<1>4. ~Queued(p)
  <2>. SUFFICES ASSUME Queued(p) PROVE FALSE
    OBVIOUS
  <2>1. PICK i \in DOMAIN job_queue : job_queue[i].name = p
    BY DEF Queued, Occurrences
  <2>2. i < at
    BY <1>1, <2>1 DEF Ordered, Planned, current
  <2>. QED BY <1>3, <2>1, <2>2 DEF Made
<1>5. PICK z \in PairOf(p) : Queued(z)
  BY <1>2, <1>4 DEF Needed, Planned
<1>6. PICK i \in DOMAIN job_queue : job_queue[i].name = z
  BY <1>5 DEF Queued, Occurrences
<1>7. p \in Made(z)
  BY <1>5 DEF PairOf, Made
<1>8. at <= i
  BY <1>1, <1>3, <1>6, <1>7
<1>. QED BY <1>5, <1>6, <1>8 DEF ToBeDone, Occurrences

\* execute_tasks(): when the turn of a job comes, what it is made from is
\* there, unless a task before it failed, useless content was taken for
\* content, or its parent was left to a pair that comes later.
THEOREM QueueReady == Spec => []DependenciesReady
BY QueueInvariant, ReadyByInvariant, PTL

-----------------------------------------------------------------------------
(* What the queue holds                                                    *)

\* A task that one on the command line depends on.
Called(t) == \E a \in Tasks : Occurrences(asked, a) # {} /\ t \in Dependencies(a)

\* Until jobs are inserted the queue is what was asked, and nothing is required
\* that is not called for.
Counted ==
  /\ ~Planned => \A t \in Tasks :
       Cardinality(Occurrences(job_queue, t)) = Cardinality(Occurrences(asked, t))
  /\ pc \in {"content", "pairs"} => \A t \in required : Called(t)
  /\ pc = "pairs" => required \cap found = {}
  /\ pc = "insert" => \A t \in required :
       Occurrences(asked, t) # {} \/ (t \notin found /\ Called(t))
  /\ QueueAsAsked

\* The queue has finitely many jobs for a task.
LEMMA FewOccurrences ==
  ASSUME NEW q \in Seq(Job), NEW t
  PROVE  /\ IsFiniteSet(Occurrences(q, t)) /\ Cardinality(Occurrences(q, t)) \in Nat
         /\ Cardinality(Occurrences(q, t)) = 0 <=> Occurrences(q, t) = {}
<1>1. IsFiniteSet(1 .. Len(q)) /\ DOMAIN q = 1 .. Len(q)
  BY FS_Interval, LenProperties
<1>2. Occurrences(q, t) \subseteq 1 .. Len(q)
  BY <1>1 DEF Occurrences
<1>3. IsFiniteSet(Occurrences(q, t))
  BY <1>1, <1>2, FS_Subset
<1>. QED BY <1>3, FS_CardinalityType, FS_EmptySet

\* Two sets whose members correspond one to one have the same size.
LEMMA SameSize ==
  ASSUME NEW S, NEW T, IsFiniteSet(S), NEW f \in [S -> T],
         \A a, b \in S : f[a] = f[b] => a = b,
         \A b \in T : \E a \in S : f[a] = b
  PROVE  Cardinality(T) = Cardinality(S)
<1>1. f \in Bijection(S, T)
  BY DEF Bijection, Injection, Surjection, IsInjective
<1>2. ExistsBijection(S, T)
  BY <1>1 DEF ExistsBijection
<1>. QED BY <1>2, FS_Bijection

\* A job that is erased is none of a task of the repository.
LEMMA CountsErased ==
  ASSUME IInv, EraseJob, NEW t \in Tasks
  PROVE  Cardinality(Occurrences(job_queue', t)) = Cardinality(Occurrences(job_queue, t))
<1>. DEFINE n == Len(job_queue)
            S == Occurrences(job_queue', t)
            T == Occurrences(job_queue, t)
            f == [i \in S |-> IF i < at THEN i ELSE i + 1]
<1>1. /\ n \in Nat /\ DOMAIN job_queue = 1 .. n /\ at \in 1 .. n
      /\ job_queue[at].name # t
  BY DEF IInv, TypeOK, EraseJob, Validating, Readable
<1>2. /\ job_queue' \in Seq(Job) /\ DOMAIN job_queue' = 1 .. n - 1
      /\ \A i \in 1 .. n - 1 :
           job_queue'[i] = IF i < at THEN job_queue[i] ELSE job_queue[i + 1]
  BY <1>1, Erased, LenProperties DEF IInv
<1>. HIDE DEF n
<1>3. \A i : i \in T <=> i \in 1 .. n /\ job_queue[i].name = t
  BY <1>1 DEF Occurrences
<1>4. \A i : i \in S <=> i \in 1 .. n - 1 /\ job_queue'[i].name = t
  BY <1>2 DEF Occurrences
<1>. HIDE DEF S, T
<1>5. f \in [S -> T]
  <2>1. ASSUME NEW i \in S PROVE (IF i < at THEN i ELSE i + 1) \in T
    <3>1. i \in 1 .. n - 1 /\ job_queue'[i].name = t
      BY <1>4
    <3>2. CASE i < at
      <4>1. job_queue[i].name = t /\ i \in 1 .. n
        BY <1>1, <1>2, <3>1, <3>2
      <4>. QED BY <1>3, <3>2, <4>1
    <3>3. CASE ~(i < at)
      <4>1. job_queue[i + 1].name = t /\ i + 1 \in 1 .. n
        BY <1>1, <1>2, <3>1, <3>3
      <4>. QED BY <1>3, <3>3, <4>1
    <3>. QED BY <3>2, <3>3
  <2>. QED BY <2>1
<1>6. ASSUME NEW a \in S, NEW b \in S, f[a] = f[b]
      PROVE  a = b
  <2>1. a \in Int /\ b \in Int /\ at \in Int
    BY <1>1, <1>4
  <2>2. (IF a < at THEN a ELSE a + 1) = (IF b < at THEN b ELSE b + 1)
    BY <1>6
  <2>. HIDE DEF f
  <2>. QED BY <2>1, <2>2
<1>7. ASSUME NEW b \in T
      PROVE  \E a \in S : f[a] = b
  <2>1. b \in 1 .. n /\ job_queue[b].name = t /\ b # at
    BY <1>1, <1>3
  <2>2. CASE b < at
    <3>1. b \in S
      BY <1>1, <1>2, <1>4, <2>1, <2>2
    <3>. QED BY <2>2, <3>1
  <2>3. CASE ~(b < at)
    <3>1. b - 1 \in 1 .. n - 1 /\ ~(b - 1 < at) /\ (b - 1) + 1 = b
      BY <1>1, <2>1, <2>3
    <3>2. b - 1 \in S
      BY <1>2, <1>4, <2>1, <3>1
    <3>. QED BY <3>1, <3>2
  <2>. QED BY <2>2, <2>3
<1>8. IsFiniteSet(S)
  BY <1>2, FewOccurrences DEF S
<1>. HIDE DEF f
<1>9. Cardinality(T) = Cardinality(S)
  BY <1>5, <1>6, <1>7, <1>8, SameSize
<1>. QED BY <1>9 DEF S, T

\* Inserting adds one job for each required task that was not queued.
LEMMA CountsInserted ==
  ASSUME IInv, InsertJobDescriptors, NEW t \in Tasks
  PROVE  Cardinality(Occurrences(job_queue', t)) =
           Cardinality(Occurrences(job_queue, t)) + (IF Inserted(t) THEN 1 ELSE 0)
<1>. DEFINE n == Len(job_queue) + Cardinality({s \in Tasks : Inserted(s)})
            j == [name |-> t, tags |-> CommandTags]
<1>1. PICK q \in [1 .. n -> Jobs] :
        /\ \A k \in Jobs : Cardinality({i \in 1 .. n : q[i] = k}) = Copies(k)
        /\ job_queue' = q
  BY DEF InsertJobDescriptors
<1>2. /\ job_queue \in Seq(Job) /\ job_queue # <<>>
      /\ \A i, k \in DOMAIN job_queue : job_queue[i].tags = job_queue[k].tags
  BY DEF IInv, InsertJobDescriptors, TypeOK, JobTypes, FromCommandLine
<1>3. 1 \in DOMAIN job_queue /\ \A i \in DOMAIN job_queue : job_queue[i] \in Job
  BY <1>2
<1>. HIDE DEF n
<1>4. \A i \in DOMAIN job_queue : job_queue[i].name = t <=> job_queue[i] = j
  <2>1. \A i \in DOMAIN job_queue : job_queue[i].tags = CommandTags
    BY <1>2, <1>3 DEF CommandTags
  <2>. QED BY <1>3, <2>1 DEF Job
<1>5. j \in Added <=> Inserted(t)
  BY DEF Added, InsertedJob
<1>6. \A k \in Jobs : k.name = t <=> k = j
  <2>. TAKE k \in Jobs
  <2>1. CASE k \in Added
    BY <2>1 DEF Added, InsertedJob
  <2>2. CASE k \in {job_queue[i] : i \in DOMAIN job_queue}
    BY <1>4, <2>2
  <2>. QED BY <2>1, <2>2 DEF Jobs
<1>7. Occurrences(job_queue, t) = {i \in DOMAIN job_queue : job_queue[i] = j}
  BY <1>4 DEF Occurrences
<1>8. Occurrences(job_queue', t) = {i \in 1 .. n : q[i] = j}
  <2>1. DOMAIN job_queue' = 1 .. n /\ \A i \in 1 .. n : job_queue'[i] = q[i] /\ q[i] \in Jobs
    BY <1>1
  <2>. QED BY <1>6, <2>1 DEF Occurrences
<1>9. Copies(j) = Cardinality(Occurrences(job_queue, t)) + (IF Inserted(t) THEN 1 ELSE 0)
  BY <1>5, <1>7 DEF Copies
<1>10. CASE j \in Jobs
  BY <1>1, <1>8, <1>9, <1>10
<1>11. CASE j \notin Jobs
  <2>1. Occurrences(job_queue', t) = {} /\ Occurrences(job_queue, t) = {} /\ ~Inserted(t)
    <3>1. \A i \in 1 .. n : q[i] # j
      BY <1>1, <1>11
    <3>. QED BY <1>5, <1>7, <1>8, <1>11, <3>1 DEF Jobs
  <2>. QED BY <2>1, FS_EmptySet
<1>. QED BY <1>10, <1>11

\* Nothing is counted differently while the queue is left alone.
LEMMA CountsKept ==
  ASSUME UNCHANGED <<job_queue, asked>>
  PROVE  /\ \A t : Queued(t)' = Queued(t) /\ Called(t)' = Called(t)
         /\ \A t : /\ Occurrences(asked, t)' = Occurrences(asked, t)
                   /\ Occurrences(job_queue, t)' = Occurrences(job_queue, t)
BY DEF Queued, Called, Occurrences

\* The command line is asked what it is.
LEMMA CountedInit == Init => Counted
<1>. SUFFICES ASSUME Init PROVE Counted
  OBVIOUS
<1>. QED BY DEF Init, Counted, Planned, QueueAsAsked

\* validate_tasks() erases no job of a task that exists.
LEMMA CountedValidation ==
  ASSUME IInv, Counted, KeepJob \/ EraseJob \/ Validated
  PROVE  Counted'
<1>1. /\ pc = "validate" /\ ~Planned /\ UNCHANGED <<asked, required, found>>
      /\ pc' \in {"validate", "depend", "run"}
      /\ pc' = "run" => job_queue' = <<>>
  BY DEF KeepJob, EraseJob, Validated, Validating, Planned
<1>2. \A t \in Tasks :
        Cardinality(Occurrences(job_queue', t)) = Cardinality(Occurrences(asked, t))
  <2>1. \A t \in Tasks :
          Cardinality(Occurrences(job_queue, t)) = Cardinality(Occurrences(asked, t))
    BY <1>1 DEF Counted
  <2>2. CASE EraseJob
    BY <2>1, <2>2, CountsErased
  <2>3. CASE KeepJob \/ Validated
    BY <2>1, <2>3 DEF KeepJob, Validated
  <2>. QED BY <2>2, <2>3
<1>3. QueueAsAsked'
  <2>. SUFFICES ASSUME pc' = "run", NEW t \in Tasks
                PROVE  Occurrences(asked, t) = {} /\ Occurrences(job_queue', t) = {}
    BY <1>1, FS_EmptySet DEF QueueAsAsked, Planned
  <2>1. Occurrences(job_queue', t) = {}
    BY <1>1 DEF Occurrences
  <2>2. Cardinality(Occurrences(asked, t)) = 0
    BY <1>2, <2>1, FS_EmptySet
  <2>. QED BY <2>1, <2>2, FewOccurrences DEF IInv, JobTypes
<1>. QED BY <1>1, <1>2, <1>3 DEF Counted, Planned

\* What is required is called for; tasks with content are not.
LEMMA CountedRequired ==
  ASSUME IInv, Counted, FindDependencies \/ PruneTasksWithContent \/ PrunePairedTasks
  PROVE  Counted'
<1>1. /\ UNCHANGED <<job_queue, asked>> /\ ~Planned /\ ~Planned'
      /\ asked \in Seq(Job) /\ job_queue \in Seq(Job)
  BY DEF FindDependencies, PruneTasksWithContent, PrunePairedTasks, Planned, IInv,
         JobTypes, TypeOK
<1>2. \A t \in Tasks :
        Cardinality(Occurrences(job_queue, t)) = Cardinality(Occurrences(asked, t))
  BY <1>1 DEF Counted
<1>3. \A t \in Tasks : Queued(t) <=> Occurrences(asked, t) # {}
  BY <1>1, <1>2, FewOccurrences DEF Queued
<1>4. /\ \A t \in Tasks : Cardinality(Occurrences(job_queue, t)')
                            = Cardinality(Occurrences(asked, t)')
      /\ \A t : Called(t)' = Called(t)
      /\ \A t : Occurrences(asked, t)' = Occurrences(asked, t)
      /\ QueueAsAsked'
  <2>1. QueueAsAsked'
    BY <1>1 DEF QueueAsAsked
  <2>. QED BY <1>1, <1>2, <2>1, CountsKept
<1>5. CASE FindDependencies
  <2>1. \A t \in required' : Called(t)
    BY <1>3, <1>5 DEF FindDependencies, Called
  <2>2. pc' = "content"
    BY <1>5 DEF FindDependencies
  <2>. QED BY <1>1, <1>4, <2>1, <2>2 DEF Counted
<1>6. CASE PruneTasksWithContent
  <2>1. /\ pc = "content" /\ pc' = "pairs" /\ required' \subseteq required
        /\ required' \cap found' = {}
    BY <1>6 DEF PruneTasksWithContent
  <2>. QED BY <1>1, <1>4, <2>1 DEF Counted
<1>7. CASE PrunePairedTasks
  <2>1. /\ pc = "pairs" /\ pc' = "insert" /\ found' = found
        /\ required' \subseteq required \cup {t \in Tasks : Queued(t)}
    BY <1>7 DEF PrunePairedTasks
  <2>2. \A t \in required' : Occurrences(asked, t) # {} \/ (t \notin found /\ Called(t))
    BY <1>3, <2>1 DEF Counted
  <2>. QED BY <1>1, <1>4, <2>1, <2>2 DEF Counted
<1>. QED BY <1>5, <1>6, <1>7

\* Inserting adds what is called for, once, and nothing that was asked.
LEMMA CountedInsert ==
  ASSUME IInv, Counted, InsertJobDescriptors
  PROVE  Counted'
<1>1. /\ pc = "insert" /\ pc' = "run" /\ ~Planned /\ UNCHANGED <<asked, found, required>>
      /\ asked \in Seq(Job) /\ job_queue \in Seq(Job)
  BY DEF InsertJobDescriptors, Planned, IInv, JobTypes, TypeOK
<1>2. ASSUME NEW t \in Tasks
      PROVE  LET n == Cardinality(Occurrences(job_queue', t)) IN
             IF Occurrences(asked, t) # {} THEN n = Cardinality(Occurrences(asked, t))
             ELSE n = 0 \/ (n = 1 /\ t \notin found /\ Called(t))
  <2>1. Cardinality(Occurrences(job_queue, t)) = Cardinality(Occurrences(asked, t))
    BY <1>1 DEF Counted
  <2>2. Queued(t) <=> Occurrences(asked, t) # {}
    BY <1>1, <2>1, FewOccurrences DEF Queued
  <2>3. Cardinality(Occurrences(job_queue', t)) =
          Cardinality(Occurrences(job_queue, t)) + (IF Inserted(t) THEN 1 ELSE 0)
    BY CountsInserted
  <2>4. CASE Occurrences(asked, t) # {}
    <3>1. ~Inserted(t)
      BY <2>2, <2>4 DEF Inserted
    <3>. QED BY <1>1, <2>1, <2>3, <2>4, <3>1, FewOccurrences
  <2>5. CASE Occurrences(asked, t) = {}
    <3>1. Cardinality(Occurrences(job_queue, t)) = 0
      BY <1>1, <2>1, <2>5, FewOccurrences
    <3>2. Inserted(t) => t \notin found /\ Called(t)
      BY <1>1, <2>5 DEF Inserted, Counted
    <3>. QED BY <2>3, <2>5, <3>1, <3>2
  <2>. QED BY <2>4, <2>5
<1>3. QueueAsAsked'
  BY <1>1, <1>2 DEF QueueAsAsked, Called, Planned
<1>. QED BY <1>1, <1>3 DEF Counted, Planned

\* Working through the queue leaves it as it is.
LEMMA CountedRun ==
  ASSUME Counted,
         \/ Integration \/ NoContentGroup \/ Postintegration
         \/ PairedPostintegration \/ Output \/ Finish \/ UNCHANGED vars
  PROVE  Counted'
<1>1. UNCHANGED <<job_queue, required, asked, found>>
  BY DEF Integration, NoContentGroup, Postintegration, PairedPostintegration, Output,
         Finish, vars, Results
<1>2. pc' = pc \/ (Planned /\ Planned')
  BY DEF Integration, NoContentGroup, Postintegration, PairedPostintegration, Output,
         Finish, vars, Running, Planned, NextJob, Terminate
<1>3. \A t : Called(t)' = Called(t)
  BY <1>1, CountsKept
<1>4. QueueAsAsked'
  BY <1>1, <1>2 DEF Counted, QueueAsAsked, Planned
<1>. QED BY <1>1, <1>2, <1>3, <1>4 DEF Counted, Planned

\* autocomplete_task_schedule(): the queue that is worked through holds each task
\* of the command line as often as it was named, each task one of them depends
\* on that has no content once at most, and nothing else, for any repository
\* and any command line.
THEOREM QueueIsAsAsked == Spec => []QueueAsAsked
<1>1. Counted => QueueAsAsked
  BY DEF Counted
<1>2. IInv /\ Counted /\ [Next]_vars => Counted'
  BY CountedValidation, CountedRequired, CountedInsert, CountedRun DEF Next
<1>. QED BY <1>1, <1>2, CountedInit, QueueInvariant, PTL DEF Spec
=============================================================================
