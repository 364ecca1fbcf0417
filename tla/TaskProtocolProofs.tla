------------------------- MODULE TaskProtocolProofs -------------------------
(***************************************************************************)
(* Proofs about the conversation between the master and its slaves, for    *)
(* every pool of workers, every job queue and every way a task may end:    *)
(* whatever throws on either side, the orders in a slave's mailbox lead it *)
(* from where it is to where the master believes it will be.               *)
(***************************************************************************)
EXTENDS TaskProtocol, WorkerSchedulerProofs, SequenceTheorems

-----------------------------------------------------------------------------
(* The invariant: one worker at a time                                     *)

\* What a slave's mailbox does to it: where it is (an assignment does not take
\* it out of its task), for which task, and with which checkpoint interval.
C(t) == IF t \in Checkpointed THEN 1 ELSE 0
State(mode, job, intv) == [mode |-> mode, job |-> job, intv |-> intv]
Now(w) ==
  IF at[w] \in {"task", "work"} THEN State("task", serving[w], interval[w])
                                ELSE State(at[w], 0, interval[w])

Accepts(s, m) ==
  \/ m.tag = "SET_LOCAL_CHECKPOINT" /\ s.mode = "wait" /\ s.intv = 0
  \/ m.tag = "UNSET_LOCAL_CHECKPOINT" /\ s.mode = "wait"
  \/ m.tag = "NEW_TASK" /\ s.mode = "wait" /\ s.intv = C(m.task)
  \/ /\ m.tag \in {"NEW_WORK_ASSIGNMENT", "END_OF_WORK"}
     /\ s.mode = "task" /\ s.job = m.task /\ s.intv = C(m.task)
  \/ m.tag = "QUERY_PERFORMANCE_DATA" /\ s.mode = "wait" /\ s.intv = 0
  \/ m.tag = "TERMINATE" /\ s.mode \in {"wait", "leaving"} /\ s.intv = 0

After(m) ==
  CASE m.tag = "SET_LOCAL_CHECKPOINT" -> State("wait", 0, 1)
    [] m.tag = "UNSET_LOCAL_CHECKPOINT" -> State("wait", 0, 0)
    [] m.tag \in {"NEW_TASK", "NEW_WORK_ASSIGNMENT"} -> State("task", m.task, C(m.task))
    [] m.tag = "END_OF_WORK" -> State("wait", 0, C(m.task))
    [] m.tag = "QUERY_PERFORMANCE_DATA" -> State("leaving", 0, 0)
    [] OTHER -> State("exited", 0, 0)

\* Read in order, the messages of q lead from state s to state e, each of them
\* being one the slave expects when it comes to it.
Track(s, q, e) ==
  /\ \A k \in 1 .. Len(q) : Accepts(IF k = 1 THEN s ELSE After(q[k - 1]), q[k])
  /\ e = IF Len(q) = 0 THEN s ELSE After(q[Len(q)])

\* Where a slave will be when it has read all its mail.
Due ==
  CASE phase = "next" -> State("wait", 0, 0)
    [] phase = "capture" -> State("task", task, C(task))
    [] phase \in {"poll", "drain"} ->
         IF closing THEN State("wait", 0, C(task)) ELSE State("task", task, C(task))
    [] phase = "loads" -> State("leaving", 0, 0)
    [] OTHER -> State("exited", 0, 0)

Has(q, tag) == \E k \in 1 .. Len(q) : q[k].tag = tag

\* A slave that could not read its task waits, and so does the master.
Skipped(w) ==
  /\ phase = "capture" /\ toSlave[w] = <<>> /\ at[w] = "wait"
  /\ w \notin initialized /\ ~Has(toMaster[w], "WORKER_IDENTIFICATION")

OrdersInTurn(w) == Track(Now(w), toSlave[w], Due) \/ Skipped(w)

OwnCheckpoint(w) == at[w] \in {"task", "work"} => interval[w] = C(serving[w])

\* Nobody leaves before the last task is over.
LeavesLast(w) ==
  phase \notin {"loads", "over"} =>
    /\ at[w] \in {"wait", "task", "work"}
    /\ ~Has(toSlave[w], "QUERY_PERFORMANCE_DATA") /\ ~Has(toSlave[w], "TERMINATE")

\* NEW_TASK is the last message in a mailbox while the slave has not read it ...
Invited(w) ==
  \A k \in 1 .. Len(toSlave[w]) :
    toSlave[w][k].tag = "NEW_TASK" =>
      /\ phase = "capture" /\ k = Len(toSlave[w]) /\ toSlave[w][k].task = task
      /\ w \notin initialized /\ ~Has(toMaster[w], "WORKER_IDENTIFICATION")

\* ... its identification the last of what it has sent ...
Identified(w) ==
  \A k \in 1 .. Len(toMaster[w]) :
    toMaster[w][k].tag = "WORKER_IDENTIFICATION" =>
      /\ phase = "capture" /\ k = Len(toMaster[w]) /\ toSlave[w] = <<>>
      /\ at[w] = "task" /\ serving[w] = task /\ w \notin initialized

\* ... and when the master has read that, nothing is left between the two.
Recruited(w) ==
  phase = "capture" /\ w \in initialized =>
    /\ toMaster[w] = <<>> /\ toSlave[w] = <<>>
    /\ at[w] = "task" /\ serving[w] = task

\* While the master polls every slave works for its task, and what lies in
\* the channels is of that task.
AtWork(w) ==
  phase \in {"poll", "drain"} =>
    /\ serving[w] = task
    /\ \A k \in 1 .. Len(toMaster[w]) :
         /\ toMaster[w][k].task = task
         /\ toMaster[w][k].tag \in {"DATA_READY", "FINISHED", "FAIL", "WORKER_CLOSE_DOWN"}
    /\ \A k \in 1 .. Len(toSlave[w]) :
         toSlave[w][k].tag \in {"NEW_WORK_ASSIGNMENT", "END_OF_WORK"}

\* A slave that has closed down has had its last word, and the master counts
\* it as inactive when it has heard that and nothing is left to hear.
LastWord(w) ==
  phase \in {"poll", "drain"} =>
    /\ at[w] \in {"task", "work"} => w \notin inactive
    /\ at[w] = "wait" /\ w \in inactive => toMaster[w] = <<>>
    /\ at[w] = "wait" /\ w \notin inactive => Has(toMaster[w], "WORKER_CLOSE_DOWN")
    /\ \A k \in 1 .. Len(toMaster[w]) :
         toMaster[w][k].tag = "WORKER_CLOSE_DOWN" =>
           k = Len(toMaster[w]) /\ at[w] = "wait"

\* The load is reported once by each slave, on its way out.
ReportsOnce(w) ==
  \A k \in 1 .. Len(toMaster[w]) :
    toMaster[w][k].tag = "REPORT_PERFORMANCE_DATA" =>
      /\ phase \in {"loads", "over"} /\ k = Len(toMaster[w])
      /\ at[w] \in {"leaving", "exited"}

SlaveInv(w) ==
  /\ OrdersInTurn(w) /\ OwnCheckpoint(w) /\ LeavesLast(w)
  /\ Invited(w) /\ Identified(w) /\ Recruited(w)
  /\ AtWork(w) /\ LastWord(w) /\ ReportsOnce(w)

(* ... and the master                                                      *)

\* Slaves are told to close down when the queue is empty, and the loop ends
\* when they all have.
ClosingTime ==
  /\ phase = "capture" => ~closing /\ inactive = {}
  /\ phase \in {"poll", "drain"} => initialized = Workers
  /\ phase = "poll" /\ closing /\ raised = "none" => queue = {}
  /\ phase = "drain" => inactive = Workers

\* The workers whose load the master has heard are counted.
Respondents ==
  {w \in Workers : at[w] \in {"leaving", "exited"}
                   /\ ~Has(toMaster[w], "REPORT_PERFORMANCE_DATA")}
LoadsCounted ==
  /\ phase = "loads" => respondents = Cardinality(Respondents)
  /\ phase \notin {"loads", "over"} => respondents = 0

ProtocolInv ==
  /\ TypeOK /\ SchedInv /\ ClosingTime /\ LoadsCounted
  /\ \A w \in Workers : SlaveInv(w)

-----------------------------------------------------------------------------
(* Channels                                                                *)

\* Taking the first message off a channel.
LEMMA Taken ==
  ASSUME NEW q \in Seq(Message), q # <<>>
  PROVE  /\ Head(q) \in Message /\ Head(q) = q[1]
         /\ Tail(q) \in Seq(Message)
         /\ Len(q) \in Nat \ {0} /\ Len(Tail(q)) = Len(q) - 1
         /\ \A k \in 1 .. Len(Tail(q)) :
              /\ k + 1 \in 1 .. Len(q) /\ Tail(q)[k] = q[k + 1]
              /\ k + 1 = Len(q) <=> k = Len(Tail(q))
         /\ Len(q) = 1 => Tail(q) = <<>>
<1>1. /\ Head(q) \in Message /\ Tail(q) \in Seq(Message)
      /\ Len(Tail(q)) = Len(q) - 1
      /\ \A k \in 1 .. Len(Tail(q)) : Tail(q)[k] = q[k + 1]
  BY HeadTailProperties
<1>2. Len(q) \in Nat \ {0}
  BY EmptySeq
<1>3. Head(q) = q[1]
  OBVIOUS
<1>4. ASSUME NEW r \in Seq(Message) PROVE r # <<>> => Len(r) # 0
  BY EmptySeq
<1>5. ASSUME Len(q) = 1 PROVE Tail(q) = <<>>
  <2>1. Len(Tail(q)) = 0 /\ Tail(q) \in Seq(Message)
    BY <1>1, <1>5
  <2>. QED BY ONLY <2>1, <1>4
<1>6. \A k \in 1 .. Len(Tail(q)) : k + 1 \in 1 .. Len(q)
  BY <1>1, <1>2
<1>7. \A k \in 1 .. Len(Tail(q)) : k + 1 = Len(q) <=> k = Len(Tail(q))
  BY <1>1, <1>2
<1>. QED BY <1>1, <1>2, <1>3, <1>5, <1>6, <1>7

\* A message put at the end of a channel.
LEMMA Put ==
  ASSUME NEW q \in Seq(Message), NEW m \in Message
  PROVE  /\ Append(q, m) \in Seq(Message) /\ q \o <<m>> = Append(q, m)
         /\ Len(q) \in Nat /\ Len(Append(q, m)) = Len(q) + 1
         /\ \A k \in 1 .. Len(q) : Append(q, m)[k] = q[k]
         /\ Append(q, m)[Len(q) + 1] = m
BY AppendProperties, AppendIsConcat, LenProperties

\* Two of them.
LEMMA PutTwo ==
  ASSUME NEW q \in Seq(Message), NEW m \in Message, NEW n \in Message
  PROVE  q \o <<m, n>> = Append(Append(q, m), n)
<1>1. <<m, n>> = Append(<<m>>, n)
  <2>1. <<m>> \in Seq(Message) /\ Len(<<m>>) = 1
    OBVIOUS
  <2>2. Append(<<m>>, n) \in Seq(Message) /\ Len(Append(<<m>>, n)) = 2
    BY <2>1, AppendProperties
  <2>3. Append(<<m>>, n)[1] = m /\ Append(<<m>>, n)[2] = n
    BY <2>1, AppendProperties
  <2>4. <<m, n>> \in Seq(Message) /\ Len(<<m, n>>) = 2
    OBVIOUS
  <2>5. \A k \in 1 .. Len(<<m, n>>) : <<m, n>>[k] = Append(<<m>>, n)[k]
    BY <2>3, <2>4
  <2>. QED BY <2>2, <2>4, <2>5, SeqEqual
<1>2. <<m>> \in Seq(Message) /\ <<n>> \in Seq(Message)
  OBVIOUS
<1>3. Append(<<m>>, n) = <<m>> \o <<n>>
  BY <1>2, AppendIsConcat
<1>4. q \o (<<m>> \o <<n>>) = (q \o <<m>>) \o <<n>>
  BY <1>2, ConcatAssociative
<1>5. q \o <<m>> = Append(q, m) /\ Append(q, m) \in Seq(Message)
  BY Put
<1>6. Append(q, m) \o <<n>> = Append(Append(q, m), n)
  BY <1>5, Put
<1>. QED BY <1>1, <1>3, <1>4, <1>5, <1>6

\* Nothing at all.
LEMMA PutNone ==
  ASSUME NEW q \in Seq(Message)
  PROVE  q \o <<>> = q
BY ConcatEmptySeq

\* What a channel holds after a message has been put in or taken out.
LEMMA HasPut ==
  ASSUME NEW q \in Seq(Message), NEW m \in Message, NEW tag
  PROVE  Has(Append(q, m), tag) <=> Has(q, tag) \/ m.tag = tag
BY Put DEF Has

\* What is left of a channel when a message has been taken off it.
LEMMA HasTaken ==
  ASSUME NEW q \in Seq(Message), q # <<>>, NEW tag
  PROVE  /\ Has(Tail(q), tag) => Has(q, tag)
         /\ Head(q).tag # tag => (Has(Tail(q), tag) <=> Has(q, tag))
<1>1. Has(Tail(q), tag) => Has(q, tag)
  BY Taken DEF Has
<1>2. ASSUME Head(q).tag # tag, Has(q, tag) PROVE Has(Tail(q), tag)
  <2>1. PICK k \in 1 .. Len(q) : q[k].tag = tag
    BY <1>2 DEF Has
  <2>2. k # 1 /\ k - 1 \in 1 .. Len(Tail(q))
    BY <1>2, <2>1, Taken
  <2>3. Tail(q)[k - 1] = q[(k - 1) + 1]
    BY <2>2, Taken
  <2>4. (k - 1) + 1 = k
    BY <2>2
  <2>. QED BY <2>1, <2>2, <2>3, <2>4 DEF Has
<1>. QED BY <1>1, <1>2

\* An empty channel holds nothing.
LEMMA HasNone ==
  ASSUME NEW tag
  PROVE  ~Has(<<>>, tag)
BY DEF Has

-----------------------------------------------------------------------------
(* Tracks                                                                  *)

\* An order that is acceptable at the end of the track extends it.
LEMMA TrackPut ==
  ASSUME NEW s, NEW q \in Seq(Message), NEW e, NEW m \in Message,
         Track(s, q, e), Accepts(e, m)
  PROVE  Track(s, Append(q, m), After(m))
<1>. DEFINE r == Append(q, m)
<1>1. /\ Len(q) \in Nat /\ Len(r) = Len(q) + 1 /\ r[Len(q) + 1] = m
      /\ \A k \in 1 .. Len(q) : r[k] = q[k]
  BY Put
<1>. HIDE DEF r
<1>2. ASSUME NEW k \in 1 .. Len(r)
      PROVE  Accepts(IF k = 1 THEN s ELSE After(r[k - 1]), r[k])
  <2>1. CASE k \in 1 .. Len(q)
    <3>1. Accepts(IF k = 1 THEN s ELSE After(q[k - 1]), q[k])
      BY <2>1 DEF Track
    <3>2. k # 1 => k - 1 \in 1 .. Len(q)
      BY <1>1, <2>1
    <3>. QED BY <1>1, <2>1, <3>1, <3>2
  <2>2. CASE k = Len(q) + 1
    <3>1. e = IF k = 1 THEN s ELSE After(q[k - 1])
      BY <1>1, <2>2 DEF Track
    <3>2. k # 1 => k - 1 \in 1 .. Len(q)
      BY <1>1, <2>2
    <3>. QED BY <1>1, <2>2, <3>1, <3>2
  <2>. QED BY <1>1, <2>1, <2>2
<1>3. After(m) = IF Len(r) = 0 THEN s ELSE After(r[Len(r)])
  BY <1>1
<1>. QED BY <1>2, <1>3 DEF Track, r

\* The first order on the track is acceptable, and the rest follows from it.
LEMMA TrackTaken ==
  ASSUME NEW s, NEW q \in Seq(Message), NEW e, Track(s, q, e), q # <<>>
  PROVE  Accepts(s, Head(q)) /\ Track(After(Head(q)), Tail(q), e)
<1>. DEFINE r == Tail(q)
<1>1. /\ Head(q) = q[1] /\ Len(q) \in Nat \ {0} /\ Len(r) = Len(q) - 1
      /\ \A k \in 1 .. Len(r) : k + 1 \in 1 .. Len(q) /\ r[k] = q[k + 1]
  BY Taken
<1>. HIDE DEF r
<1>2. Accepts(s, Head(q))
  BY <1>1 DEF Track
<1>3. ASSUME NEW k \in 1 .. Len(r)
      PROVE  Accepts(IF k = 1 THEN After(Head(q)) ELSE After(r[k - 1]), r[k])
  <2>1. Accepts(After(q[(k + 1) - 1]), q[k + 1])
    BY <1>1 DEF Track
  <2>2. (k + 1) - 1 = k
    OBVIOUS
  <2>3. k # 1 => r[k - 1] = q[k]
    <3>1. k # 1 => k - 1 \in 1 .. Len(r) /\ (k - 1) + 1 = k
      BY <1>1
    <3>. QED BY <1>1, <3>1
  <2>4. r[k] = q[k + 1]
    BY <1>1
  <2>. QED BY <1>1, <2>1, <2>2, <2>3, <2>4
<1>4. e = IF Len(r) = 0 THEN After(Head(q)) ELSE After(r[Len(r)])
  <2>1. e = After(q[Len(q)])
    BY <1>1 DEF Track
  <2>2. Len(r) # 0 => r[Len(r)] = q[Len(q)]
    BY <1>1
  <2>3. Len(r) = 0 => Len(q) = 1
    BY <1>1
  <2>. QED BY <1>1, <2>1, <2>2, <2>3
<1>. QED BY <1>2, <1>3, <1>4 DEF Track, r

\* A slave with an empty mailbox is where it is due.
LEMMA TrackNone ==
  ASSUME NEW s, NEW e
  PROVE  Track(s, <<>>, e) <=> s = e
BY DEF Track

-----------------------------------------------------------------------------
(* Types                                                                   *)

MasterTyped ==
  /\ phase \in {"next", "capture", "poll", "drain", "loads", "over"}
  /\ task \in 0 .. NumTasks
  /\ closing \in BOOLEAN /\ success \in BOOLEAN
  /\ aggregations \in Seq(SUBSET Items)
  /\ stored \in SUBSET Items /\ failures \in SUBSET Items /\ dropped \in SUBSET Items
  /\ result \in [1 .. NumTasks -> {"pending", "committed", "rejected", "aborted"}]
  /\ respondents \in 0 .. Cardinality(Workers)
SlavesTyped ==
  /\ at \in [Workers -> {"wait", "task", "work", "leaving", "exited"}]
  /\ serving \in [Workers -> 0 .. NumTasks]
  /\ todo \in [Workers -> SUBSET Items] /\ bad \in [Workers -> SUBSET Items]
  /\ cache \in [Workers -> SUBSET Items] /\ good \in [Workers -> Nat]
  /\ interval \in [Workers -> {0, 1}]
ChannelsTyped ==
  /\ toSlave \in [Workers -> Seq(Message)] /\ toMaster \in [Workers -> Seq(Message)]

\* The parts of the type invariant.
LEMMA TypeParts ==
  TypeOK <=> SchedTypeOK /\ MasterTyped /\ SlavesTyped /\ ChannelsTyped
BY DEF TypeOK, MasterTyped, SlavesTyped, ChannelsTyped

\* The same, after a step.
LEMMA TypePartsNext ==
  TypeOK' <=> SchedTypeOK' /\ MasterTyped' /\ SlavesTyped' /\ ChannelsTyped'
BY DEF TypeOK, MasterTyped, SlavesTyped, ChannelsTyped

\* A message the master reads is a message.
LEMMA HeadTyped ==
  ASSUME ChannelsTyped, NEW w \in Workers, toMaster[w] # <<>>
  PROVE  /\ Head(toMaster[w]) \in Message
         /\ Head(toMaster[w]).n \in Nat /\ Head(toMaster[w]).items \in SUBSET Items
<1>1. toMaster[w] \in Seq(Message)
  BY DEF ChannelsTyped
<1>2. Head(toMaster[w]) \in Message
  BY <1>1, Taken
<1>. QED BY <1>2 DEF Message

\* Every step of the protocol is one of the scheduler, or leaves it alone.
LEMMA SchedulerStep ==
  ASSUME SchedInv, ChannelsTyped, [Next]_vars
  PROVE  SchedInv'
<1>1. CASE UNCHANGED schedVars
  BY <1>1, NextInv
<1>2. ASSUME NEW items \in SUBSET Items, BeginTask(items) PROVE SchedInv'
  BY <1>2, NewTaskInv DEF BeginTask
<1>3. ASSUME NEW w \in Workers, NEW k \in Kinds, Capture(w, k) PROVE SchedInv'
  BY <1>3, InitializeWorkerInv DEF Capture
<1>4. CASE Plan
  BY <1>4, AssignWorkInv DEF Plan
<1>5. ASSUME NEW w \in Workers, PushAssignment(w) PROVE SchedInv'
  BY <1>5, MarkAssignedInv DEF PushAssignment
<1>6. ASSUME NEW w \in Workers, ReceiveFinished(w) PROVE SchedInv'
  <2>1. PICK n \in Nat : n = Head(toMaster[w]).n
    BY <1>6, HeadTyped DEF ReceiveFinished, FromSlave
  <2>2. MarkUnassigned(w, n)
    BY <1>6, <2>1 DEF ReceiveFinished
  <2>. QED BY <2>2, MarkUnassignedInv
<1>7. ASSUME NEW w \in Workers, ReceiveCloseDown(w) PROVE SchedInv'
  BY <1>7, MarkInactiveInv DEF ReceiveCloseDown
<1>8. ASSUME NEW w \in Workers, SlaveNext(w) PROVE UNCHANGED schedVars
  BY <1>8 DEF SlaveNext, SlaveCheckpoint, SlaveBegin, SlaveSkip, SlaveAssignment,
     SlaveProcess, SlaveMiscount, SlaveFinish, SlaveClose, SlaveReportLoad, SlaveTerminate
<1>9. ASSUME NEW w \in Workers, Discard(w) \/ ReceiveData(w) \/ ReceiveLoad(w)
      PROVE  UNCHANGED schedVars
  BY <1>9 DEF Discard, ReceiveData, ReceiveLoad
<1>10. ASSUME SetupThrows \/ SendCloseDown \/ Aggregate \/ EndPolling \/ CloseTask
              \/ AbortTask \/ QueryLoads \/ Terminate
       PROVE  UNCHANGED schedVars
  BY <1>10 DEF SetupThrows, SendCloseDown, Aggregate, EndPolling, CloseTask,
     AbortTask, QueryLoads, Terminate
<1>11. CASE UNCHANGED vars
  BY <1>1, <1>11 DEF vars
<1>. QED
  BY <1>1, <1>2, <1>3, <1>4, <1>5, <1>6, <1>7, <1>8, <1>9, <1>10, <1>11
  DEF Next, MasterNext, Finished

\* The slaves do not touch what belongs to the master.
LEMMA SlaveKeepsTypes ==
  ASSUME MasterTyped, UNCHANGED masterVars
  PROVE  MasterTyped'
BY DEF MasterTyped, masterVars

\* ... nor the master what belongs to the slaves.
LEMMA MasterKeepsTypes ==
  ASSUME SlavesTyped, UNCHANGED slaveVars
  PROVE  SlavesTyped'
BY DEF SlavesTyped, slaveVars

-----------------------------------------------------------------------------
(* Steps that concern one worker                                           *)

\* What a step does not change of a worker, and of the master's mind, it
\* does not change in that worker's part of the invariant.
SameFor(v) ==
  /\ at'[v] = at[v] /\ serving'[v] = serving[v] /\ interval'[v] = interval[v]
  /\ toSlave'[v] = toSlave[v] /\ toMaster'[v] = toMaster[v]
  /\ v \in initialized' <=> v \in initialized
  /\ v \in inactive' <=> v \in inactive
SameTask == phase' = phase /\ task' = task /\ closing' = closing

\* A worker the step does not concern keeps its part of the invariant.
LEMMA Elsewhere ==
  ASSUME NEW v \in Workers, SlaveInv(v), SameFor(v), SameTask
  PROVE  SlaveInv(v)'
<1>. USE DEF SameFor, SameTask
<1>1. Now(v)' = Now(v) /\ Due' = Due /\ (Skipped(v)' <=> Skipped(v))
  BY DEF Now, Due, Skipped, State
<1>2. OrdersInTurn(v)'
  BY <1>1 DEF SlaveInv, OrdersInTurn
<1>3. OwnCheckpoint(v)' /\ LeavesLast(v)'
  BY DEF SlaveInv, OwnCheckpoint, LeavesLast
<1>4. Invited(v)' /\ Identified(v)' /\ Recruited(v)'
  BY DEF SlaveInv, Invited, Identified, Recruited
<1>5. AtWork(v)' /\ LastWord(v)' /\ ReportsOnce(v)'
  BY DEF SlaveInv, AtWork, LastWord, ReportsOnce
<1>. QED BY <1>2, <1>3, <1>4, <1>5 DEF SlaveInv

\* The load of w is counted as before.
SameLoad(w) ==
  (at'[w] \in {"leaving", "exited"} /\ ~Has(toMaster'[w], "REPORT_PERFORMANCE_DATA"))
  <=> (at[w] \in {"leaving", "exited"} /\ ~Has(toMaster[w], "REPORT_PERFORMANCE_DATA"))

\* A step of slave w, or of the master with slave w, that leaves the phase
\* and the loads alone.
LEMMA OneSlave ==
  ASSUME ProtocolInv, NEW w \in Workers, SameTask, TypeOK', SchedInv', ClosingTime',
         UNCHANGED respondents, SameLoad(w),
         \A v \in Workers \ {w} : SameFor(v), SlaveInv(w)'
  PROVE  ProtocolInv'
<1>1. \A v \in Workers \ {w} : SlaveInv(v)'
  BY Elsewhere DEF ProtocolInv
<1>2. Respondents' = Respondents
  BY DEF Respondents, SameFor, SameLoad
<1>3. LoadsCounted'
  BY <1>2 DEF LoadsCounted, ProtocolInv, SameTask
<1>. QED BY <1>1, <1>3 DEF ProtocolInv

\* A step of slave w alone.
OnlySlave(w) ==
  /\ UNCHANGED <<schedVars, masterVars>>
  /\ SlavesTyped' /\ ChannelsTyped'
  /\ \A v \in Workers \ {w} :
       /\ at'[v] = at[v] /\ serving'[v] = serving[v] /\ interval'[v] = interval[v]
       /\ toSlave'[v] = toSlave[v] /\ toMaster'[v] = toMaster[v]

\* A step of one slave keeps the invariant if it keeps its own part of it.
LEMMA SlaveAlone ==
  ASSUME ProtocolInv, NEW w \in Workers, OnlySlave(w), SameLoad(w), SlaveInv(w)'
  PROVE  ProtocolInv'
<1>1. /\ SameTask /\ UNCHANGED respondents /\ UNCHANGED <<initialized, inactive, queue, raised>>
      /\ UNCHANGED schedVars /\ UNCHANGED masterVars
  BY DEF OnlySlave, SameTask, masterVars, schedVars
<1>2. \A v \in Workers \ {w} : SameFor(v)
  BY <1>1 DEF OnlySlave, SameFor
<1>3. SchedInv'
  BY <1>1, NextInv DEF ProtocolInv
<1>4. TypeOK'
  <2>1. MasterTyped'
    BY <1>1, TypeParts, SlaveKeepsTypes DEF ProtocolInv
  <2>. QED BY <1>3, <2>1, TypePartsNext DEF OnlySlave, SchedInv
<1>5. ClosingTime'
  BY <1>1 DEF ClosingTime, ProtocolInv, SameTask
<1>. QED BY <1>1, <1>2, <1>3, <1>4, <1>5, OneSlave

-----------------------------------------------------------------------------
(* What a slave does with its channels                                     *)

\* Reading an order: it is one the slave can accept where it is.
LEMMA Reading ==
  ASSUME ProtocolInv, NEW w \in Workers, toSlave[w] # <<>>, TakeOrder(w)
  PROVE  /\ toSlave' \in [Workers -> Seq(Message)]
         /\ \A v \in Workers \ {w} : toSlave'[v] = toSlave[v]
         /\ toSlave'[w] = Tail(toSlave[w])
         /\ Head(toSlave[w]) \in Message /\ Head(toSlave[w]) = toSlave[w][1]
         /\ Accepts(Now(w), Head(toSlave[w]))
         /\ Track(After(Head(toSlave[w])), toSlave'[w], Due)
         /\ Len(toSlave[w]) \in Nat \ {0}
         /\ \A k \in 1 .. Len(toSlave'[w]) :
              /\ k + 1 \in 1 .. Len(toSlave[w]) /\ toSlave'[w][k] = toSlave[w][k + 1]
              /\ k + 1 = Len(toSlave[w]) => k = Len(toSlave'[w])
         /\ Len(toSlave[w]) = 1 => toSlave'[w] = <<>>
         /\ \A tag : Has(toSlave'[w], tag) => Has(toSlave[w], tag)
<1>1. toSlave \in [Workers -> Seq(Message)]
  BY TypeParts DEF ProtocolInv, ChannelsTyped
<1>2. PICK q \in Seq(Message) : q = toSlave[w]
  BY <1>1
<1>3. q # <<>>
  BY <1>2
<1>4. /\ Head(q) \in Message /\ Tail(q) \in Seq(Message) /\ Head(q) = q[1]
      /\ Len(q) \in Nat \ {0}
      /\ \A k \in 1 .. Len(Tail(q)) :
           /\ k + 1 \in 1 .. Len(q) /\ Tail(q)[k] = q[k + 1]
           /\ k + 1 = Len(q) <=> k = Len(Tail(q))
      /\ Len(q) = 1 => Tail(q) = <<>>
  BY <1>3, Taken
<1>5. toSlave' = [toSlave EXCEPT ![w] = Tail(q)]
  BY <1>2 DEF TakeOrder
<1>6. toSlave'[w] = Tail(q) /\ \A v \in Workers \ {w} : toSlave'[v] = toSlave[v]
  BY <1>1, <1>5
<1>7. toSlave' \in [Workers -> Seq(Message)]
  BY <1>1, <1>4, <1>5
<1>8. Track(Now(w), q, Due)
  BY <1>2, <1>3 DEF ProtocolInv, SlaveInv, OrdersInTurn, Skipped
<1>9. Accepts(Now(w), Head(q)) /\ Track(After(Head(q)), Tail(q), Due)
  BY <1>3, <1>8, TrackTaken
<1>10. \A tag : Has(Tail(q), tag) => Has(q, tag)
  BY <1>3, HasTaken
<1>. QED BY <1>2, <1>4, <1>6, <1>7, <1>9, <1>10

\* Sending a message.
LEMMA Writing ==
  ASSUME ChannelsTyped, NEW w \in Workers, NEW m \in Message,
         toMaster' = [toMaster EXCEPT ![w] = Append(@, m)]
  PROVE  /\ toMaster' \in [Workers -> Seq(Message)]
         /\ \A v \in Workers \ {w} : toMaster'[v] = toMaster[v]
         /\ Len(toMaster[w]) \in Nat /\ Len(toMaster'[w]) = Len(toMaster[w]) + 1
         /\ \A k \in 1 .. Len(toMaster'[w]) :
              \/ k \in 1 .. Len(toMaster[w]) /\ toMaster'[w][k] = toMaster[w][k]
              \/ k = Len(toMaster'[w]) /\ toMaster'[w][k] = m
         /\ \A tag : Has(toMaster'[w], tag) <=> Has(toMaster[w], tag) \/ m.tag = tag
<1>1. toMaster \in [Workers -> Seq(Message)]
  BY DEF ChannelsTyped
<1>2. PICK q \in Seq(Message) : q = toMaster[w]
  BY <1>1
<1>3. PICK r \in Seq(Message) : r = Append(q, m)
  BY Put
<1>4. toMaster' = [toMaster EXCEPT ![w] = r]
  BY <1>2, <1>3
<1>5. toMaster'[w] = r /\ \A v \in Workers \ {w} : toMaster'[v] = toMaster[v]
  BY <1>1, <1>4
<1>6. toMaster' \in [Workers -> Seq(Message)]
  BY <1>1, <1>4
<1>7. /\ Len(q) \in Nat /\ Len(r) = Len(q) + 1
      /\ \A k \in 1 .. Len(q) : r[k] = q[k]
      /\ r[Len(q) + 1] = m
  BY <1>3, Put
<1>8. ASSUME NEW k \in 1 .. Len(r)
      PROVE  \/ k \in 1 .. Len(q) /\ r[k] = q[k]
             \/ k = Len(r) /\ r[k] = m
  BY <1>7
<1>9. \A tag : Has(r, tag) <=> Has(q, tag) \/ m.tag = tag
  BY <1>3, HasPut
<1>. QED BY <1>2, <1>5, <1>6, <1>7, <1>8, <1>9

\* The stamp a slave puts on what it sends.
StampedBy(w, m) == [m EXCEPT !.task = serving[w]]

\* What Send puts on the channel: one message ...
LEMMA SendOne ==
  ASSUME ChannelsTyped, SlavesTyped, NEW w \in Workers, NEW m \in Message, Send(w, <<m>>)
  PROVE  /\ StampedBy(w, m) \in Message
         /\ toMaster' = [toMaster EXCEPT ![w] = Append(@, StampedBy(w, m))]
<1>1. StampedBy(w, m) \in Message
  <2>1. serving[w] \in 0 .. NumTasks
    BY DEF SlavesTyped
  <2>. QED BY <2>1 DEF StampedBy, Message
<1>2. [k \in DOMAIN <<m>> |-> [<<m>>[k] EXCEPT !.task = serving[w]]] = <<StampedBy(w, m)>>
  BY DEF StampedBy
<1>3. toMaster[w] \in Seq(Message)
  BY DEF ChannelsTyped
<1>4. toMaster[w] \o <<StampedBy(w, m)>> = Append(toMaster[w], StampedBy(w, m))
  BY <1>1, <1>3, Put
<1>5. toMaster' = [toMaster EXCEPT ![w] = toMaster[w] \o <<StampedBy(w, m)>>]
  BY <1>2 DEF Send
<1>. QED BY <1>1, <1>4, <1>5

\* ... or two.
LEMMA SendTwo ==
  ASSUME ChannelsTyped, SlavesTyped, NEW w \in Workers,
         NEW m \in Message, NEW n \in Message, Send(w, <<m, n>>)
  PROVE  /\ StampedBy(w, m) \in Message /\ StampedBy(w, n) \in Message
         /\ toMaster' = [toMaster EXCEPT ![w] =
                           Append(Append(@, StampedBy(w, m)), StampedBy(w, n))]
<1>1. StampedBy(w, m) \in Message /\ StampedBy(w, n) \in Message
  <2>1. serving[w] \in 0 .. NumTasks
    BY DEF SlavesTyped
  <2>. QED BY <2>1 DEF StampedBy, Message
<1>2. [k \in DOMAIN <<m, n>> |-> [<<m, n>>[k] EXCEPT !.task = serving[w]]]
        = <<StampedBy(w, m), StampedBy(w, n)>>
  BY DEF StampedBy
<1>3. toMaster[w] \in Seq(Message)
  BY DEF ChannelsTyped
<1>4. toMaster[w] \o <<StampedBy(w, m), StampedBy(w, n)>>
        = Append(Append(toMaster[w], StampedBy(w, m)), StampedBy(w, n))
  BY <1>1, <1>3, PutTwo
<1>5. toMaster' = [toMaster EXCEPT ![w] =
                     toMaster[w] \o <<StampedBy(w, m), StampedBy(w, n)>>]
  BY <1>2 DEF Send
<1>. QED BY <1>1, <1>4, <1>5

Tags ==
  {"SET_LOCAL_CHECKPOINT", "UNSET_LOCAL_CHECKPOINT", "NEW_TASK", "NEW_WORK_ASSIGNMENT",
   "END_OF_WORK", "QUERY_PERFORMANCE_DATA", "TERMINATE", "WORKER_IDENTIFICATION",
   "DATA_READY", "FINISHED", "FAIL", "WORKER_CLOSE_DOWN", "REPORT_PERFORMANCE_DATA"}

\* Messages that are sent are messages.
LEMMA MsgTyped ==
  ASSUME task \in 0 .. NumTasks, NEW tag \in Tags, NEW items \in SUBSET Items, NEW n \in Nat
  PROVE  /\ Msg(tag, items, n) \in Message
         /\ Msg(tag, items, n).tag = tag /\ Msg(tag, items, n).task = task
         /\ Msg(tag, items, n).items = items /\ Msg(tag, items, n).n = n
BY DEF Msg, Message, Tags

\* Orders are messages, whatever task they are stamped with.
LEMMA OrderTyped ==
  ASSUME task \in 0 .. NumTasks, NEW tag \in Tags
  PROVE  /\ Order(tag) \in Message
         /\ Order(tag).tag = tag /\ Order(tag).task = task
         /\ \A t \in 0 .. NumTasks :
              /\ [Order(tag) EXCEPT !.task = t] \in Message
              /\ [Order(tag) EXCEPT !.task = t].tag = tag
              /\ [Order(tag) EXCEPT !.task = t].task = t
BY DEF Order, Msg, Message, Tags

\* The typing facts of the invariant.
LEMMA Types ==
  ASSUME ProtocolInv
  PROVE  /\ SlavesTyped /\ ChannelsTyped /\ MasterTyped /\ SchedTypeOK /\ SchedInv
         /\ task \in 0 .. NumTasks
         /\ \A w \in Workers :
              /\ at[w] \in {"wait", "task", "work", "leaving", "exited"}
              /\ serving[w] \in 0 .. NumTasks /\ interval[w] \in {0, 1}
              /\ todo[w] \in SUBSET Items /\ bad[w] \in SUBSET Items
              /\ cache[w] \in SUBSET Items /\ good[w] \in Nat
              /\ toSlave[w] \in Seq(Message) /\ toMaster[w] \in Seq(Message)
BY TypeParts DEF ProtocolInv, SlavesTyped, ChannelsTyped, MasterTyped

-----------------------------------------------------------------------------
(* The slaves' steps                                                       *)

\* Messages that are taken from a mailbox leave the rest in order.
LEMMA InvitedTaken ==
  ASSUME ProtocolInv, NEW w \in Workers, toSlave[w] # <<>>, TakeOrder(w),
         UNCHANGED <<phase, task, initialized>>,
         Has(toMaster'[w], "WORKER_IDENTIFICATION")
           => Has(toMaster[w], "WORKER_IDENTIFICATION")
  PROVE  Invited(w)'
<1>1. Invited(w)
  BY DEF ProtocolInv, SlaveInv
<1>2. /\ \A k \in 1 .. Len(toSlave'[w]) :
              /\ k + 1 \in 1 .. Len(toSlave[w]) /\ toSlave'[w][k] = toSlave[w][k + 1]
              /\ k + 1 = Len(toSlave[w]) => k = Len(toSlave'[w])
  BY Reading
<1>. QED BY <1>1, <1>2 DEF Invited

\* wait_for_tasks(): checkpoint intervals.
LEMMA CheckpointStep ==
  ASSUME ProtocolInv, NEW w \in Workers, SlaveCheckpoint(w)
  PROVE  ProtocolInv'
<1>. DEFINE m == Head(toSlave[w])
<1>1. /\ at[w] = "wait" /\ toSlave[w] # <<>> /\ TakeOrder(w)
      /\ m.tag \in {"SET_LOCAL_CHECKPOINT", "UNSET_LOCAL_CHECKPOINT"}
      /\ interval' = [interval EXCEPT ![w] =
           IF m.tag = "SET_LOCAL_CHECKPOINT" THEN 1 ELSE 0]
      /\ UNCHANGED <<schedVars, masterVars, at, serving, todo, good, bad, cache, toMaster>>
  BY DEF SlaveCheckpoint, FromMaster
<1>2. /\ SlavesTyped /\ ChannelsTyped /\ SlaveInv(w)
      /\ at \in [Workers -> {"wait", "task", "work", "leaving", "exited"}]
      /\ interval \in [Workers -> {0, 1}]
  BY Types DEF ProtocolInv, SlavesTyped
<1>3. /\ UNCHANGED <<phase, task, closing, initialized, inactive>>
  BY <1>1 DEF masterVars, schedVars
<1>4. interval'[w] = (IF m.tag = "SET_LOCAL_CHECKPOINT" THEN 1 ELSE 0)
      /\ \A v \in Workers \ {w} : interval'[v] = interval[v]
  BY <1>1, <1>2
<1>5. OnlySlave(w)
  <2>1. SlavesTyped'
    BY <1>1, <1>2 DEF SlavesTyped
  <2>2. ChannelsTyped' /\ \A v \in Workers \ {w} : toSlave'[v] = toSlave[v]
    BY <1>1, <1>2, Reading DEF ChannelsTyped
  <2>. QED BY <1>1, <1>4, <2>1, <2>2 DEF OnlySlave
<1>6. OrdersInTurn(w)'
  <2>1. Track(After(m), toSlave'[w], Due)
    BY <1>1, Reading
  <2>2. Now(w)' = After(m)
    BY <1>1, <1>4 DEF Now, After, State
  <2>3. Due' = Due
    BY <1>3 DEF Due
  <2>. QED BY <2>1, <2>2, <2>3 DEF OrdersInTurn
<1>7. OwnCheckpoint(w)' /\ LeavesLast(w)'
  <2>1. \A tag : Has(toSlave'[w], tag) => Has(toSlave[w], tag)
    BY <1>1, Reading
  <2>. QED BY <1>1, <1>2, <1>3, <2>1 DEF SlaveInv, OwnCheckpoint, LeavesLast
<1>8. Invited(w)' /\ Identified(w)' /\ Recruited(w)'
  BY <1>1, <1>2, <1>3, InvitedTaken DEF SlaveInv, Identified, Recruited
<1>9. AtWork(w)' /\ LastWord(w)' /\ ReportsOnce(w)'
  <2>1. \A k \in 1 .. Len(toSlave'[w]) :
           k + 1 \in 1 .. Len(toSlave[w]) /\ toSlave'[w][k] = toSlave[w][k + 1]
    BY <1>1, Reading
  <2>2. AtWork(w)'
    BY <1>1, <1>2, <1>3, <2>1 DEF SlaveInv, AtWork
  <2>. QED BY <1>1, <1>2, <1>3, <2>2 DEF SlaveInv, LastWord, ReportsOnce
<1>10. SameLoad(w)
  BY <1>1 DEF SameLoad
<1>. QED BY <1>5, <1>6, <1>7, <1>8, <1>9, <1>10, SlaveAlone DEF SlaveInv

\* process_task(): the slave joins the task it is invited to, and says so.
LEMMA BeginStep ==
  ASSUME ProtocolInv, NEW w \in Workers, SlaveBegin(w)
  PROVE  ProtocolInv'
<1>. DEFINE m == Head(toSlave[w])
            id == [Order("WORKER_IDENTIFICATION") EXCEPT !.task = m.task]
<1>1. /\ at[w] = "wait" /\ toSlave[w] # <<>> /\ TakeOrder(w) /\ m.tag = "NEW_TASK"
      /\ serving' = [serving EXCEPT ![w] = m.task]
      /\ toMaster' = [toMaster EXCEPT ![w] = Append(@, id)]
      /\ at' = [at EXCEPT ![w] = "task"] /\ cache' = [cache EXCEPT ![w] = {}]
      /\ UNCHANGED <<schedVars, masterVars, todo, good, bad, interval>>
  BY DEF SlaveBegin, FromMaster
<1>2. /\ SlavesTyped /\ ChannelsTyped /\ SlaveInv(w) /\ task \in 0 .. NumTasks
      /\ at \in [Workers -> {"wait", "task", "work", "leaving", "exited"}]
      /\ serving \in [Workers -> 0 .. NumTasks]
  BY Types DEF ProtocolInv, SlavesTyped
<1>3. /\ UNCHANGED <<phase, task, closing, initialized, inactive>>
  BY <1>1 DEF masterVars, schedVars
<1>4. /\ m \in Message /\ m = toSlave[w][1] /\ Len(toSlave[w]) \in Nat \ {0}
      /\ Track(After(m), toSlave'[w], Due) /\ Accepts(Now(w), m)
      /\ Len(toSlave[w]) = 1 => toSlave'[w] = <<>>
  BY <1>1, Reading
<1>5. /\ phase = "capture" /\ Len(toSlave[w]) = 1 /\ m.task = task
      /\ w \notin initialized /\ ~Has(toMaster[w], "WORKER_IDENTIFICATION")
      /\ toSlave'[w] = <<>>
  <2>1. 1 \in 1 .. Len(toSlave[w]) /\ toSlave[w][1].tag = "NEW_TASK"
    BY <1>1, <1>4
  <2>. QED BY <1>2, <1>4, <2>1 DEF SlaveInv, Invited
<1>6. id \in Message /\ id.tag = "WORKER_IDENTIFICATION" /\ id.task = task
  <2>1. "WORKER_IDENTIFICATION" \in Tags
    BY DEF Tags
  <2>. QED BY <1>2, <1>5, <2>1, OrderTyped
<1>7. /\ at'[w] = "task" /\ serving'[w] = task /\ interval'[w] = interval[w]
      /\ \A v \in Workers \ {w} : at'[v] = at[v] /\ serving'[v] = serving[v]
  BY <1>1, <1>2, <1>5
<1>8. /\ toMaster' \in [Workers -> Seq(Message)]
      /\ \A v \in Workers \ {w} : toMaster'[v] = toMaster[v]
      /\ \A k \in 1 .. Len(toMaster'[w]) :
              \/ k \in 1 .. Len(toMaster[w]) /\ toMaster'[w][k] = toMaster[w][k]
              \/ k = Len(toMaster'[w]) /\ toMaster'[w][k] = id
      /\ \A tag : Has(toMaster'[w], tag) <=> Has(toMaster[w], tag) \/ id.tag = tag
  <2>. HIDE DEF id
  <2>. QED BY <1>1, <1>2, <1>6, Writing
<1>. HIDE DEF id
<1>9. OnlySlave(w)
  <2>1. SlavesTyped'
    BY <1>1, <1>2, <1>5 DEF SlavesTyped
  <2>2. ChannelsTyped' /\ \A v \in Workers \ {w} : toSlave'[v] = toSlave[v]
    BY <1>1, <1>8, Reading DEF ChannelsTyped
  <2>. QED BY <1>1, <1>7, <1>8, <2>1, <2>2 DEF OnlySlave
<1>10. interval[w] = C(task)
  BY <1>1, <1>4, <1>5 DEF Accepts, Now, State
<1>11. OrdersInTurn(w)'
  <2>1. Now(w)' = After(m)
    BY <1>1, <1>5, <1>7, <1>10 DEF Now, After, State
  <2>2. Due' = Due
    BY <1>3 DEF Due
  <2>. QED BY <1>4, <2>1, <2>2 DEF OrdersInTurn
<1>12. OwnCheckpoint(w)'
  BY <1>7, <1>10 DEF OwnCheckpoint, C
<1>13. LeavesLast(w)' /\ Invited(w)' /\ Recruited(w)'
  BY <1>3, <1>5, <1>7, HasNone DEF LeavesLast, Invited, Recruited
<1>14. Identified(w)'
  BY <1>3, <1>5, <1>7, <1>8 DEF Identified, Has
<1>15. AtWork(w)' /\ LastWord(w)'
  BY <1>3, <1>5 DEF AtWork, LastWord
<1>16. ~Has(toMaster[w], "REPORT_PERFORMANCE_DATA")
  BY <1>1, <1>2 DEF SlaveInv, ReportsOnce, Has
<1>17. ReportsOnce(w)' /\ SameLoad(w)
  BY <1>1, <1>6, <1>7, <1>8, <1>16 DEF ReportsOnce, SameLoad, Has
<1>. QED BY <1>9, <1>11, <1>12, <1>13, <1>14, <1>15, <1>17, SlaveAlone DEF SlaveInv

\* process_task() traps an unreadable record.
LEMMA SkipStep ==
  ASSUME ProtocolInv, NEW w \in Workers, SlaveSkip(w)
  PROVE  ProtocolInv'
<1>1. /\ at[w] = "wait" /\ toSlave[w] # <<>> /\ TakeOrder(w)
      /\ Head(toSlave[w]).tag = "NEW_TASK"
      /\ UNCHANGED <<schedVars, masterVars, slaveVars, toMaster>>
  BY DEF SlaveSkip, FromMaster
<1>2. SlavesTyped /\ ChannelsTyped /\ SlaveInv(w)
  BY Types DEF ProtocolInv
<1>3. /\ UNCHANGED <<phase, task, closing, initialized, inactive>>
      /\ UNCHANGED <<at, serving, interval>>
  BY <1>1 DEF masterVars, schedVars, slaveVars
<1>4. /\ Head(toSlave[w]) = toSlave[w][1] /\ Len(toSlave[w]) \in Nat \ {0}
      /\ Len(toSlave[w]) = 1 => toSlave'[w] = <<>>
  BY <1>1, Reading
<1>5. /\ phase = "capture" /\ toSlave'[w] = <<>>
      /\ w \notin initialized /\ ~Has(toMaster[w], "WORKER_IDENTIFICATION")
  <2>1. 1 \in 1 .. Len(toSlave[w]) /\ toSlave[w][1].tag = "NEW_TASK"
    BY <1>1, <1>4
  <2>. QED BY <1>2, <1>4, <2>1 DEF SlaveInv, Invited
<1>6. OnlySlave(w)
  <2>1. SlavesTyped'
    BY <1>1, <1>2, MasterKeepsTypes
  <2>2. ChannelsTyped' /\ \A v \in Workers \ {w} : toSlave'[v] = toSlave[v]
    BY <1>1, <1>2, Reading DEF ChannelsTyped
  <2>. QED BY <1>1, <1>3, <2>1, <2>2 DEF OnlySlave
<1>7. OrdersInTurn(w)'
  BY <1>1, <1>3, <1>5 DEF OrdersInTurn, Skipped
<1>8. OwnCheckpoint(w)' /\ LeavesLast(w)' /\ Invited(w)' /\ Recruited(w)'
  BY <1>1, <1>2, <1>3, <1>5, HasNone
  DEF SlaveInv, OwnCheckpoint, LeavesLast, Invited, Recruited
<1>9. Identified(w)' /\ AtWork(w)' /\ LastWord(w)' /\ ReportsOnce(w)'
  BY <1>1, <1>2, <1>3, <1>5 DEF SlaveInv, Identified, AtWork, LastWord, ReportsOnce
<1>10. SameLoad(w)
  BY <1>1, <1>3 DEF SameLoad
<1>. QED BY <1>6, <1>7, <1>8, <1>9, <1>10, SlaveAlone DEF SlaveInv

\* An assignment arrives in a slave that is in its task.
LEMMA AssignmentStep ==
  ASSUME ProtocolInv, NEW w \in Workers, SlaveAssignment(w)
  PROVE  ProtocolInv'
<1>. DEFINE m == Head(toSlave[w])
<1>1. /\ at[w] = "task" /\ toSlave[w] # <<>> /\ TakeOrder(w)
      /\ m.tag = "NEW_WORK_ASSIGNMENT"
      /\ at' = [at EXCEPT ![w] = "work"] /\ todo' = [todo EXCEPT ![w] = m.items]
      /\ good' = [good EXCEPT ![w] = 0] /\ bad' = [bad EXCEPT ![w] = {}]
      /\ UNCHANGED <<schedVars, masterVars, serving, cache, interval, toMaster>>
  BY DEF SlaveAssignment, FromMaster
<1>2. /\ SlavesTyped /\ ChannelsTyped /\ SlaveInv(w)
      /\ at \in [Workers -> {"wait", "task", "work", "leaving", "exited"}]
  BY Types DEF ProtocolInv, SlavesTyped
<1>3. UNCHANGED <<phase, task, closing, initialized, inactive>>
  BY <1>1 DEF masterVars, schedVars
<1>4. at'[w] = "work" /\ \A v \in Workers \ {w} : at'[v] = at[v]
  BY <1>1, <1>2
<1>5. /\ m \in Message /\ Accepts(Now(w), m) /\ Track(After(m), toSlave'[w], Due)
      /\ \A k \in 1 .. Len(toSlave'[w]) :
           k + 1 \in 1 .. Len(toSlave[w]) /\ toSlave'[w][k] = toSlave[w][k + 1]
      /\ \A tag : Has(toSlave'[w], tag) => Has(toSlave[w], tag)
  BY <1>1, Reading
<1>6. OnlySlave(w)
  <2>1. m.items \in SUBSET Items
    BY <1>5 DEF Message
  <2>2. SlavesTyped'
    BY <1>1, <1>2, <2>1 DEF SlavesTyped
  <2>3. ChannelsTyped' /\ \A v \in Workers \ {w} : toSlave'[v] = toSlave[v]
    BY <1>1, <1>2, Reading DEF ChannelsTyped
  <2>. QED BY <1>1, <1>4, <2>2, <2>3 DEF OnlySlave
<1>7. OrdersInTurn(w)'
  <2>1. serving[w] = m.task /\ interval[w] = C(m.task)
    BY <1>1, <1>5 DEF Accepts, Now, State
  <2>2. Now(w)' = After(m)
    BY <1>1, <1>4, <2>1 DEF Now, After, State
  <2>3. Due' = Due
    BY <1>3 DEF Due
  <2>. QED BY <1>5, <2>2, <2>3 DEF OrdersInTurn
<1>8. OwnCheckpoint(w)' /\ LeavesLast(w)'
  BY <1>1, <1>2, <1>3, <1>4, <1>5 DEF SlaveInv, OwnCheckpoint, LeavesLast
<1>9. Invited(w)' /\ Identified(w)' /\ Recruited(w)'
  BY <1>1, <1>2, <1>3, InvitedTaken DEF SlaveInv, Identified, Recruited
<1>10. AtWork(w)' /\ LastWord(w)' /\ ReportsOnce(w)' /\ SameLoad(w)
  BY <1>1, <1>2, <1>3, <1>4, <1>5 DEF SlaveInv, AtWork, LastWord, ReportsOnce, SameLoad
<1>. QED BY <1>6, <1>7, <1>8, <1>9, <1>10, SlaveAlone DEF SlaveInv

\* What a slave at work says, it says about the task it serves.
LEMMA Speaking ==
  ASSUME ProtocolInv, NEW w \in Workers, at[w] = "work", at'[w] \in {"task", "work"},
         \A v \in Workers \ {w} : at'[v] = at[v],
         UNCHANGED <<schedVars, masterVars, serving, interval, toSlave>>,
         SlavesTyped', NEW m \in Message, m.tag \in {"DATA_READY", "FINISHED", "FAIL"},
         m.task = serving[w],
         \/ toMaster' = [toMaster EXCEPT ![w] = Append(@, m)]
         \/ UNCHANGED toMaster
  PROVE  ProtocolInv'
<1>1. SlavesTyped /\ ChannelsTyped /\ SlaveInv(w)
  BY Types DEF ProtocolInv
<1>2. UNCHANGED <<phase, task, closing, initialized, inactive>>
  BY DEF masterVars, schedVars
<1>3. /\ toMaster' \in [Workers -> Seq(Message)]
      /\ \A v \in Workers \ {w} : toMaster'[v] = toMaster[v]
      /\ \A k \in 1 .. Len(toMaster'[w]) :
              \/ k \in 1 .. Len(toMaster[w]) /\ toMaster'[w][k] = toMaster[w][k]
              \/ k = Len(toMaster'[w]) /\ toMaster'[w][k] = m
      /\ \A tag : Has(toMaster'[w], tag) => Has(toMaster[w], tag) \/ m.tag = tag
  <2>1. CASE UNCHANGED toMaster
    BY <1>1, <2>1 DEF ChannelsTyped
  <2>2. CASE toMaster' = [toMaster EXCEPT ![w] = Append(@, m)]
    BY <1>1, <2>2, Writing
  <2>. QED BY <2>1, <2>2
<1>4. OnlySlave(w)
  BY <1>1, <1>3 DEF OnlySlave, ChannelsTyped
<1>5. OrdersInTurn(w)'
  <2>1. Now(w)' = Now(w) /\ Due' = Due
    BY <1>2 DEF Now, Due, State
  <2>2. ~Skipped(w)
    BY DEF Skipped
  <2>. QED BY <1>1, <2>1, <2>2 DEF SlaveInv, OrdersInTurn
<1>6. OwnCheckpoint(w)' /\ LeavesLast(w)'
  BY <1>1, <1>2 DEF SlaveInv, OwnCheckpoint, LeavesLast
<1>7. ~Has(toMaster'[w], "WORKER_IDENTIFICATION")
  BY <1>1, <1>3 DEF SlaveInv, Identified, Has
<1>8. Invited(w)' /\ Identified(w)' /\ Recruited(w)'
  BY <1>1, <1>2, <1>7 DEF SlaveInv, Invited, Identified, Recruited, Has
<1>9. ~Has(toMaster'[w], "REPORT_PERFORMANCE_DATA")
  <2>1. ~Has(toMaster[w], "REPORT_PERFORMANCE_DATA")
    BY <1>1 DEF SlaveInv, ReportsOnce, Has
  <2>. QED BY <1>3, <2>1
<1>10. AtWork(w)'
  BY <1>1, <1>2, <1>3 DEF SlaveInv, AtWork
<1>11. LastWord(w)'
  <2>1. phase \in {"poll", "drain"} => ~Has(toMaster[w], "WORKER_CLOSE_DOWN")
    BY <1>1 DEF SlaveInv, LastWord, Has
  <2>2. phase \in {"poll", "drain"} => ~Has(toMaster'[w], "WORKER_CLOSE_DOWN")
    BY <1>3, <2>1
  <2>. QED BY <1>1, <1>2, <2>2 DEF SlaveInv, LastWord, Has
<1>12. ReportsOnce(w)' /\ SameLoad(w)
  BY <1>9 DEF ReportsOnce, SameLoad, Has
<1>. QED BY <1>4, <1>5, <1>6, <1>8, <1>10, <1>11, <1>12, SlaveAlone DEF SlaveInv

\* One configuration is processed, and the batcher may flush its cache.
LEMMA ProcessStep ==
  ASSUME ProtocolInv, NEW w \in Workers, NEW i \in Items, NEW ok \in BOOLEAN,
         NEW flush \in BOOLEAN, SlaveProcess(w, i, ok, flush)
  PROVE  ProtocolInv'
<1>. DEFINE held == IF ok THEN cache[w] \cup {i} ELSE cache[w]
            m == Msg("DATA_READY", held, 0)
<1>1. /\ at[w] = "work" /\ todo' = [todo EXCEPT ![w] = @ \ {i}]
      /\ good' = [good EXCEPT ![w] = IF ok THEN @ + 1 ELSE @]
      /\ bad' = [bad EXCEPT ![w] = IF ok THEN @ ELSE @ \cup {i}]
      /\ cache' = [cache EXCEPT ![w] = IF flush THEN {} ELSE held]
      /\ IF flush THEN Send(w, <<m>>) ELSE UNCHANGED toMaster
      /\ UNCHANGED <<schedVars, masterVars, at, serving, interval, toSlave>>
  BY DEF SlaveProcess
<1>2. /\ SlavesTyped /\ ChannelsTyped /\ task \in 0 .. NumTasks
      /\ held \in SUBSET Items
  BY Types
<1>3. m \in Message /\ m.tag = "DATA_READY"
  <2>1. "DATA_READY" \in Tags
    BY DEF Tags
  <2>. HIDE DEF held
  <2>. QED BY <1>2, <2>1, MsgTyped
<1>4. SlavesTyped'
  <2>. HIDE DEF held
  <2>. QED BY <1>1, <1>2 DEF SlavesTyped
<1>. HIDE DEF m
<1>5. \/ UNCHANGED toMaster
      \/ toMaster' = [toMaster EXCEPT ![w] = Append(@, StampedBy(w, m))]
  BY <1>1, <1>2, <1>3, SendOne
<1>6. /\ StampedBy(w, m) \in Message /\ StampedBy(w, m).tag = "DATA_READY"
      /\ StampedBy(w, m).task = serving[w]
  <2>1. serving[w] \in 0 .. NumTasks
    BY <1>2 DEF SlavesTyped
  <2>. QED BY <1>3, <2>1 DEF StampedBy, Message
<1>7. UNCHANGED <<schedVars, masterVars, serving, interval, toSlave>>
  BY <1>1
<1>8. at'[w] \in {"task", "work"} /\ \A v \in Workers \ {w} : at'[v] = at[v]
  BY <1>1
<1>. QED BY <1>1, <1>4, <1>5, <1>6, <1>7, <1>8, Speaking

\* A flush throws after the item has been counted.
LEMMA MiscountStep ==
  ASSUME ProtocolInv, NEW w \in Workers, NEW i \in Items, SlaveMiscount(w, i)
  PROVE  ProtocolInv'
<1>1. /\ at[w] = "work" /\ todo' = [todo EXCEPT ![w] = @ \ {i}]
      /\ good' = [good EXCEPT ![w] = @ + 1] /\ bad' = [bad EXCEPT ![w] = @ \cup {i}]
      /\ UNCHANGED <<schedVars, masterVars, at, serving, cache, interval, toSlave, toMaster>>
  BY DEF SlaveMiscount
<1>2. SlavesTyped /\ SlavesTyped'
  <2>1. SlavesTyped
    BY Types
  <2>. QED BY <1>1, <2>1 DEF SlavesTyped
<1>3. serving[w] \in 0 .. NumTasks
  BY <1>2 DEF SlavesTyped
<1>4. PICK m \in Message : m.tag = "FAIL" /\ m.task = serving[w]
  <2>. DEFINE m == [tag |-> "FAIL", task |-> serving[w], items |-> {}, n |-> 0]
  <2>. m \in Message /\ m.tag = "FAIL" /\ m.task = serving[w]
    BY <1>3 DEF Message
  <2>. QED OBVIOUS
<1>5. UNCHANGED <<schedVars, masterVars, serving, interval, toSlave>> /\ UNCHANGED toMaster
  BY <1>1
<1>6. at'[w] \in {"task", "work"} /\ \A v \in Workers \ {w} : at'[v] = at[v]
  BY <1>1
<1>. QED BY <1>1, <1>2, <1>4, <1>5, <1>6, Speaking

\* The end of an assignment.
LEMMA FinishStep ==
  ASSUME ProtocolInv, NEW w \in Workers, NEW ok \in BOOLEAN, SlaveFinish(w, ok)
  PROVE  ProtocolInv'
<1>. DEFINE tag == IF ok THEN "FINISHED" ELSE "FAIL"
            m == Msg(tag, bad[w], Processed(w))
<1>1. /\ at[w] = "work" /\ Send(w, <<m>>)
      /\ at' = [at EXCEPT ![w] = "task"] /\ todo' = [todo EXCEPT ![w] = {}]
      /\ UNCHANGED <<schedVars, masterVars, serving, good, bad, cache, interval, toSlave>>
  BY DEF SlaveFinish
<1>2. /\ SlavesTyped /\ ChannelsTyped /\ task \in 0 .. NumTasks
      /\ bad[w] \in SUBSET Items /\ good[w] \in Nat
  BY Types
<1>3. Processed(w) \in Nat
  <2>1. Cardinality(bad[w]) \in Nat
    BY <1>2, FiniteItems
  <2>. QED BY <1>2, <2>1 DEF Processed
<1>4. m \in Message /\ m.tag \in {"FINISHED", "FAIL"}
  <2>1. tag \in Tags /\ tag \in {"FINISHED", "FAIL"}
    BY DEF Tags
  <2>. HIDE DEF tag
  <2>. QED BY <1>2, <1>3, <2>1, MsgTyped
<1>5. SlavesTyped'
  BY <1>1, <1>2 DEF SlavesTyped
<1>. HIDE DEF m
<1>6. toMaster' = [toMaster EXCEPT ![w] = Append(@, StampedBy(w, m))]
  BY <1>1, <1>2, <1>4, SendOne
<1>7. /\ StampedBy(w, m) \in Message /\ StampedBy(w, m).tag \in {"FINISHED", "FAIL"}
      /\ StampedBy(w, m).task = serving[w]
  <2>1. serving[w] \in 0 .. NumTasks
    BY <1>2 DEF SlavesTyped
  <2>. QED BY <1>4, <2>1 DEF StampedBy, Message
<1>8. UNCHANGED <<schedVars, masterVars, serving, interval, toSlave>>
  BY <1>1
<1>9. at'[w] \in {"task", "work"} /\ \A v \in Workers \ {w} : at'[v] = at[v]
  BY <1>1, <1>2 DEF SlavesTyped
<1>. QED BY <1>1, <1>5, <1>6, <1>7, <1>8, <1>9, Speaking

\* END_OF_WORK: the slave flushes its cache and has its last word.
LEMMA CloseStep ==
  ASSUME ProtocolInv, NEW w \in Workers, SlaveClose(w)
  PROVE  ProtocolInv'
<1>. DEFINE m == Head(toSlave[w])
            data == Msg("DATA_READY", cache[w], 0)
            bye == Order("WORKER_CLOSE_DOWN")
<1>1. /\ at[w] = "task" /\ toSlave[w] # <<>> /\ TakeOrder(w) /\ m.tag = "END_OF_WORK"
      /\ Send(w, <<data, bye>>)
      /\ cache' = [cache EXCEPT ![w] = {}] /\ at' = [at EXCEPT ![w] = "wait"]
      /\ UNCHANGED <<schedVars, masterVars, serving, todo, good, bad, interval>>
  BY DEF SlaveClose, FromMaster, LastWords
<1>2. /\ SlavesTyped /\ ChannelsTyped /\ SlaveInv(w) /\ task \in 0 .. NumTasks
      /\ at \in [Workers -> {"wait", "task", "work", "leaving", "exited"}]
      /\ cache[w] \in SUBSET Items /\ serving[w] \in 0 .. NumTasks
  BY Types DEF ProtocolInv, SlavesTyped
<1>3. UNCHANGED <<phase, task, closing, initialized, inactive>>
  BY <1>1 DEF masterVars, schedVars
<1>4. at'[w] = "wait" /\ \A v \in Workers \ {w} : at'[v] = at[v]
  BY <1>1, <1>2
<1>5. /\ m \in Message /\ Accepts(Now(w), m) /\ Track(After(m), toSlave'[w], Due)
      /\ \A k \in 1 .. Len(toSlave'[w]) :
           k + 1 \in 1 .. Len(toSlave[w]) /\ toSlave'[w][k] = toSlave[w][k + 1]
      /\ \A tag : Has(toSlave'[w], tag) => Has(toSlave[w], tag)
  BY <1>1, Reading
<1>6. /\ data \in Message /\ data.tag = "DATA_READY"
      /\ bye \in Message /\ bye.tag = "WORKER_CLOSE_DOWN"
  <2>1. "DATA_READY" \in Tags /\ "WORKER_CLOSE_DOWN" \in Tags
    BY DEF Tags
  <2>. QED BY <1>2, <2>1, MsgTyped, OrderTyped
<1>. HIDE DEF data, bye
<1>7. PICK a \in Message, b \in Message :
        /\ a.tag = "DATA_READY" /\ a.task = serving[w]
        /\ b.tag = "WORKER_CLOSE_DOWN" /\ b.task = serving[w]
        /\ toMaster' = [toMaster EXCEPT ![w] = Append(Append(@, a), b)]
  <2>1. /\ StampedBy(w, data) \in Message /\ StampedBy(w, bye) \in Message
        /\ toMaster' = [toMaster EXCEPT ![w] =
                          Append(Append(@, StampedBy(w, data)), StampedBy(w, bye))]
    BY <1>1, <1>2, <1>6, SendTwo
  <2>2. /\ StampedBy(w, data).tag = "DATA_READY" /\ StampedBy(w, data).task = serving[w]
        /\ StampedBy(w, bye).tag = "WORKER_CLOSE_DOWN" /\ StampedBy(w, bye).task = serving[w]
    BY <1>2, <1>6 DEF StampedBy, Message
  <2>. QED BY <2>1, <2>2
<1>8. /\ toMaster' \in [Workers -> Seq(Message)]
      /\ \A v \in Workers \ {w} : toMaster'[v] = toMaster[v]
      /\ \A k \in 1 .. Len(toMaster'[w]) :
              \/ k \in 1 .. Len(toMaster[w]) /\ toMaster'[w][k] = toMaster[w][k]
              \/ toMaster'[w][k] = a
              \/ k = Len(toMaster'[w]) /\ toMaster'[w][k] = b
      /\ \A tag : Has(toMaster'[w], tag)
                    <=> Has(toMaster[w], tag) \/ a.tag = tag \/ b.tag = tag
  <2>1. toMaster \in [Workers -> Seq(Message)]
    BY <1>2 DEF ChannelsTyped
  <2>2. PICK q \in Seq(Message) : q = toMaster[w]
    BY <2>1
  <2>3. PICK r \in Seq(Message) : r = Append(q, a)
    BY Put
  <2>4. PICK s \in Seq(Message) : s = Append(r, b)
    BY Put
  <2>5. toMaster' = [toMaster EXCEPT ![w] = s]
    BY <1>7, <2>2, <2>3, <2>4
  <2>6. toMaster'[w] = s /\ \A v \in Workers \ {w} : toMaster'[v] = toMaster[v]
    BY <2>1, <2>5
  <2>7. toMaster' \in [Workers -> Seq(Message)]
    BY <2>1, <2>5
  <2>8. /\ Len(q) \in Nat /\ Len(r) = Len(q) + 1 /\ Len(s) = Len(r) + 1
        /\ \A k \in 1 .. Len(q) : r[k] = q[k]
        /\ \A k \in 1 .. Len(r) : s[k] = r[k]
        /\ r[Len(q) + 1] = a /\ s[Len(r) + 1] = b
    BY <2>3, <2>4, Put
  <2>9. ASSUME NEW k \in 1 .. Len(s)
        PROVE  \/ k \in 1 .. Len(q) /\ s[k] = q[k]
               \/ s[k] = a
               \/ k = Len(s) /\ s[k] = b
    <3>1. k \in 1 .. Len(q) \/ k = Len(q) + 1 \/ k = Len(r) + 1
      BY <2>8
    <3>. QED BY <2>8, <3>1
  <2>10. \A tag : Has(s, tag) <=> Has(q, tag) \/ a.tag = tag \/ b.tag = tag
    BY <2>3, <2>4, HasPut
  <2>. QED BY <2>2, <2>6, <2>7, <2>9, <2>10
<1>9. OnlySlave(w)
  <2>1. SlavesTyped'
    BY <1>1, <1>2 DEF SlavesTyped
  <2>2. ChannelsTyped' /\ \A v \in Workers \ {w} : toSlave'[v] = toSlave[v]
    BY <1>1, <1>8, Reading DEF ChannelsTyped
  <2>. QED BY <1>1, <1>4, <1>8, <2>1, <2>2 DEF OnlySlave
<1>10. OrdersInTurn(w)'
  <2>1. interval[w] = C(m.task)
    BY <1>1, <1>5 DEF Accepts, Now, State
  <2>2. Now(w)' = After(m)
    BY <1>1, <1>4, <2>1 DEF Now, After, State
  <2>3. Due' = Due
    BY <1>3 DEF Due
  <2>. QED BY <1>5, <2>2, <2>3 DEF OrdersInTurn
<1>11. OwnCheckpoint(w)' /\ LeavesLast(w)'
  BY <1>2, <1>3, <1>4, <1>5 DEF SlaveInv, OwnCheckpoint, LeavesLast
<1>12. ~Has(toMaster[w], "WORKER_IDENTIFICATION")
       /\ ~Has(toMaster'[w], "WORKER_IDENTIFICATION")
  <2>1. ~Has(toMaster[w], "WORKER_IDENTIFICATION")
    BY <1>1, <1>2 DEF SlaveInv, Identified, Has
  <2>. QED BY <1>7, <1>8, <2>1
<1>13. Invited(w)' /\ Identified(w)' /\ Recruited(w)'
  <2>1. Invited(w)'
    BY <1>1, <1>3, <1>12, InvitedTaken
  <2>. QED BY <1>1, <1>2, <1>3, <1>12, <2>1 DEF SlaveInv, Identified, Recruited, Has
<1>14. AtWork(w)'
  <2>1. AtWork(w) /\ serving'[w] = serving[w]
    BY <1>1, <1>2 DEF SlaveInv
  <2>2. ASSUME phase \in {"poll", "drain"}, NEW k \in 1 .. Len(toMaster'[w])
        PROVE  /\ toMaster'[w][k].task = task
               /\ toMaster'[w][k].tag \in {"DATA_READY", "FINISHED", "FAIL", "WORKER_CLOSE_DOWN"}
    BY <1>7, <1>8, <2>1, <2>2 DEF AtWork
  <2>3. ASSUME phase \in {"poll", "drain"}, NEW k \in 1 .. Len(toSlave'[w])
        PROVE  toSlave'[w][k].tag \in {"NEW_WORK_ASSIGNMENT", "END_OF_WORK"}
    BY <1>5, <2>1, <2>3 DEF AtWork
  <2>. QED BY <1>3, <2>1, <2>2, <2>3 DEF AtWork
<1>15. LastWord(w)'
  <2>1. phase \in {"poll", "drain"} => /\ w \notin inactive
                                       /\ ~Has(toMaster[w], "WORKER_CLOSE_DOWN")
    BY <1>1, <1>2 DEF SlaveInv, LastWord, Has
  <2>2. Has(toMaster'[w], "WORKER_CLOSE_DOWN")
    BY <1>7, <1>8
  <2>3. phase \in {"poll", "drain"} =>
          \A k \in 1 .. Len(toMaster'[w]) :
            toMaster'[w][k].tag = "WORKER_CLOSE_DOWN" => k = Len(toMaster'[w])
    BY <1>7, <1>8, <2>1 DEF Has
  <2>. QED BY <1>3, <1>4, <2>1, <2>2, <2>3 DEF LastWord
<1>16. ReportsOnce(w)' /\ SameLoad(w)
  <2>1. ~Has(toMaster[w], "REPORT_PERFORMANCE_DATA")
    BY <1>1, <1>2 DEF SlaveInv, ReportsOnce, Has
  <2>2. ~Has(toMaster'[w], "REPORT_PERFORMANCE_DATA")
    BY <1>7, <1>8, <2>1
  <2>. QED BY <1>1, <1>4, <2>1, <2>2 DEF ReportsOnce, SameLoad, Has
<1>. QED
  BY <1>9, <1>10, <1>11, <1>13, <1>14, <1>15, <1>16, SlaveAlone DEF SlaveInv

\* The slave reports its load, and has one foot out of the door.
LEMMA ReportLoadStep ==
  ASSUME ProtocolInv, NEW w \in Workers, SlaveReportLoad(w)
  PROVE  ProtocolInv'
<1>. DEFINE m == Head(toSlave[w])
            load == Order("REPORT_PERFORMANCE_DATA")
<1>1. /\ at[w] = "wait" /\ toSlave[w] # <<>> /\ TakeOrder(w)
      /\ m.tag = "QUERY_PERFORMANCE_DATA" /\ Send(w, <<load>>)
      /\ at' = [at EXCEPT ![w] = "leaving"]
      /\ UNCHANGED <<schedVars, masterVars, serving, todo, good, bad, cache, interval>>
  BY DEF SlaveReportLoad, FromMaster
<1>2. /\ SlavesTyped /\ ChannelsTyped /\ SlaveInv(w) /\ task \in 0 .. NumTasks
      /\ at \in [Workers -> {"wait", "task", "work", "leaving", "exited"}]
      /\ serving[w] \in 0 .. NumTasks
  BY Types DEF ProtocolInv, SlavesTyped
<1>3. UNCHANGED <<phase, task, closing, initialized, inactive>>
  BY <1>1 DEF masterVars, schedVars
<1>4. at'[w] = "leaving" /\ \A v \in Workers \ {w} : at'[v] = at[v]
  BY <1>1, <1>2
<1>5. /\ m \in Message /\ m = toSlave[w][1] /\ Len(toSlave[w]) \in Nat \ {0}
      /\ Accepts(Now(w), m) /\ Track(After(m), toSlave'[w], Due)
      /\ \A tag : Has(toSlave'[w], tag) => Has(toSlave[w], tag)
  BY <1>1, Reading
<1>6. phase \in {"loads", "over"}
  <2>1. Has(toSlave[w], "QUERY_PERFORMANCE_DATA")
    BY <1>1, <1>5 DEF Has
  <2>. QED BY <1>2, <2>1 DEF SlaveInv, LeavesLast
<1>7. load \in Message /\ load.tag = "REPORT_PERFORMANCE_DATA"
  <2>1. "REPORT_PERFORMANCE_DATA" \in Tags
    BY DEF Tags
  <2>. QED BY <1>2, <2>1, OrderTyped
<1>. HIDE DEF load
<1>8. PICK a \in Message : /\ a.tag = "REPORT_PERFORMANCE_DATA"
                           /\ toMaster' = [toMaster EXCEPT ![w] = Append(@, a)]
  <2>1. /\ StampedBy(w, load) \in Message
        /\ toMaster' = [toMaster EXCEPT ![w] = Append(@, StampedBy(w, load))]
    BY <1>1, <1>2, <1>7, SendOne
  <2>2. StampedBy(w, load).tag = "REPORT_PERFORMANCE_DATA"
    BY <1>7 DEF StampedBy, Message
  <2>. QED BY <2>1, <2>2
<1>9. /\ toMaster' \in [Workers -> Seq(Message)]
      /\ \A v \in Workers \ {w} : toMaster'[v] = toMaster[v]
      /\ \A k \in 1 .. Len(toMaster'[w]) :
              \/ k \in 1 .. Len(toMaster[w]) /\ toMaster'[w][k] = toMaster[w][k]
              \/ k = Len(toMaster'[w]) /\ toMaster'[w][k] = a
      /\ \A tag : Has(toMaster'[w], tag) <=> Has(toMaster[w], tag) \/ a.tag = tag
  <2>1. ChannelsTyped
    BY <1>2
  <2>2. toMaster' = [toMaster EXCEPT ![w] = Append(@, a)] /\ a \in Message
    BY <1>8
  <2>3. toMaster' \in [Workers -> Seq(Message)]
    BY ONLY <2>1, <2>2, Writing
  <2>4. \A v \in Workers \ {w} : toMaster'[v] = toMaster[v]
    BY ONLY <2>1, <2>2, Writing
  <2>5. \A k \in 1 .. Len(toMaster'[w]) :
              \/ k \in 1 .. Len(toMaster[w]) /\ toMaster'[w][k] = toMaster[w][k]
              \/ k = Len(toMaster'[w]) /\ toMaster'[w][k] = a
    BY ONLY <2>1, <2>2, Writing
  <2>6. \A tag : Has(toMaster'[w], tag) <=> Has(toMaster[w], tag) \/ a.tag = tag
    BY ONLY <2>1, <2>2, Writing
  <2>. QED BY <2>3, <2>4, <2>5, <2>6
<1>10. OnlySlave(w)
  <2>1. SlavesTyped'
    BY <1>1, <1>2 DEF SlavesTyped
  <2>2. ChannelsTyped' /\ \A v \in Workers \ {w} : toSlave'[v] = toSlave[v]
    BY <1>1, <1>9, Reading DEF ChannelsTyped
  <2>. QED BY <1>1, <1>4, <1>9, <2>1, <2>2 DEF OnlySlave
<1>11. OrdersInTurn(w)'
  <2>1. interval[w] = 0
    BY <1>1, <1>5 DEF Accepts, Now, State
  <2>2. Now(w)' = After(m)
    BY <1>1, <1>4, <2>1 DEF Now, After, State
  <2>3. Due' = Due
    BY <1>3 DEF Due
  <2>. QED BY <1>5, <2>2, <2>3 DEF OrdersInTurn
<1>12. OwnCheckpoint(w)' /\ LeavesLast(w)' /\ Recruited(w)' /\ AtWork(w)' /\ LastWord(w)'
  BY <1>3, <1>4, <1>6 DEF OwnCheckpoint, LeavesLast, Recruited, AtWork, LastWord
<1>13. Invited(w)' /\ Identified(w)'
  <2>1. ~Has(toMaster[w], "WORKER_IDENTIFICATION")
    BY <1>2, <1>6 DEF SlaveInv, Identified, Has
  <2>2. ~Has(toMaster'[w], "WORKER_IDENTIFICATION")
    BY <1>8, <1>9, <2>1
  <2>3. Invited(w)'
    BY <1>1, <1>3, <2>2, InvitedTaken
  <2>. QED BY <2>2, <2>3 DEF Identified, Has
<1>14. ReportsOnce(w)' /\ SameLoad(w)
  <2>1. ~Has(toMaster[w], "REPORT_PERFORMANCE_DATA")
    BY <1>1, <1>2 DEF SlaveInv, ReportsOnce, Has
  <2>2. ReportsOnce(w)'
    BY <1>3, <1>4, <1>6, <1>9, <2>1 DEF ReportsOnce, Has
  <2>3. Has(toMaster'[w], "REPORT_PERFORMANCE_DATA")
    BY <1>8, <1>9
  <2>. QED BY <1>1, <1>4, <2>2, <2>3 DEF SameLoad
<1>. QED BY <1>10, <1>11, <1>12, <1>13, <1>14, SlaveAlone DEF SlaveInv

\* The slave is told to exit.
LEMMA TerminateStep ==
  ASSUME ProtocolInv, NEW w \in Workers, SlaveTerminate(w)
  PROVE  ProtocolInv'
<1>. DEFINE m == Head(toSlave[w])
<1>1. /\ at[w] \in {"wait", "leaving"} /\ toSlave[w] # <<>> /\ TakeOrder(w)
      /\ m.tag = "TERMINATE" /\ at' = [at EXCEPT ![w] = "exited"]
      /\ UNCHANGED <<schedVars, masterVars, serving, todo, good, bad, cache, interval, toMaster>>
  BY DEF SlaveTerminate, FromMaster
<1>2. /\ SlavesTyped /\ ChannelsTyped /\ SlaveInv(w)
      /\ at \in [Workers -> {"wait", "task", "work", "leaving", "exited"}]
  BY Types DEF ProtocolInv, SlavesTyped
<1>3. UNCHANGED <<phase, task, closing, initialized, inactive, respondents>>
  BY <1>1 DEF masterVars, schedVars
<1>4. at'[w] = "exited" /\ \A v \in Workers \ {w} : at'[v] = at[v]
  BY <1>1, <1>2
<1>5. /\ m = toSlave[w][1] /\ Len(toSlave[w]) \in Nat \ {0}
      /\ Accepts(Now(w), m) /\ Track(After(m), toSlave'[w], Due)
  BY <1>1, Reading
<1>6. toSlave'[w] = <<>> /\ Due = After(m) /\ phase = "over"
  <2>1. PICK q \in Seq(Message) : q = toSlave'[w]
    BY <1>1, Reading
  <2>2. After(m).mode = "exited"
    BY <1>1 DEF After, State
  <2>3. q = <<>>
    BY <1>5, <2>1, <2>2, TrackTaken DEF Accepts
  <2>4. Due = After(m)
    BY <1>5, <2>1, <2>3, TrackNone
  <2>5. Due.mode = "exited"
    BY <2>2, <2>4
  <2>6. phase \in {"next", "capture", "poll", "drain", "loads", "over"}
    BY Types DEF MasterTyped
  <2>7. phase = "over"
    BY <2>5, <2>6 DEF Due, State
  <2>. QED BY <2>1, <2>3, <2>4, <2>7
<1>7. TypeOK' /\ SchedInv'
  <2>1. SlavesTyped'
    BY <1>1, <1>2 DEF SlavesTyped
  <2>2. ChannelsTyped'
    BY <1>1, <1>2, Reading DEF ChannelsTyped
  <2>3. MasterTyped'
    BY <1>1, Types, SlaveKeepsTypes
  <2>4. SchedInv'
    BY <1>1, NextInv DEF ProtocolInv
  <2>. QED BY <2>1, <2>2, <2>3, <2>4, TypePartsNext DEF SchedInv
<1>8. SlaveInv(w)'
  <2>1. OrdersInTurn(w)'
    <3>1. interval[w] = 0
      BY <1>1, <1>5 DEF Accepts, Now, State
    <3>2. Now(w)' = After(m)
      BY <1>1, <1>4, <3>1 DEF Now, After, State
    <3>3. Due' = Due
      BY <1>3 DEF Due
    <3>4. Track(Now(w)', <<>>, Due')
      BY <1>6, <3>2, <3>3, TrackNone
    <3>. QED BY <1>6, <3>4 DEF OrdersInTurn
  <2>2. OwnCheckpoint(w)' /\ LeavesLast(w)' /\ Invited(w)' /\ Recruited(w)'
    BY <1>3, <1>4, <1>6 DEF OwnCheckpoint, LeavesLast, Invited, Recruited
  <2>3. Identified(w)' /\ AtWork(w)' /\ LastWord(w)'
    BY <1>1, <1>2, <1>3, <1>6 DEF SlaveInv, Identified, AtWork, LastWord
  <2>4. ReportsOnce(w)'
    BY <1>1, <1>2, <1>3, <1>4, <1>6 DEF SlaveInv, ReportsOnce
  <2>. QED BY <2>1, <2>2, <2>3, <2>4 DEF SlaveInv
<1>9. \A v \in Workers \ {w} : SlaveInv(v)'
  <2>1. \A v \in Workers \ {w} : SameFor(v)
    BY <1>1, <1>3, <1>4, Reading DEF SameFor
  <2>. QED BY <1>3, <2>1, Elsewhere DEF ProtocolInv, SameTask
<1>10. ClosingTime' /\ LoadsCounted'
  BY <1>3, <1>6 DEF ClosingTime, LoadsCounted
<1>. QED BY <1>7, <1>8, <1>9, <1>10 DEF ProtocolInv

-----------------------------------------------------------------------------
(* What the master does with one channel                                   *)

\* Reading a report.
LEMMA Hearing ==
  ASSUME ChannelsTyped, NEW w \in Workers, toMaster[w] # <<>>, TakeReport(w)
  PROVE  /\ toMaster' \in [Workers -> Seq(Message)]
         /\ \A v \in Workers \ {w} : toMaster'[v] = toMaster[v]
         /\ Head(toMaster[w]) \in Message /\ Head(toMaster[w]) = toMaster[w][1]
         /\ Len(toMaster[w]) \in Nat \ {0}
         /\ \A k \in 1 .. Len(toMaster'[w]) :
              /\ k + 1 \in 1 .. Len(toMaster[w]) /\ toMaster'[w][k] = toMaster[w][k + 1]
              /\ k + 1 = Len(toMaster[w]) => k = Len(toMaster'[w])
         /\ Len(toMaster[w]) = 1 => toMaster'[w] = <<>>
         /\ \A tag : Has(toMaster'[w], tag) => Has(toMaster[w], tag)
         /\ \A tag : Head(toMaster[w]).tag # tag
                       => (Has(toMaster'[w], tag) <=> Has(toMaster[w], tag))
<1>1. toMaster \in [Workers -> Seq(Message)]
  BY DEF ChannelsTyped
<1>2. PICK q \in Seq(Message) : q = toMaster[w]
  BY <1>1
<1>3. q # <<>>
  BY <1>2
<1>4. /\ Head(q) \in Message /\ Tail(q) \in Seq(Message) /\ Head(q) = q[1]
      /\ Len(q) \in Nat \ {0}
      /\ \A k \in 1 .. Len(Tail(q)) :
           /\ k + 1 \in 1 .. Len(q) /\ Tail(q)[k] = q[k + 1]
           /\ k + 1 = Len(q) <=> k = Len(Tail(q))
      /\ Len(q) = 1 => Tail(q) = <<>>
  BY <1>3, Taken
<1>5. toMaster' = [toMaster EXCEPT ![w] = Tail(q)]
  BY <1>2 DEF TakeReport
<1>6. toMaster'[w] = Tail(q) /\ \A v \in Workers \ {w} : toMaster'[v] = toMaster[v]
  BY <1>1, <1>5
<1>7. toMaster' \in [Workers -> Seq(Message)]
  BY <1>1, <1>4, <1>5
<1>8. /\ \A tag : Has(Tail(q), tag) => Has(q, tag)
      /\ \A tag : Head(q).tag # tag => (Has(Tail(q), tag) <=> Has(q, tag))
  BY <1>3, HasTaken
<1>. QED BY <1>2, <1>4, <1>6, <1>7, <1>8

\* Types, when the master only reads a report.
LEMMA HearingTypes ==
  ASSUME ProtocolInv, NEW w \in Workers, toMaster[w] # <<>>, TakeReport(w),
         UNCHANGED <<slaveVars, toSlave>>, MasterTyped', SchedInv'
  PROVE  TypeOK'
<1>1. SlavesTyped /\ ChannelsTyped
  BY Types
<1>2. SlavesTyped'
  BY <1>1, MasterKeepsTypes
<1>3. ChannelsTyped'
  BY <1>1, Hearing DEF ChannelsTyped
<1>. QED BY <1>2, <1>3, TypePartsNext DEF SchedInv

\* What else is left of the worker's part of the invariant when a report has
\* been read, whatever it said.
LEMMA HearingSlave ==
  ASSUME ProtocolInv, NEW w \in Workers, toMaster[w] # <<>>, TakeReport(w),
         UNCHANGED <<slaveVars, toSlave>>, SameTask,
         w \in initialized' <=> w \in initialized
  PROVE  /\ OrdersInTurn(w)' /\ OwnCheckpoint(w)' /\ LeavesLast(w)'
         /\ Invited(w)' /\ Identified(w)' /\ Recruited(w)' /\ AtWork(w)' /\ ReportsOnce(w)'
<1>1. /\ SlaveInv(w) /\ ChannelsTyped
      /\ UNCHANGED <<at, serving, interval, toSlave, phase, task, closing>>
  BY Types DEF ProtocolInv, slaveVars, SameTask
<1>2. /\ \A k \in 1 .. Len(toMaster'[w]) :
              /\ k + 1 \in 1 .. Len(toMaster[w]) /\ toMaster'[w][k] = toMaster[w][k + 1]
              /\ k + 1 = Len(toMaster[w]) => k = Len(toMaster'[w])
      /\ \A tag : Has(toMaster'[w], tag) => Has(toMaster[w], tag)
  BY <1>1, Hearing
<1>3. OrdersInTurn(w)'
  <2>1. Now(w)' = Now(w) /\ Due' = Due
    BY <1>1 DEF Now, Due, State
  <2>2. Skipped(w) => Skipped(w)'
    BY <1>1, <1>2 DEF Skipped
  <2>. QED BY <1>1, <2>1, <2>2 DEF SlaveInv, OrdersInTurn
<1>4. OwnCheckpoint(w)' /\ LeavesLast(w)' /\ Invited(w)' /\ Recruited(w)'
  BY <1>1, <1>2 DEF SlaveInv, OwnCheckpoint, LeavesLast, Invited, Recruited
<1>5. Identified(w)' /\ ReportsOnce(w)'
  BY <1>1, <1>2 DEF SlaveInv, Identified, ReportsOnce
<1>6. AtWork(w)'
  BY <1>1, <1>2 DEF SlaveInv, AtWork
<1>. QED BY <1>3, <1>4, <1>5, <1>6

\* The loops that wait for one kind of message throw the others away.
LEMMA DiscardStep ==
  ASSUME ProtocolInv, NEW w \in Workers, Discard(w)
  PROVE  ProtocolInv'
<1>1. /\ phase \in {"capture", "loads"} /\ toMaster[w] # <<>> /\ TakeReport(w)
      /\ Head(toMaster[w]).tag \notin Expected
      /\ UNCHANGED <<schedVars, masterVars, slaveVars, toSlave>>
      /\ UNCHANGED schedVars /\ UNCHANGED masterVars
  BY DEF Discard
<1>2. /\ SlaveInv(w) /\ ChannelsTyped /\ MasterTyped
      /\ UNCHANGED <<at, serving, interval, toSlave>>
      /\ UNCHANGED <<phase, task, closing, respondents, initialized, inactive, raised, queue>>
      /\ SameTask
  BY <1>1, Types DEF ProtocolInv, slaveVars, masterVars, schedVars, SameTask
<1>3. SchedInv' /\ TypeOK'
  <2>1. SchedInv'
    BY <1>1, NextInv DEF ProtocolInv
  <2>2. MasterTyped'
    BY <1>1, <1>2, SlaveKeepsTypes
  <2>. QED BY <1>1, <2>1, <2>2, HearingTypes
<1>4. SlaveInv(w)'
  <2>1. LastWord(w)'
    BY <1>1, <1>2 DEF LastWord
  <2>. QED BY <1>1, <1>2, <2>1, HearingSlave DEF SlaveInv
<1>5. SameLoad(w)
  <2>1. CASE phase = "capture"
    BY <1>2, <2>1 DEF SameLoad, SlaveInv, LeavesLast
  <2>2. CASE phase = "loads"
    <3>1. Head(toMaster[w]).tag # "REPORT_PERFORMANCE_DATA"
      BY <1>1, <2>2 DEF Expected
    <3>2. Has(toMaster'[w], "REPORT_PERFORMANCE_DATA")
            <=> Has(toMaster[w], "REPORT_PERFORMANCE_DATA")
      BY <1>1, <1>2, <3>1, Hearing
    <3>. QED BY <1>2, <3>2 DEF SameLoad
  <2>. QED BY <1>1, <2>1, <2>2
<1>6. \A v \in Workers \ {w} : SameFor(v)
  BY <1>1, <1>2, Hearing DEF SameFor
<1>7. ClosingTime'
  BY <1>2 DEF ProtocolInv, ClosingTime
<1>. QED BY <1>2, <1>3, <1>4, <1>5, <1>6, <1>7, OneSlave

\* A slave from which nothing is left to hear or to read is at work for the
\* task when the polling begins.
LEMMA Joined ==
  ASSUME NEW v \in Workers, phase' = "poll", ~closing', v \notin inactive',
         toMaster'[v] = <<>>, toSlave'[v] = <<>>,
         at'[v] = "task", serving'[v] = task', interval'[v] = C(task')
  PROVE  SlaveInv(v)'
<1>1. OrdersInTurn(v)'
  <2>1. Now(v)' = Due'
    BY DEF Now, Due, State, C
  <2>2. Track(Now(v)', <<>>, Due')
    BY <2>1, TrackNone
  <2>. QED BY <2>2 DEF OrdersInTurn
<1>2. OwnCheckpoint(v)' /\ LeavesLast(v)' /\ Invited(v)' /\ Identified(v)' /\ Recruited(v)'
  BY HasNone DEF OwnCheckpoint, C, LeavesLast, Invited, Identified, Recruited
<1>3. AtWork(v)' /\ LastWord(v)' /\ ReportsOnce(v)'
  BY DEF AtWork, LastWord, ReportsOnce
<1>. QED BY <1>1, <1>2, <1>3 DEF SlaveInv

\* capture_worker_properties(): the last worker to identify itself starts the
\* polling, and by then every channel is empty.
LEMMA CaptureStep ==
  ASSUME ProtocolInv, NEW w \in Workers, NEW kind \in Kinds, Capture(w, kind)
  PROVE  ProtocolInv'
<1>1. /\ phase = "capture" /\ toMaster[w] # <<>> /\ TakeReport(w)
      /\ Head(toMaster[w]).tag = "WORKER_IDENTIFICATION"
      /\ InitializeWorker(w, kind)
      /\ phase' = IF waiting' = 0 THEN "poll" ELSE phase
      /\ UNCHANGED <<task, closing, aggregations, stored, failures, dropped,
                     success, result, respondents, slaveVars, toSlave>>
  BY DEF Capture, FromSlave, Captured
<1>2. /\ SlaveInv(w) /\ ChannelsTyped /\ MasterTyped /\ SchedInv
      /\ UNCHANGED <<at, serving, interval, toSlave>>
  BY <1>1, Types DEF ProtocolInv, slaveVars
<1>3. /\ toMaster[w][1].tag = "WORKER_IDENTIFICATION" /\ Len(toMaster[w]) \in Nat \ {0}
      /\ Len(toMaster[w]) = 1 => toMaster'[w] = <<>>
      /\ \A v \in Workers \ {w} : toMaster'[v] = toMaster[v]
  BY <1>1, <1>2, Hearing
<1>4. /\ toMaster'[w] = <<>> /\ toSlave[w] = <<>> /\ at[w] = "task" /\ serving[w] = task
      /\ w \notin initialized
  <2>1. 1 \in 1 .. Len(toMaster[w])
    BY <1>3
  <2>. QED BY <1>2, <1>3, <2>1 DEF SlaveInv, Identified
<1>5. /\ initialized' = initialized \cup {w} /\ waiting' = waiting - 1
      /\ UNCHANGED <<queue, assigned, inactive, raised, wanted>>
  BY <1>1, <1>4 DEF InitializeWorker
<1>6. SchedInv'
  BY <1>1, <1>2, InitializeWorkerInv
<1>7. TypeOK'
  <2>1. MasterTyped'
    BY <1>1, <1>2 DEF MasterTyped
  <2>. QED BY <1>1, <1>6, <2>1, HearingTypes
<1>8. ~closing' /\ inactive' = {}
  BY <1>1, <1>5 DEF ProtocolInv, ClosingTime
<1>9. CASE waiting' = 0
  <2>1. initialized' = Workers
    <3>1. CountersAgree' /\ SchedTypeOK' /\ initialized' # {}
      BY <1>5, <1>6 DEF SchedInv
    <3>2. Cardinality(Workers \ initialized') = 0
      BY <1>9, <3>1 DEF CountersAgree
    <3>3. IsFiniteSet(Workers \ initialized')
      BY FinitePool
    <3>4. Workers \ initialized' = {}
      BY <3>2, <3>3, FS_EmptySet
    <3>. QED BY <3>1, <3>4 DEF SchedTypeOK
  <2>2. phase' = "poll" /\ task' = task
    BY <1>1, <1>9
  <2>3. ASSUME NEW v \in Workers PROVE SlaveInv(v)'
    <3>1. /\ toMaster'[v] = <<>> /\ toSlave[v] = <<>> /\ at[v] = "task" /\ serving[v] = task
      <4>1. CASE v = w
        BY <1>4, <4>1
      <4>2. CASE v # w
        BY <1>1, <1>3, <1>5, <2>1, <4>2 DEF ProtocolInv, SlaveInv, Recruited
      <4>. QED BY <4>1, <4>2
    <3>2. interval[v] = C(task)
      BY <3>1 DEF ProtocolInv, SlaveInv, OwnCheckpoint
    <3>. QED BY <1>2, <1>8, <2>2, <3>1, <3>2, Joined
  <2>4. ClosingTime' /\ LoadsCounted'
    BY <1>1, <1>8, <2>1, <2>2 DEF ProtocolInv, ClosingTime, LoadsCounted
  <2>. QED BY <1>6, <1>7, <2>3, <2>4 DEF ProtocolInv
<1>10. CASE waiting' # 0
  <2>1. SameTask /\ UNCHANGED respondents
    BY <1>1, <1>10 DEF SameTask
  <2>2. SlaveInv(w)'
    <3>1. OrdersInTurn(w)'
      <4>1. Track(Now(w), toSlave[w], Due)
        BY <1>2, <1>4 DEF SlaveInv, OrdersInTurn, Skipped
      <4>2. Now(w)' = Now(w) /\ Due' = Due
        BY <1>2, <2>1 DEF Now, Due, State, SameTask
      <4>. QED BY <1>2, <4>1, <4>2 DEF OrdersInTurn
    <3>2. OwnCheckpoint(w)' /\ LeavesLast(w)' /\ Invited(w)' /\ Identified(w)' /\ Recruited(w)'
      BY <1>2, <1>4, <2>1, HasNone
      DEF SlaveInv, OwnCheckpoint, LeavesLast, Invited, Identified, Recruited, SameTask
    <3>3. AtWork(w)' /\ LastWord(w)' /\ ReportsOnce(w)'
      BY <1>1, <1>4, <2>1 DEF AtWork, LastWord, ReportsOnce, SameTask
    <3>. QED BY <3>1, <3>2, <3>3 DEF SlaveInv
  <2>3. \A v \in Workers \ {w} : SameFor(v)
    BY <1>2, <1>3, <1>5 DEF SameFor
  <2>4. SameLoad(w)
    BY <1>2, <1>4 DEF SameLoad
  <2>5. ClosingTime'
    BY <1>1, <1>8, <2>1 DEF ClosingTime, SameTask
  <2>. QED BY <1>6, <1>7, <2>1, <2>2, <2>3, <2>4, <2>5, OneSlave
<1>. QED BY <1>9, <1>10

\* What poll_workers() hears, apart from the last word.
LEMMA PollStep ==
  ASSUME ProtocolInv, NEW w \in Workers, phase = "poll", toMaster[w] # <<>>,
         TakeReport(w), Head(toMaster[w]).tag # "WORKER_CLOSE_DOWN",
         UNCHANGED <<slaveVars, toSlave>>, SameTask, MasterTyped', SchedInv',
         UNCHANGED <<initialized, inactive, queue, respondents>>, raised = "none"
  PROVE  ProtocolInv'
<1>1. /\ SlaveInv(w) /\ ChannelsTyped /\ UNCHANGED <<at, serving, interval, toSlave>>
      /\ UNCHANGED <<phase, task, closing>>
  BY Types DEF ProtocolInv, slaveVars, SameTask
<1>2. /\ \A v \in Workers \ {w} : toMaster'[v] = toMaster[v]
      /\ \A k \in 1 .. Len(toMaster'[w]) :
              /\ k + 1 \in 1 .. Len(toMaster[w]) /\ toMaster'[w][k] = toMaster[w][k + 1]
              /\ k + 1 = Len(toMaster[w]) => k = Len(toMaster'[w])
      /\ Has(toMaster'[w], "WORKER_CLOSE_DOWN") <=> Has(toMaster[w], "WORKER_CLOSE_DOWN")
  BY <1>1, Hearing
<1>3. TypeOK'
  BY HearingTypes
<1>4. LastWord(w)'
  BY <1>1, <1>2 DEF SlaveInv, LastWord
<1>5. SlaveInv(w)'
  BY <1>4, HearingSlave DEF SlaveInv
<1>6. \A v \in Workers \ {w} : SameFor(v)
  BY <1>1, <1>2 DEF SameFor
<1>7. SameLoad(w)
  BY <1>1 DEF SlaveInv, LeavesLast, SameLoad
<1>8. ClosingTime'
  BY <1>1 DEF ProtocolInv, ClosingTime
<1>. QED BY <1>3, <1>5, <1>6, <1>7, <1>8, OneSlave

\* DATA_READY: the container joins the aggregation queue.
LEMMA ReceiveDataStep ==
  ASSUME ProtocolInv, NEW w \in Workers, ReceiveData(w)
  PROVE  ProtocolInv'
<1>1. /\ phase = "poll" /\ raised = "none" /\ toMaster[w] # <<>> /\ TakeReport(w)
      /\ Head(toMaster[w]).tag = "DATA_READY"
      /\ aggregations' = Append(aggregations, Head(toMaster[w]).items)
      /\ UNCHANGED <<phase, task, closing, stored, failures, dropped, success,
                     result, respondents, slaveVars, toSlave>>
      /\ UNCHANGED schedVars
  BY DEF ReceiveData, FromSlave, Polling
<1>2. SameTask /\ UNCHANGED <<initialized, inactive, queue, respondents, raised>>
  BY <1>1 DEF SameTask, schedVars
<1>3. SchedInv'
  BY <1>1, NextInv DEF ProtocolInv
<1>4. MasterTyped'
  <2>1. MasterTyped /\ Head(toMaster[w]).items \in SUBSET Items
    BY <1>1, Types, HeadTyped
  <2>2. aggregations' \in Seq(SUBSET Items)
    BY <1>1, <2>1, AppendProperties DEF MasterTyped
  <2>. QED BY <1>1, <2>1, <2>2 DEF MasterTyped
<1>. QED BY <1>1, <1>2, <1>3, <1>4, PollStep

\* FINISHED and FAIL: the worker is released and its failures are merged.
LEMMA ReceiveFinishedStep ==
  ASSUME ProtocolInv, NEW w \in Workers, ReceiveFinished(w)
  PROVE  ProtocolInv'
<1>. DEFINE m == Head(toMaster[w])
<1>1. /\ phase = "poll" /\ raised = "none" /\ toMaster[w] # <<>> /\ TakeReport(w)
      /\ m.tag \in {"FINISHED", "FAIL"} /\ MarkUnassigned(w, m.n)
      /\ failures' = failures \cup m.items
      /\ success' = (success /\ m.tag = "FINISHED")
      /\ UNCHANGED <<phase, task, closing, aggregations, stored, dropped, result,
                     respondents, slaveVars, toSlave>>
  BY DEF ReceiveFinished, FromSlave, Polling
<1>2. SameTask /\ UNCHANGED <<initialized, inactive, queue, respondents>>
  BY <1>1 DEF SameTask, MarkUnassigned
<1>3. SchedInv'
  <2>1. ChannelsTyped /\ SchedInv
    BY Types
  <2>2. PICK n \in Nat : n = m.n
    BY <1>1, <2>1, HeadTyped
  <2>3. MarkUnassigned(w, n)
    BY <1>1, <2>2
  <2>. QED BY <2>1, <2>3, MarkUnassignedInv
<1>4. MasterTyped'
  <2>1. MasterTyped /\ m.items \in SUBSET Items
    BY <1>1, Types, HeadTyped
  <2>. QED BY <1>1, <2>1 DEF MasterTyped
<1>. QED BY <1>1, <1>2, <1>3, <1>4, PollStep

\* The last word of a slave, after which its channel is empty.
LEMMA ReceiveCloseDownStep ==
  ASSUME ProtocolInv, NEW w \in Workers, ReceiveCloseDown(w)
  PROVE  ProtocolInv'
<1>1. /\ phase = "poll" /\ raised = "none" /\ toMaster[w] # <<>> /\ TakeReport(w)
      /\ Head(toMaster[w]).tag = "WORKER_CLOSE_DOWN" /\ MarkInactive(w)
      /\ UNCHANGED <<masterVars, slaveVars, toSlave>>
  BY DEF ReceiveCloseDown, FromSlave, Polling
<1>2. /\ SlaveInv(w) /\ ChannelsTyped /\ SchedInv /\ MasterTyped
      /\ UNCHANGED <<at, serving, interval, toSlave>>
      /\ UNCHANGED <<phase, task, closing, respondents>> /\ UNCHANGED masterVars
  BY <1>1, Types DEF ProtocolInv, slaveVars, masterVars
<1>3. /\ toMaster[w][1].tag = "WORKER_CLOSE_DOWN" /\ Len(toMaster[w]) \in Nat \ {0}
      /\ Len(toMaster[w]) = 1 => toMaster'[w] = <<>>
      /\ \A v \in Workers \ {w} : toMaster'[v] = toMaster[v]
  BY <1>1, <1>2, Hearing
<1>4. at[w] = "wait" /\ toMaster'[w] = <<>> /\ w \notin inactive
  <2>1. 1 \in 1 .. Len(toMaster[w])
    BY <1>3
  <2>. QED BY <1>1, <1>2, <1>3, <2>1 DEF SlaveInv, LastWord
<1>5. inactive' = inactive \cup {w} /\ UNCHANGED <<initialized, queue>>
  BY <1>1, <1>4 DEF MarkInactive
<1>6. SchedInv'
  BY <1>1, <1>2, MarkInactiveInv
<1>7. TypeOK'
  BY <1>1, <1>2, <1>6, SlaveKeepsTypes, HearingTypes
<1>8. SlaveInv(w)'
  <2>1. LastWord(w)'
    BY <1>2, <1>4, <1>5 DEF LastWord
  <2>2. SameTask /\ UNCHANGED <<slaveVars, toSlave>>
    BY <1>1, <1>2 DEF SameTask
  <2>. QED BY <1>1, <1>5, <2>1, <2>2, HearingSlave DEF SlaveInv
<1>9. \A v \in Workers \ {w} : SameFor(v)
  BY <1>2, <1>3, <1>5 DEF SameFor
<1>10. SameLoad(w) /\ SameTask
  BY <1>2, <1>4 DEF SameLoad, SameTask
<1>11. ClosingTime'
  BY <1>1, <1>2, <1>5 DEF ProtocolInv, ClosingTime
<1>. QED BY <1>2, <1>6, <1>7, <1>8, <1>9, <1>10, <1>11, OneSlave

\* compute_worker_loads()
LEMMA ReceiveLoadStep ==
  ASSUME ProtocolInv, NEW w \in Workers, ReceiveLoad(w)
  PROVE  ProtocolInv'
<1>1. /\ phase = "loads" /\ toMaster[w] # <<>> /\ TakeReport(w)
      /\ Head(toMaster[w]).tag = "REPORT_PERFORMANCE_DATA"
      /\ respondents' = respondents + 1
      /\ UNCHANGED <<phase, task, closing, aggregations, stored, failures, dropped,
                     success, result, slaveVars, toSlave>>
      /\ UNCHANGED schedVars
  BY DEF ReceiveLoad, FromSlave
<1>2. /\ SlaveInv(w) /\ ChannelsTyped /\ MasterTyped
      /\ UNCHANGED <<at, serving, interval, toSlave>>
      /\ UNCHANGED <<initialized, inactive, queue, raised>>
  BY <1>1, Types DEF ProtocolInv, slaveVars, schedVars
<1>3. /\ toMaster[w][1].tag = "REPORT_PERFORMANCE_DATA" /\ Len(toMaster[w]) \in Nat \ {0}
      /\ Len(toMaster[w]) = 1 => toMaster'[w] = <<>>
      /\ \A v \in Workers \ {w} : toMaster'[v] = toMaster[v]
  BY <1>1, <1>2, Hearing
<1>4. /\ at[w] \in {"leaving", "exited"} /\ toMaster'[w] = <<>>
      /\ Has(toMaster[w], "REPORT_PERFORMANCE_DATA")
  <2>1. 1 \in 1 .. Len(toMaster[w])
    BY <1>3
  <2>. QED BY <1>2, <1>3, <2>1 DEF SlaveInv, ReportsOnce, Has
<1>5. /\ w \notin Respondents /\ Respondents' = Respondents \cup {w}
      /\ Respondents' \subseteq Workers /\ Respondents \in SUBSET Workers
  <2>1. \A v \in Workers \ {w} : v \in Respondents' <=> v \in Respondents
    BY <1>2, <1>3 DEF Respondents
  <2>2. w \notin Respondents /\ w \in Respondents'
    BY <1>2, <1>4, HasNone DEF Respondents
  <2>3. Respondents' \subseteq Workers /\ Respondents \in SUBSET Workers
    BY DEF Respondents
  <2>. QED BY <2>1, <2>2, <2>3
<1>6. /\ respondents' = Cardinality(Respondents')
      /\ respondents' \in 0 .. Cardinality(Workers)
  <2>1. respondents = Cardinality(Respondents)
    BY <1>1 DEF ProtocolInv, LoadsCounted
  <2>2. respondents' = Cardinality(Respondents')
    BY <1>1, <1>5, <2>1, OneWorker
  <2>3. Cardinality(Respondents') \in Nat /\ Cardinality(Workers) \in Nat
    BY <1>5, FinitePool
  <2>4. Cardinality(Respondents') <= Cardinality(Workers)
    BY <1>5, WorkersAssumption, FS_Subset
  <2>. QED BY <2>2, <2>3, <2>4
<1>7. SchedInv'
  BY <1>1, NextInv DEF ProtocolInv
<1>8. TypeOK'
  <2>1. MasterTyped'
    BY <1>1, <1>2, <1>6 DEF MasterTyped
  <2>. QED BY <1>1, <1>7, <2>1, HearingTypes
<1>9. SameTask /\ UNCHANGED <<slaveVars, toSlave>>
  BY <1>1 DEF SameTask
<1>10. SlaveInv(w)'
  <2>1. LastWord(w)'
    BY <1>1 DEF LastWord
  <2>. QED BY <1>1, <1>2, <1>9, <2>1, HearingSlave DEF SlaveInv
<1>11. \A v \in Workers \ {w} : SlaveInv(v)'
  <2>1. \A v \in Workers \ {w} : SameFor(v)
    BY <1>2, <1>3 DEF SameFor
  <2>. QED BY <1>9, <2>1, Elsewhere DEF ProtocolInv
<1>12. ClosingTime' /\ LoadsCounted'
  BY <1>1, <1>6 DEF ClosingTime, LoadsCounted
<1>. QED BY <1>7, <1>8, <1>10, <1>11, <1>12 DEF ProtocolInv

\* An assignment goes to a worker that is due to be in its task.
LEMMA PushStep ==
  ASSUME ProtocolInv, NEW w \in Workers, PushAssignment(w)
  PROVE  ProtocolInv'
<1>. DEFINE m == Msg("NEW_WORK_ASSIGNMENT", plan[w], 0)
<1>1. /\ phase = "poll" /\ raised = "none" /\ plan[w] # {} /\ MarkAssigned(w)
      /\ toSlave' = [toSlave EXCEPT ![w] = Append(@, m)]
      /\ UNCHANGED <<masterVars, slaveVars, toMaster>>
      /\ UNCHANGED masterVars /\ UNCHANGED slaveVars
  BY DEF PushAssignment, Polling, MarkAssigned
<1>2. /\ SlaveInv(w) /\ SlavesTyped /\ ChannelsTyped /\ SchedInv /\ MasterTyped
      /\ UNCHANGED <<at, serving, interval, toMaster>>
      /\ UNCHANGED <<phase, task, closing, respondents>>
      /\ task \in 0 .. NumTasks /\ plan[w] \in SUBSET Items
  BY <1>1, Types DEF ProtocolInv, slaveVars, masterVars, SchedTypeOK
<1>3. UNCHANGED <<initialized, inactive>>
  BY <1>1 DEF MarkAssigned
<1>4. ~closing
  <2>1. plan[w] \subseteq queue
    BY <1>1, <1>2 DEF SchedInv, PlanSound
  <2>. QED BY <1>1, <2>1 DEF ProtocolInv, ClosingTime
<1>5. m \in Message /\ m.tag = "NEW_WORK_ASSIGNMENT" /\ m.task = task
  <2>1. "NEW_WORK_ASSIGNMENT" \in Tags
    BY DEF Tags
  <2>. QED BY <1>2, <2>1, MsgTyped
<1>. HIDE DEF m
<1>6. PICK q \in Seq(Message) : q = toSlave[w]
  BY <1>2 DEF ChannelsTyped
<1>7. PICK r \in Seq(Message) : r = Append(q, m)
  BY <1>5, Put
<1>8. /\ toSlave'[w] = r /\ \A v \in Workers \ {w} : toSlave'[v] = toSlave[v]
      /\ toSlave' \in [Workers -> Seq(Message)]
  <2>1. toSlave' = [toSlave EXCEPT ![w] = r]
    BY <1>1, <1>6, <1>7
  <2>. QED BY <1>2, <2>1 DEF ChannelsTyped
<1>9. /\ Len(q) \in Nat /\ Len(r) = Len(q) + 1
      /\ \A k \in 1 .. Len(q) : r[k] = q[k]
      /\ r[Len(q) + 1] = m
      /\ \A tag : Has(r, tag) <=> Has(q, tag) \/ m.tag = tag
  BY <1>5, <1>7, Put, HasPut
<1>10. SchedInv'
  BY <1>1, <1>2, MarkAssignedInv
<1>11. TypeOK'
  <2>1. ChannelsTyped'
    BY <1>2, <1>8 DEF ChannelsTyped
  <2>. QED BY <1>1, <1>2, <1>10, <2>1, SlaveKeepsTypes, MasterKeepsTypes, TypePartsNext
       DEF SchedInv
<1>12. OrdersInTurn(w)'
  <2>1. Track(Now(w), q, Due)
    BY <1>1, <1>2, <1>6 DEF SlaveInv, OrdersInTurn, Skipped
  <2>2. Due = State("task", task, C(task))
    BY <1>1, <1>4 DEF Due
  <2>3. Accepts(Due, m) /\ After(m) = Due
    BY <1>5, <2>2 DEF Accepts, After, State
  <2>4. Track(Now(w), r, Due)
    BY <1>5, <1>7, <2>1, <2>3, TrackPut
  <2>5. Now(w)' = Now(w) /\ Due' = Due
    BY <1>2 DEF Now, Due, State
  <2>. QED BY <1>8, <2>4, <2>5 DEF OrdersInTurn
<1>13. OwnCheckpoint(w)' /\ LeavesLast(w)' /\ Identified(w)' /\ Recruited(w)'
  <2>1. LeavesLast(w)'
    BY <1>1, <1>2, <1>5, <1>6, <1>8, <1>9 DEF SlaveInv, LeavesLast
  <2>. QED BY <1>1, <1>2, <2>1 DEF SlaveInv, OwnCheckpoint, Identified, Recruited
<1>14. Invited(w)' /\ AtWork(w)'
  <2>1. ASSUME NEW k \in 1 .. Len(r) PROVE r[k].tag \in {"NEW_WORK_ASSIGNMENT", "END_OF_WORK"}
    <3>1. k \in 1 .. Len(q) \/ k = Len(q) + 1
      BY <1>9
    <3>. QED BY <1>1, <1>2, <1>5, <1>6, <1>9, <3>1 DEF SlaveInv, AtWork
  <2>. QED BY <1>1, <1>2, <1>8, <2>1 DEF SlaveInv, AtWork, Invited
<1>15. LastWord(w)' /\ ReportsOnce(w)' /\ SameLoad(w)
  BY <1>2, <1>3 DEF SlaveInv, LastWord, ReportsOnce, SameLoad
<1>16. \A v \in Workers \ {w} : SameFor(v)
  BY <1>2, <1>3, <1>8 DEF SameFor
<1>17. ClosingTime' /\ SameTask
  BY <1>1, <1>2, <1>3, <1>4 DEF ProtocolInv, ClosingTime, SameTask
<1>. QED BY <1>2, <1>10, <1>11, <1>12, <1>13, <1>14, <1>15, <1>16, <1>17, OneSlave DEF SlaveInv

-----------------------------------------------------------------------------
(* What the master does by itself                                          *)

\* assign_work(): a plan changes neither channels nor flags.
LEMMA PlanStep ==
  ASSUME ProtocolInv, Plan
  PROVE  ProtocolInv'
<1>1. /\ phase = "poll" /\ raised = "none" /\ AssignWork
      /\ UNCHANGED masterVars /\ UNCHANGED slaveVars /\ UNCHANGED <<toSlave, toMaster>>
  BY DEF Plan, Polling
<1>2. /\ SchedInv /\ MasterTyped /\ SlavesTyped /\ ChannelsTyped
      /\ UNCHANGED <<at, serving, interval, phase, task, closing, respondents>>
  BY <1>1, Types DEF masterVars, slaveVars
<1>3. UNCHANGED <<initialized, inactive, queue>>
  BY <1>1 DEF AssignWork
<1>4. SchedInv'
  BY <1>1, <1>2, AssignWorkInv
<1>5. TypeOK'
  <2>1. ChannelsTyped'
    BY <1>1, <1>2 DEF ChannelsTyped
  <2>. QED BY <1>1, <1>2, <1>4, <2>1, SlaveKeepsTypes, MasterKeepsTypes, TypePartsNext
       DEF SchedInv
<1>6. \A v \in Workers : SlaveInv(v)'
  <2>1. SameTask /\ \A v \in Workers : SameFor(v)
    BY <1>1, <1>2, <1>3 DEF SameTask, SameFor
  <2>. QED BY <2>1, Elsewhere DEF ProtocolInv
<1>7. ClosingTime' /\ LoadsCounted'
  BY <1>1, <1>2, <1>3 DEF ProtocolInv, ClosingTime, LoadsCounted
<1>. QED BY <1>4, <1>5, <1>6, <1>7 DEF ProtocolInv

\* One container is aggregated or given up.
LEMMA AggregateStep ==
  ASSUME ProtocolInv, Aggregate
  PROVE  ProtocolInv'
<1>1. /\ phase \in {"poll", "drain"} /\ aggregations # <<>>
      /\ aggregations' = Tail(aggregations)
      /\ stored' \in {stored, stored \cup Head(aggregations)}
      /\ dropped' \in {dropped, dropped \cup Head(aggregations)}
      /\ UNCHANGED schedVars /\ UNCHANGED slaveVars
      /\ UNCHANGED <<phase, task, closing, failures, success, result, respondents,
                     toSlave, toMaster>>
  BY DEF Aggregate, Polling, Rest
<1>2. /\ SchedInv /\ MasterTyped /\ SlavesTyped /\ ChannelsTyped
      /\ UNCHANGED <<at, serving, interval, initialized, inactive, queue, raised>>
  BY <1>1, Types DEF schedVars, slaveVars
<1>3. SchedInv'
  BY <1>1, <1>2, NextInv
<1>4. TypeOK'
  <2>1. aggregations \in Seq(SUBSET Items)
    BY <1>2 DEF MasterTyped
  <2>2. Head(aggregations) \in SUBSET Items /\ aggregations' \in Seq(SUBSET Items)
    BY <1>1, <2>1, HeadTailProperties
  <2>3. stored' \in SUBSET Items /\ dropped' \in SUBSET Items
    BY <1>1, <1>2, <2>2 DEF MasterTyped
  <2>4. MasterTyped'
    BY <1>1, <1>2, <2>2, <2>3 DEF MasterTyped
  <2>5. ChannelsTyped'
    BY <1>1, <1>2 DEF ChannelsTyped
  <2>. QED BY <1>1, <1>2, <1>3, <2>4, <2>5, MasterKeepsTypes, TypePartsNext DEF SchedInv
<1>5. \A v \in Workers : SlaveInv(v)'
  <2>1. SameTask /\ \A v \in Workers : SameFor(v)
    BY <1>1, <1>2 DEF SameTask, SameFor
  <2>. QED BY <2>1, Elsewhere DEF ProtocolInv
<1>6. ClosingTime' /\ LoadsCounted'
  BY <1>1, <1>2 DEF ProtocolInv, ClosingTime, LoadsCounted
<1>. QED BY <1>3, <1>4, <1>5, <1>6 DEF ProtocolInv

\* The loop ends when the counter says that nobody is active, and the counter
\* is right.
LEMMA EndPollingStep ==
  ASSUME ProtocolInv, EndPolling
  PROVE  ProtocolInv'
<1>1. /\ phase = "poll" /\ phase' = "drain" /\ raised = "none" /\ active = 0
      /\ UNCHANGED schedVars /\ UNCHANGED slaveVars
      /\ UNCHANGED <<task, closing, aggregations, stored, failures, dropped, success,
                     result, respondents, toSlave, toMaster>>
  BY DEF EndPolling, Polling, AllInactive
<1>2. /\ SchedInv /\ SchedTypeOK /\ MasterTyped /\ SlavesTyped /\ ChannelsTyped
      /\ UNCHANGED <<at, serving, interval, initialized, inactive, queue, raised>>
  BY <1>1, Types DEF schedVars, slaveVars
<1>3. SchedInv'
  BY <1>1, <1>2, NextInv
<1>4. TypeOK'
  <2>1. MasterTyped' /\ ChannelsTyped'
    BY <1>1, <1>2 DEF MasterTyped, ChannelsTyped
  <2>. QED BY <1>1, <1>2, <1>3, <2>1, MasterKeepsTypes, TypePartsNext DEF SchedInv
<1>5. initialized = Workers /\ inactive = Workers
  <2>1. initialized = Workers
    BY <1>1 DEF ProtocolInv, ClosingTime
  <2>2. Cardinality(Workers \ inactive) = 0
    BY <1>1, <1>2, <2>1 DEF SchedInv, CountersAgree
  <2>3. Workers \ inactive = {}
    <3>1. IsFiniteSet(Workers \ inactive)
      BY FinitePool
    <3>. QED BY <2>2, <3>1, FS_EmptySet
  <2>. QED BY <1>2, <2>1, <2>3 DEF SchedTypeOK
<1>6. ASSUME NEW v \in Workers PROVE SlaveInv(v)'
  <2>1. SlaveInv(v)
    BY DEF ProtocolInv
  <2>2. OrdersInTurn(v)'
    <3>1. Now(v)' = Now(v) /\ Due' = Due /\ ~Skipped(v)
      BY <1>1, <1>2 DEF Now, Due, State, Skipped
    <3>. QED BY <1>1, <2>1, <3>1 DEF SlaveInv, OrdersInTurn
  <2>3. OwnCheckpoint(v)' /\ LeavesLast(v)' /\ Invited(v)' /\ Identified(v)' /\ Recruited(v)'
    BY <1>1, <1>2, <2>1
    DEF SlaveInv, OwnCheckpoint, LeavesLast, Invited, Identified, Recruited
  <2>4. AtWork(v)' /\ LastWord(v)' /\ ReportsOnce(v)'
    BY <1>1, <1>2, <2>1 DEF SlaveInv, AtWork, LastWord, ReportsOnce
  <2>. QED BY <2>2, <2>3, <2>4 DEF SlaveInv
<1>7. ClosingTime' /\ LoadsCounted'
  BY <1>1, <1>2, <1>5 DEF ProtocolInv, ClosingTime, LoadsCounted
<1>. QED BY <1>3, <1>4, <1>6, <1>7 DEF ProtocolInv

-----------------------------------------------------------------------------
(* What the master tells every slave                                       *)

\* A broadcast of nothing ...
LEMMA TellNone ==
  ASSUME ChannelsTyped, Broadcast(<<>>)
  PROVE  toSlave' = toSlave
<1>1. \A w \in Workers : toSlave[w] \o <<>> = toSlave[w]
  BY PutNone DEF ChannelsTyped
<1>. QED BY <1>1 DEF Broadcast, ChannelsTyped

\* ... of one message ...
LEMMA TellOne ==
  ASSUME ChannelsTyped, NEW a \in Message, Broadcast(<<a>>)
  PROVE  /\ ChannelsTyped' <=> toMaster' \in [Workers -> Seq(Message)]
         /\ \A w \in Workers : toSlave'[w] = Append(toSlave[w], a)
<1>1. \A w \in Workers : /\ toSlave[w] \o <<a>> = Append(toSlave[w], a)
                         /\ Append(toSlave[w], a) \in Seq(Message)
  BY Put DEF ChannelsTyped
<1>2. toSlave' = [w \in Workers |-> Append(toSlave[w], a)]
  BY <1>1 DEF Broadcast
<1>. QED BY <1>1, <1>2 DEF ChannelsTyped

\* ... and of two.
LEMMA TellTwo ==
  ASSUME ChannelsTyped, NEW a \in Message, NEW b \in Message, Broadcast(<<a, b>>)
  PROVE  /\ ChannelsTyped' <=> toMaster' \in [Workers -> Seq(Message)]
         /\ \A w \in Workers : toSlave'[w] = Append(Append(toSlave[w], a), b)
<1>1. ASSUME NEW w \in Workers
      PROVE  /\ toSlave[w] \o <<a, b>> = Append(Append(toSlave[w], a), b)
             /\ Append(Append(toSlave[w], a), b) \in Seq(Message)
  <2>1. PICK q \in Seq(Message) : q = toSlave[w]
    BY DEF ChannelsTyped
  <2>2. Append(q, a) \in Seq(Message)
    BY Put
  <2>3. Append(Append(q, a), b) \in Seq(Message)
    BY <2>2, Put
  <2>. QED BY <2>1, <2>3, PutTwo
<1>2. toSlave' = [w \in Workers |-> Append(Append(toSlave[w], a), b)]
  BY <1>1 DEF Broadcast
<1>. QED BY <1>1, <1>2 DEF ChannelsTyped

\* Orders of the task, with its number.
Numbered(tag, t) == [Order(tag) EXCEPT !.task = t]

\* A numbered order is a message that carries its number.
LEMMA NumberedTyped ==
  ASSUME task \in 0 .. NumTasks, NEW t \in 0 .. NumTasks, NEW tag \in Tags
  PROVE  Numbered(tag, t) \in Message /\ Numbered(tag, t).tag = tag
         /\ Numbered(tag, t).task = t
BY OrderTyped DEF Numbered

\* Two messages in a row.
LEMMA TwoInARow ==
  ASSUME NEW a, NEW b
  PROVE  <<a>> \o <<b>> = <<a, b>>
<1>. DEFINE S == {a, b}
            s == <<a>> \o <<b>>
            t == <<a, b>>
<1>1. <<a>> \in Seq(S) /\ <<b>> \in Seq(S) /\ Len(<<a>>) = 1 /\ Len(<<b>>) = 1
  OBVIOUS
<1>2. /\ s \in Seq(S) /\ Len(s) = 1 + 1
      /\ \A i \in 1 .. 1 + 1 : s[i] = IF i <= 1 THEN <<a>>[i] ELSE <<b>>[i - 1]
  BY <1>1, ConcatProperties
<1>3. t \in Seq(S) /\ Len(t) = 2
  OBVIOUS
<1>4. s[1] = a /\ s[2] = b
  BY <1>2
<1>5. \A i \in 1 .. Len(s) : s[i] = t[i]
  BY <1>2, <1>4
<1>6. Len(s) = Len(t)
  BY <1>2, <1>3
<1>. HIDE DEF s, t
<1>7. s = t
  BY <1>2, <1>3, <1>5, <1>6, SeqEqual
<1>. QED BY <1>7 DEF s, t

\* Nothing before or after a message.
LEMMA NothingFirst ==
  ASSUME NEW a
  PROVE  <<>> \o <<a>> = <<a>> /\ <<a>> \o <<>> = <<a>>
<1>1. <<a>> \in Seq({a})
  OBVIOUS
<1>. QED BY <1>1, ConcatEmptySeq

\* Nothing after nothing.
LEMMA NothingTwice == <<>> \o <<>> = <<>>
<1>1. <<>> \in Seq({0})
  BY EmptySeq
<1>. QED BY <1>1, ConcatEmptySeq

\* The mail of a task's beginning and of its end.
LEMMA OpeningMail ==
  ASSUME NEW t
  PROVE  Stamped(IfCheckpointed(t, <<"SET_LOCAL_CHECKPOINT">>) \o <<"NEW_TASK">>, t)
           = IF t \in Checkpointed
             THEN <<Numbered("SET_LOCAL_CHECKPOINT", t), Numbered("NEW_TASK", t)>>
             ELSE <<Numbered("NEW_TASK", t)>>
<1>1. CASE t \in Checkpointed
  <2>1. IfCheckpointed(t, <<"SET_LOCAL_CHECKPOINT">>) \o <<"NEW_TASK">>
          = <<"SET_LOCAL_CHECKPOINT", "NEW_TASK">>
    BY <1>1, TwoInARow DEF IfCheckpointed
  <2>2. Stamped(<<"SET_LOCAL_CHECKPOINT", "NEW_TASK">>, t)
          = <<[Order("SET_LOCAL_CHECKPOINT") EXCEPT !.task = t],
              [Order("NEW_TASK") EXCEPT !.task = t]>>
    BY DEF Stamped
  <2>. QED BY <1>1, <2>1, <2>2 DEF Numbered
<1>2. CASE t \notin Checkpointed
  <2>1. IfCheckpointed(t, <<"SET_LOCAL_CHECKPOINT">>) \o <<"NEW_TASK">> = <<"NEW_TASK">>
    BY <1>2, NothingFirst DEF IfCheckpointed
  <2>. QED BY <1>2, <2>1 DEF Stamped, Numbered
<1>. QED BY <1>1, <1>2

\* The interval is taken back at the end of a task ...
LEMMA ClosingMail ==
  ASSUME NEW t
  PROVE  Stamped(CheckpointLeft(t), t)
           = IF t \in Checkpointed THEN <<Numbered("UNSET_LOCAL_CHECKPOINT", t)>> ELSE <<>>
BY DEF Stamped, Numbered, CheckpointLeft, IfCheckpointed

\* ... and when its set-up has thrown.
LEMMA FailedMail ==
  ASSUME NEW t
  PROVE  Stamped(IfCheckpointed(t, <<"SET_LOCAL_CHECKPOINT">>) \o CheckpointLeft(t), t)
           = IF t \in Checkpointed
             THEN <<Numbered("SET_LOCAL_CHECKPOINT", t), Numbered("UNSET_LOCAL_CHECKPOINT", t)>>
             ELSE <<>>
<1>1. CASE t \in Checkpointed
  <2>1. IfCheckpointed(t, <<"SET_LOCAL_CHECKPOINT">>) \o CheckpointLeft(t)
          = <<"SET_LOCAL_CHECKPOINT", "UNSET_LOCAL_CHECKPOINT">>
    BY <1>1, TwoInARow DEF IfCheckpointed, CheckpointLeft
  <2>2. Stamped(<<"SET_LOCAL_CHECKPOINT", "UNSET_LOCAL_CHECKPOINT">>, t)
          = <<[Order("SET_LOCAL_CHECKPOINT") EXCEPT !.task = t],
              [Order("UNSET_LOCAL_CHECKPOINT") EXCEPT !.task = t]>>
    BY DEF Stamped
  <2>. QED BY <1>1, <2>1, <2>2 DEF Numbered
<1>2. CASE t \notin Checkpointed
  <2>1. IfCheckpointed(t, <<"SET_LOCAL_CHECKPOINT">>) \o CheckpointLeft(t) = <<>>
    BY <1>2, NothingTwice DEF IfCheckpointed, CheckpointLeft
  <2>. QED BY <1>2, <2>1 DEF Stamped
<1>. QED BY <1>1, <1>2

\* While the channels are not being refilled for a new task, a slave that has
\* been sent something keeps its part of the invariant if its track does.
LEMMA Told ==
  ASSUME ProtocolInv, NEW v \in Workers, phase # "capture", phase' # "capture",
         UNCHANGED <<slaveVars, toMaster>>,
         phase \in {"loads", "over"} => phase' \in {"loads", "over"},
         Track(Now(v), toSlave'[v], Due'), ~Has(toSlave'[v], "NEW_TASK"),
         LeavesLast(v)', AtWork(v)', LastWord(v)'
  PROVE  SlaveInv(v)'
<1>1. SlaveInv(v) /\ UNCHANGED <<at, serving, interval, toMaster>>
  BY DEF ProtocolInv, slaveVars
<1>2. Now(v)' = Now(v)
  BY <1>1 DEF Now, State
<1>3. OrdersInTurn(v)'
  BY <1>2 DEF OrdersInTurn
<1>4. OwnCheckpoint(v)' /\ Invited(v)' /\ Recruited(v)'
  BY <1>1 DEF SlaveInv, OwnCheckpoint, Invited, Recruited, Has
<1>5. Identified(v)' /\ ReportsOnce(v)'
  BY <1>1 DEF SlaveInv, Identified, ReportsOnce
<1>. QED BY <1>3, <1>4, <1>5 DEF SlaveInv

\* Outside the capture loop every slave is on its track, and is not invited.
LEMMA OnTrack ==
  ASSUME ProtocolInv, NEW v \in Workers, phase # "capture"
  PROVE  /\ toSlave[v] \in Seq(Message) /\ Track(Now(v), toSlave[v], Due)
         /\ ~Has(toSlave[v], "NEW_TASK")
         /\ ~Has(toMaster[v], "WORKER_IDENTIFICATION")
<1>1. SlaveInv(v) /\ toSlave[v] \in Seq(Message)
  BY Types DEF ProtocolInv
<1>2. Track(Now(v), toSlave[v], Due)
  BY <1>1 DEF SlaveInv, OrdersInTurn, Skipped
<1>3. ~Has(toSlave[v], "NEW_TASK") /\ ~Has(toMaster[v], "WORKER_IDENTIFICATION")
  BY <1>1 DEF SlaveInv, Invited, Identified, Has
<1>. QED BY <1>1, <1>2, <1>3

\* When all have closed down, the close-down messages have been sent.
LEMMA ClosingSent ==
  ASSUME ProtocolInv, phase = "drain"
  PROVE  closing /\ \A w \in Workers : at[w] = "wait" /\ toMaster[w] = <<>>
<1>1. ASSUME NEW w \in Workers
      PROVE  closing /\ at[w] = "wait" /\ toMaster[w] = <<>>
  <2>1. /\ SlaveInv(w) /\ inactive = Workers
        /\ toSlave[w] \in Seq(Message) /\ Track(Now(w), toSlave[w], Due)
    BY OnTrack DEF ProtocolInv, ClosingTime
  <2>2. at[w] = "wait" /\ toMaster[w] = <<>>
    BY <2>1 DEF SlaveInv, LastWord, LeavesLast
  <2>3. toSlave[w] = <<>>
    <3>1. SUFFICES ASSUME toSlave[w] # <<>> PROVE FALSE
      OBVIOUS
    <3>2. PICK q \in Seq(Message) : q = toSlave[w]
      BY <2>1
    <3>3. Accepts(Now(w), Head(q)) /\ Head(q) = q[1] /\ Len(q) \in Nat \ {0}
      BY <2>1, <3>1, <3>2, TrackTaken, Taken
    <3>4. q[1].tag \in {"NEW_WORK_ASSIGNMENT", "END_OF_WORK"}
      BY <2>1, <3>2, <3>3 DEF SlaveInv, AtWork
    <3>. QED BY <2>2, <3>3, <3>4 DEF Accepts, Now, State
  <2>4. Now(w) = Due
    BY <2>1, <2>3, TrackNone
  <2>5. closing
    BY <2>2, <2>4 DEF Now, Due, State
  <2>. QED BY <2>2, <2>5
<1>. QED BY <1>1, WorkersAssumption

\* Types, when the master only sends.
LEMMA TellingTypes ==
  ASSUME ProtocolInv, UNCHANGED slaveVars, MasterTyped', ChannelsTyped', SchedInv'
  PROVE  TypeOK'
<1>1. SlavesTyped'
  BY Types, MasterKeepsTypes
<1>. QED BY <1>1, TypePartsNext DEF SchedInv

\* The writer is set up and the slaves are invited.
LEMMA BeginTaskStep ==
  ASSUME ProtocolInv, NEW items \in SUBSET Items, BeginTask(items)
  PROVE  ProtocolInv'
<1>. DEFINE t == task + 1
            a == Numbered("SET_LOCAL_CHECKPOINT", t)
            b == Numbered("NEW_TASK", t)
<1>1. /\ phase = "next" /\ phase' = "capture" /\ task < NumTasks /\ task' = t
      /\ NewTask(items) /\ closing' = FALSE /\ aggregations' = <<>> /\ stored' = {}
      /\ failures' = {} /\ dropped' = {} /\ success' = TRUE
      /\ UNCHANGED <<result, respondents, slaveVars, toMaster>>
      /\ Broadcast(Stamped(IfCheckpointed(t, <<"SET_LOCAL_CHECKPOINT">>) \o <<"NEW_TASK">>, t))
  BY DEF BeginTask
<1>2. /\ SchedInv /\ MasterTyped /\ ChannelsTyped /\ task \in 0 .. NumTasks
      /\ UNCHANGED <<at, serving, interval, toMaster>> /\ UNCHANGED slaveVars
      /\ NumTasks \in Nat
  BY <1>1, Types, TasksAssumption DEF slaveVars
<1>3. t \in 0 .. NumTasks /\ t # task
  BY <1>1, <1>2
<1>4. /\ a \in Message /\ a.tag = "SET_LOCAL_CHECKPOINT" /\ a.task = t
      /\ b \in Message /\ b.tag = "NEW_TASK" /\ b.task = t
  <2>1. "SET_LOCAL_CHECKPOINT" \in Tags /\ "NEW_TASK" \in Tags
    BY DEF Tags
  <2>. HIDE DEF t
  <2>. QED BY <1>2, <1>3, <2>1, NumberedTyped
<1>5. IF t \in Checkpointed THEN Broadcast(<<a, b>>) ELSE Broadcast(<<b>>)
  BY <1>1, OpeningMail
<1>. HIDE DEF a, b
<1>6. /\ ChannelsTyped' <=> toMaster' \in [Workers -> Seq(Message)]
      /\ \A v \in Workers :
           toSlave'[v] = IF t \in Checkpointed THEN Append(Append(toSlave[v], a), b)
                                               ELSE Append(toSlave[v], b)
  <2>1. CASE t \in Checkpointed
    BY <1>2, <1>4, <1>5, <2>1, TellTwo
  <2>2. CASE t \notin Checkpointed
    BY <1>2, <1>4, <1>5, <2>2, TellOne
  <2>. QED BY <2>1, <2>2
<1>7. SchedInv'
  BY <1>1, <1>2, NewTaskInv
<1>8. TypeOK'
  <2>1. aggregations' \in Seq(SUBSET Items)
    BY <1>1, EmptySeq
  <2>2. MasterTyped'
    BY <1>1, <1>2, <1>3, <2>1 DEF MasterTyped
  <2>3. ChannelsTyped'
    BY <1>2, <1>6 DEF ChannelsTyped
  <2>. QED BY <1>2, <1>7, <2>2, <2>3, TellingTypes
<1>9. initialized' = {} /\ inactive' = {}
  BY <1>1 DEF NewTask
<1>10. ASSUME NEW v \in Workers PROVE SlaveInv(v)'
  <2>1. /\ SlaveInv(v) /\ Track(Now(v), toSlave[v], Due)
        /\ ~Has(toSlave[v], "NEW_TASK") /\ ~Has(toMaster[v], "WORKER_IDENTIFICATION")
    BY <1>1, OnTrack DEF ProtocolInv
  <2>2. PICK q \in Seq(Message) : q = toSlave[v]
    BY <1>2 DEF ChannelsTyped
  <2>3. PICK r \in Seq(Message) :
          /\ r = IF t \in Checkpointed THEN Append(q, a) ELSE q
          /\ \A tag : Has(r, tag) => Has(q, tag) \/ tag = "SET_LOCAL_CHECKPOINT"
          /\ Track(Now(v), r, State("wait", 0, C(t)))
    <3>1. Due = State("wait", 0, 0)
      BY <1>1 DEF Due
    <3>2. CASE t \in Checkpointed
      <4>1. Accepts(Due, a)
        BY <1>4, <3>1 DEF Accepts, State
      <4>2. Track(Now(v), Append(q, a), After(a))
        BY <1>4, <2>1, <2>2, <4>1, TrackPut
      <4>3. After(a) = State("wait", 0, C(t))
        BY <1>4, <3>2 DEF After, C
      <4>4. Append(q, a) \in Seq(Message)
        BY <1>4, Put
      <4>5. \A tag : Has(Append(q, a), tag) => Has(q, tag) \/ tag = "SET_LOCAL_CHECKPOINT"
        BY <1>4, HasPut
      <4>. QED BY <3>2, <4>2, <4>3, <4>4, <4>5
    <3>3. CASE t \notin Checkpointed
      BY <2>1, <2>2, <3>1, <3>3 DEF C
    <3>. QED BY <3>2, <3>3
  <2>4. PICK s \in Seq(Message) : s = Append(r, b)
    BY <1>4, Put
  <2>5. toSlave'[v] = s
    BY <1>6, <2>2, <2>3, <2>4
  <2>6. OrdersInTurn(v)'
    <3>1. Accepts(State("wait", 0, C(t)), b)
      BY <1>4 DEF Accepts, State
    <3>2. Track(Now(v), s, After(b))
      BY <1>4, <2>3, <2>4, <3>1, TrackPut
    <3>3. After(b) = State("task", t, C(t))
      BY <1>4 DEF After
    <3>4. Due' = State("task", t, C(t))
      BY <1>1 DEF Due, C
    <3>5. Now(v)' = Now(v)
      BY <1>2 DEF Now, State
    <3>. QED BY <2>5, <3>2, <3>3, <3>4, <3>5 DEF OrdersInTurn
  <2>7. OwnCheckpoint(v)'
    BY <1>2, <2>1 DEF SlaveInv, OwnCheckpoint, C
  <2>8. \A tag : Has(s, tag) => Has(r, tag) \/ b.tag = tag
    BY <1>4, <2>4, HasPut
  <2>9. LeavesLast(v)'
    <3>1. /\ at[v] \in {"wait", "task", "work"}
          /\ ~Has(q, "QUERY_PERFORMANCE_DATA") /\ ~Has(q, "TERMINATE")
      BY <1>1, <2>1, <2>2 DEF SlaveInv, LeavesLast
    <3>2. ~Has(r, "QUERY_PERFORMANCE_DATA") /\ ~Has(r, "TERMINATE")
      BY <2>3, <3>1
    <3>3. ~Has(s, "QUERY_PERFORMANCE_DATA") /\ ~Has(s, "TERMINATE")
      BY <1>4, <2>8, <3>2
    <3>. QED BY <1>2, <2>5, <3>1, <3>3 DEF LeavesLast
  <2>10. Invited(v)'
    <3>1. ~Has(r, "NEW_TASK")
      BY <2>1, <2>2, <2>3
    <3>2. /\ Len(r) \in Nat /\ Len(s) = Len(r) + 1
          /\ \A k \in 1 .. Len(r) : s[k] = r[k]
          /\ s[Len(r) + 1] = b
      BY <1>4, <2>4, Put
    <3>3. ASSUME NEW k \in 1 .. Len(s), s[k].tag = "NEW_TASK"
          PROVE  k = Len(s) /\ s[k].task = t
      BY <1>4, <3>1, <3>2, <3>3 DEF Has
    <3>4. ~Has(toMaster'[v], "WORKER_IDENTIFICATION")
      BY <1>2, <2>1
    <3>. QED BY <1>1, <1>9, <2>5, <3>3, <3>4 DEF Invited
  <2>11. Identified(v)' /\ Recruited(v)'
    BY <1>2, <1>9, <2>1 DEF Identified, Recruited, Has
  <2>12. AtWork(v)' /\ LastWord(v)' /\ ReportsOnce(v)'
    BY <1>1, <1>2, <2>1 DEF SlaveInv, AtWork, LastWord, ReportsOnce
  <2>. QED BY <2>6, <2>7, <2>9, <2>10, <2>11, <2>12 DEF SlaveInv
<1>11. ClosingTime' /\ LoadsCounted'
  BY <1>1, <1>9 DEF ProtocolInv, ClosingTime, LoadsCounted
<1>. QED BY <1>7, <1>8, <1>10, <1>11 DEF ProtocolInv

\* Set-up fails: what was set is taken back, and no slave has joined.
LEMMA SetupThrowsStep ==
  ASSUME ProtocolInv, SetupThrows
  PROVE  ProtocolInv'
<1>. DEFINE t == task + 1
            a == Numbered("SET_LOCAL_CHECKPOINT", t)
            b == Numbered("UNSET_LOCAL_CHECKPOINT", t)
<1>1. /\ phase = "next" /\ phase' = "next" /\ task < NumTasks /\ task' = t
      /\ result' = [result EXCEPT ![t] = "aborted"]
      /\ UNCHANGED schedVars /\ UNCHANGED slaveVars
      /\ UNCHANGED <<phase, closing, aggregations, stored, failures, dropped, success,
                     respondents, toMaster>>
      /\ Broadcast(Stamped(IfCheckpointed(t, <<"SET_LOCAL_CHECKPOINT">>) \o CheckpointLeft(t), t))
  BY DEF SetupThrows
<1>2. /\ SchedInv /\ MasterTyped /\ ChannelsTyped /\ task \in 0 .. NumTasks
      /\ UNCHANGED <<at, serving, interval>> /\ NumTasks \in Nat
  BY <1>1, Types, TasksAssumption DEF slaveVars
<1>3. t \in 0 .. NumTasks
  BY <1>1, <1>2
<1>4. /\ a \in Message /\ a.tag = "SET_LOCAL_CHECKPOINT"
      /\ b \in Message /\ b.tag = "UNSET_LOCAL_CHECKPOINT"
  <2>1. "SET_LOCAL_CHECKPOINT" \in Tags /\ "UNSET_LOCAL_CHECKPOINT" \in Tags
    BY DEF Tags
  <2>. HIDE DEF t
  <2>. QED BY <1>2, <1>3, <2>1, NumberedTyped
<1>5. IF t \in Checkpointed THEN Broadcast(<<a, b>>) ELSE Broadcast(<<>>)
  BY <1>1, FailedMail
<1>. HIDE DEF a, b
<1>6. /\ ChannelsTyped' <=> toMaster' \in [Workers -> Seq(Message)]
      /\ \A v \in Workers :
           toSlave'[v] = IF t \in Checkpointed THEN Append(Append(toSlave[v], a), b)
                                               ELSE toSlave[v]
  <2>1. CASE t \in Checkpointed
    BY <1>2, <1>4, <1>5, <2>1, TellTwo
  <2>2. CASE t \notin Checkpointed
    <3>1. toSlave' = toSlave
      BY <1>2, <1>5, <2>2, TellNone
    <3>. QED BY <1>2, <2>2, <3>1 DEF ChannelsTyped
  <2>. QED BY <2>1, <2>2
<1>7. SchedInv'
  BY <1>1, <1>2, NextInv
<1>8. TypeOK'
  <2>1. MasterTyped'
    <3>1. result' \in [1 .. NumTasks -> {"pending", "committed", "rejected", "aborted"}]
      BY <1>1, <1>2 DEF MasterTyped
    <3>. QED BY <1>1, <1>2, <1>3, <3>1 DEF MasterTyped
  <2>2. ChannelsTyped'
    BY <1>1, <1>2, <1>6 DEF ChannelsTyped
  <2>. QED BY <1>1, <1>7, <2>1, <2>2, TellingTypes
<1>9. ASSUME NEW v \in Workers PROVE SlaveInv(v)'
  <2>1. /\ SlaveInv(v) /\ Track(Now(v), toSlave[v], Due) /\ ~Has(toSlave[v], "NEW_TASK")
    BY <1>1, OnTrack DEF ProtocolInv
  <2>2. PICK q \in Seq(Message) : q = toSlave[v]
    BY <1>2 DEF ChannelsTyped
  <2>3. Due = State("wait", 0, 0) /\ Due' = State("wait", 0, 0)
    BY <1>1 DEF Due
  <2>4. /\ Track(Now(v), toSlave'[v], Due')
        /\ \A tag \in {"NEW_TASK", "QUERY_PERFORMANCE_DATA", "TERMINATE"} :
             Has(toSlave'[v], tag) => Has(q, tag)
    <3>1. CASE t \in Checkpointed
      <4>1. PICK r \in Seq(Message) : r = Append(q, a)
        BY <1>4, Put
      <4>2. Track(Now(v), r, After(a))
        <5>1. Accepts(Due, a)
          BY <1>4, <2>3 DEF Accepts, State
        <5>. QED BY <1>4, <2>1, <2>2, <4>1, <5>1, TrackPut
      <4>3. Track(Now(v), Append(r, b), After(b))
        <5>1. Accepts(After(a), b)
          BY <1>4 DEF Accepts, After, State
        <5>. QED BY <1>4, <4>2, <5>1, TrackPut
      <4>4. After(b) = State("wait", 0, 0)
        BY <1>4 DEF After
      <4>5. toSlave'[v] = Append(r, b)
        BY <1>6, <2>2, <3>1, <4>1
      <4>6. \A tag : Has(r, tag) => Has(q, tag) \/ a.tag = tag
        BY <1>4, <4>1, HasPut
      <4>7. \A tag : Has(Append(r, b), tag) => Has(r, tag) \/ b.tag = tag
        BY <1>4, HasPut
      <4>. QED BY <1>4, <2>3, <4>3, <4>4, <4>5, <4>6, <4>7
    <3>2. CASE t \notin Checkpointed
      BY <1>6, <2>1, <2>2, <2>3, <3>2
    <3>. QED BY <3>1, <3>2
  <2>5. LeavesLast(v)'
    BY <1>1, <1>2, <2>1, <2>2, <2>4 DEF SlaveInv, LeavesLast
  <2>6. AtWork(v)' /\ LastWord(v)'
    BY <1>1 DEF AtWork, LastWord
  <2>7. ~Has(toSlave'[v], "NEW_TASK")
    BY <2>1, <2>2, <2>4
  <2>8. UNCHANGED <<slaveVars, toMaster>> /\ phase # "capture" /\ phase' # "capture"
        /\ (phase \in {"loads", "over"} => phase' \in {"loads", "over"})
    BY <1>1
  <2>. QED BY <2>4, <2>5, <2>6, <2>7, <2>8, Told
<1>10. ClosingTime' /\ LoadsCounted'
  BY <1>1 DEF ProtocolInv, ClosingTime, LoadsCounted
<1>. QED BY <1>7, <1>8, <1>9, <1>10 DEF ProtocolInv

\* The queue is empty: the slaves are told to close down.
LEMMA SendCloseDownStep ==
  ASSUME ProtocolInv, SendCloseDown
  PROVE  ProtocolInv'
<1>. DEFINE a == Order("END_OF_WORK")
<1>1. /\ phase = "poll" /\ queue = {} /\ ~closing /\ closing' = TRUE
      /\ Broadcast(<<a>>) /\ UNCHANGED schedVars /\ UNCHANGED slaveVars
      /\ UNCHANGED <<phase, task, aggregations, stored, failures, dropped, success,
                     result, respondents, toMaster>>
  BY DEF SendCloseDown, Polling
<1>2. /\ SchedInv /\ MasterTyped /\ ChannelsTyped /\ task \in 0 .. NumTasks
      /\ UNCHANGED <<at, serving, interval, initialized, inactive, queue, raised>>
  BY <1>1, Types DEF slaveVars, schedVars
<1>3. a \in Message /\ a.tag = "END_OF_WORK" /\ a.task = task
  <2>1. "END_OF_WORK" \in Tags
    BY DEF Tags
  <2>. QED BY <1>2, <2>1, OrderTyped
<1>. HIDE DEF a
<1>4. /\ ChannelsTyped' <=> toMaster' \in [Workers -> Seq(Message)]
      /\ \A v \in Workers : toSlave'[v] = Append(toSlave[v], a)
  BY <1>1, <1>2, <1>3, TellOne
<1>5. SchedInv'
  BY <1>1, <1>2, NextInv
<1>6. TypeOK'
  <2>1. MasterTyped' /\ ChannelsTyped'
    BY <1>1, <1>2, <1>4 DEF MasterTyped, ChannelsTyped
  <2>. QED BY <1>1, <1>5, <2>1, TellingTypes
<1>7. ASSUME NEW v \in Workers PROVE SlaveInv(v)'
  <2>1. /\ SlaveInv(v) /\ Track(Now(v), toSlave[v], Due) /\ ~Has(toSlave[v], "NEW_TASK")
    BY <1>1, OnTrack DEF ProtocolInv
  <2>2. PICK q \in Seq(Message) : q = toSlave[v]
    BY <1>2 DEF ChannelsTyped
  <2>3. PICK r \in Seq(Message) : r = Append(q, a)
    BY <1>3, Put
  <2>4. toSlave'[v] = r
    BY <1>4, <2>2, <2>3
  <2>5. /\ Len(q) \in Nat /\ Len(r) = Len(q) + 1
        /\ \A k \in 1 .. Len(q) : r[k] = q[k]
        /\ r[Len(q) + 1] = a
        /\ \A tag : Has(r, tag) => Has(q, tag) \/ a.tag = tag
    BY <1>3, <2>3, Put, HasPut
  <2>6. Track(Now(v), r, Due')
    <3>1. Due = State("task", task, C(task))
      BY <1>1 DEF Due
    <3>2. Accepts(Due, a)
      BY <1>3, <3>1 DEF Accepts, State
    <3>3. Track(Now(v), r, After(a))
      BY <1>3, <2>1, <2>2, <2>3, <3>2, TrackPut
    <3>4. After(a) = Due'
      BY <1>1, <1>3 DEF After, Due, C
    <3>. QED BY <3>3, <3>4
  <2>7. LeavesLast(v)'
    BY <1>1, <1>2, <1>3, <2>1, <2>2, <2>4, <2>5 DEF SlaveInv, LeavesLast
  <2>8. AtWork(v)'
    <3>1. ASSUME NEW k \in 1 .. Len(r) PROVE r[k].tag \in {"NEW_WORK_ASSIGNMENT", "END_OF_WORK"}
      <4>1. k \in 1 .. Len(q) \/ k = Len(q) + 1
        BY <2>5
      <4>. QED BY <1>1, <1>3, <2>1, <2>2, <2>5, <4>1 DEF SlaveInv, AtWork
    <3>. QED BY <1>1, <1>2, <2>1, <2>4, <3>1 DEF SlaveInv, AtWork
  <2>9. LastWord(v)'
    BY <1>1, <1>2, <2>1 DEF SlaveInv, LastWord
  <2>10. ~Has(toSlave'[v], "NEW_TASK")
    BY <1>3, <2>1, <2>2, <2>4, <2>5
  <2>11. UNCHANGED <<slaveVars, toMaster>> /\ phase # "capture" /\ phase' # "capture"
         /\ (phase \in {"loads", "over"} => phase' \in {"loads", "over"})
    BY <1>1
  <2>. QED BY <2>4, <2>6, <2>7, <2>8, <2>9, <2>10, <2>11, Told
<1>8. ClosingTime' /\ LoadsCounted'
  BY <1>1, <1>2 DEF ProtocolInv, ClosingTime, LoadsCounted
<1>. QED BY <1>5, <1>6, <1>7, <1>8 DEF ProtocolInv

\* The end of a task, good or bad.
Left(how) ==
  /\ phase \in {"poll", "drain"} /\ phase' = "next" /\ task' = task
  /\ IF closing THEN Broadcast(Stamped(CheckpointLeft(task), task))
     ELSE Broadcast(<<Order("END_OF_WORK")>> \o Stamped(CheckpointLeft(task), task))
  /\ result' = [result EXCEPT ![task] = how]
  /\ closing' \in BOOLEAN /\ aggregations' \in {aggregations, <<>>}
  /\ UNCHANGED <<stored, failures, dropped, success, respondents>>
  /\ UNCHANGED schedVars /\ UNCHANGED <<slaveVars, toMaster>>

\* A slave that has been told that the work is over is due back where it
\* started: nothing of the task is left on it.
LEMMA LeaveStep ==
  ASSUME ProtocolInv, NEW how \in {"committed", "rejected", "aborted"}, Left(how)
  PROVE  ProtocolInv'
<1>. USE DEF Left
<1>. DEFINE a == Order("END_OF_WORK")
            b == Numbered("UNSET_LOCAL_CHECKPOINT", task)
            set == task \in Checkpointed
<1>1. /\ SchedInv /\ MasterTyped /\ ChannelsTyped /\ task \in 0 .. NumTasks
      /\ UNCHANGED <<at, serving, interval>> /\ UNCHANGED slaveVars
  BY Types DEF slaveVars
<1>2. /\ a \in Message /\ a.tag = "END_OF_WORK" /\ a.task = task
      /\ b \in Message /\ b.tag = "UNSET_LOCAL_CHECKPOINT"
  <2>1. "END_OF_WORK" \in Tags /\ "UNSET_LOCAL_CHECKPOINT" \in Tags
    BY DEF Tags
  <2>. QED BY <1>1, <2>1, OrderTyped, NumberedTyped
<1>. HIDE DEF a, b
<1>3. /\ closing /\ set => Broadcast(<<b>>)
      /\ closing /\ ~set => Broadcast(<<>>)
      /\ ~closing /\ set => Broadcast(<<a, b>>)
      /\ ~closing /\ ~set => Broadcast(<<a>>)
  <2>1. Stamped(CheckpointLeft(task), task) = IF set THEN <<b>> ELSE <<>>
    BY ClosingMail DEF b
  <2>2. <<a>> \o <<b>> = <<a, b>> /\ <<a>> \o <<>> = <<a>>
    BY TwoInARow, NothingFirst
  <2>. QED BY <2>1, <2>2 DEF a
<1>4. /\ ChannelsTyped'
      /\ \A v \in Workers :
           /\ closing /\ set => toSlave'[v] = Append(toSlave[v], b)
           /\ closing /\ ~set => toSlave'[v] = toSlave[v]
           /\ ~closing /\ set => toSlave'[v] = Append(Append(toSlave[v], a), b)
           /\ ~closing /\ ~set => toSlave'[v] = Append(toSlave[v], a)
  <2>. HIDE DEF set
  <2>0. closing \in BOOLEAN /\ toMaster' \in [Workers -> Seq(Message)]
    BY <1>1 DEF MasterTyped, ChannelsTyped
  <2>1. CASE closing /\ set
    BY <1>1, <1>2, <1>3, <2>0, <2>1, TellOne
  <2>2. CASE closing /\ ~set
    <3>1. toSlave' = toSlave
      BY <1>1, <1>3, <2>2, TellNone
    <3>. QED BY <1>1, <2>0, <2>2, <3>1 DEF ChannelsTyped
  <2>3. CASE ~closing /\ set
    BY <1>1, <1>2, <1>3, <2>0, <2>3, TellTwo
  <2>4. CASE ~closing /\ ~set
    BY <1>1, <1>2, <1>3, <2>0, <2>4, TellOne
  <2>. QED BY <2>1, <2>2, <2>3, <2>4
<1>5. SchedInv'
  BY <1>1, NextInv
<1>6. TypeOK'
  <2>1. aggregations' \in Seq(SUBSET Items)
    BY <1>1, EmptySeq DEF MasterTyped
  <2>2. result' \in [1 .. NumTasks -> {"pending", "committed", "rejected", "aborted"}]
    BY <1>1 DEF MasterTyped
  <2>3. MasterTyped'
    BY <1>1, <2>1, <2>2 DEF MasterTyped
  <2>. QED BY <1>1, <1>4, <1>5, <2>3, TellingTypes
<1>7. ASSUME NEW v \in Workers PROVE SlaveInv(v)'
  <2>1. /\ SlaveInv(v) /\ Track(Now(v), toSlave[v], Due) /\ ~Has(toSlave[v], "NEW_TASK")
    BY OnTrack DEF ProtocolInv
  <2>2. PICK q \in Seq(Message) : q = toSlave[v]
    BY <1>1 DEF ChannelsTyped
  \* END_OF_WORK brings the slave out of its task, if it is not out already ...
  <2>3. PICK r \in Seq(Message) :
          /\ r = IF closing THEN q ELSE Append(q, a)
          /\ \A tag : Has(r, tag) => Has(q, tag) \/ tag = "END_OF_WORK"
          /\ Track(Now(v), r, State("wait", 0, C(task)))
    <3>1. CASE closing
      <4>1. Due = State("wait", 0, C(task))
        BY <3>1 DEF Due
      <4>. QED BY <2>1, <2>2, <3>1, <4>1
    <3>2. CASE ~closing
      <4>1. Due = State("task", task, C(task))
        BY <3>2 DEF Due
      <4>2. Accepts(Due, a)
        BY <1>2, <4>1 DEF Accepts, State
      <4>3. Track(Now(v), Append(q, a), After(a))
        BY <1>2, <2>1, <2>2, <4>2, TrackPut
      <4>4. After(a) = State("wait", 0, C(task))
        BY <1>2 DEF After
      <4>5. Append(q, a) \in Seq(Message)
        BY <1>2, Put
      <4>6. \A tag : Has(Append(q, a), tag) => Has(q, tag) \/ tag = "END_OF_WORK"
        BY <1>2, HasPut
      <4>. QED BY <3>2, <4>3, <4>4, <4>5, <4>6
    <3>. QED BY <3>1, <3>2
  \* ... and then its checkpoint interval is taken back.
  <2>4. PICK s \in Seq(Message) :
          /\ s = IF set THEN Append(r, b) ELSE r
          /\ \A tag : Has(s, tag) => Has(r, tag) \/ tag = "UNSET_LOCAL_CHECKPOINT"
          /\ Track(Now(v), s, State("wait", 0, 0))
    <3>1. CASE set
      <4>1. Accepts(State("wait", 0, C(task)), b)
        BY <1>2 DEF Accepts, State
      <4>2. Track(Now(v), Append(r, b), After(b))
        BY <1>2, <2>3, <4>1, TrackPut
      <4>3. After(b) = State("wait", 0, 0)
        BY <1>2 DEF After
      <4>4. Append(r, b) \in Seq(Message)
        BY <1>2, Put
      <4>5. \A tag : Has(Append(r, b), tag) => Has(r, tag) \/ tag = "UNSET_LOCAL_CHECKPOINT"
        BY <1>2, HasPut
      <4>. QED BY <3>1, <4>2, <4>3, <4>4, <4>5
    <3>2. CASE ~set
      BY <2>3, <3>2 DEF C
    <3>. QED BY <3>1, <3>2
  <2>5. toSlave'[v] = s
    <3>1. closing \in BOOLEAN
      BY <1>1 DEF MasterTyped
    <3>. HIDE DEF set
    <3>. QED BY <1>4, <2>2, <2>3, <2>4, <3>1
  <2>6. Due' = State("wait", 0, 0)
    BY DEF Due
  <2>7. LeavesLast(v)'
    <3>1. /\ at[v] \in {"wait", "task", "work"}
          /\ ~Has(q, "QUERY_PERFORMANCE_DATA") /\ ~Has(q, "TERMINATE")
      BY <2>1, <2>2 DEF SlaveInv, LeavesLast
    <3>2. ~Has(s, "QUERY_PERFORMANCE_DATA") /\ ~Has(s, "TERMINATE")
      BY <2>3, <2>4, <3>1
    <3>. QED BY <1>1, <2>5, <3>1, <3>2 DEF LeavesLast
  <2>8. ~Has(s, "NEW_TASK")
    BY <2>1, <2>2, <2>3, <2>4
  <2>9. AtWork(v)' /\ LastWord(v)'
    BY DEF AtWork, LastWord
  <2>. QED BY <1>1, <2>4, <2>5, <2>6, <2>7, <2>8, <2>9, Told
<1>8. ClosingTime' /\ LoadsCounted'
  BY DEF ProtocolInv, ClosingTime, LoadsCounted
<1>. QED BY <1>5, <1>6, <1>7, <1>8 DEF ProtocolInv

\* The writer is committed, or rejected.
LEMMA CloseTaskStep ==
  ASSUME ProtocolInv, CloseTask
  PROVE  ProtocolInv'
<1>. DEFINE how == IF success \/ CommitFailed THEN "committed" ELSE "rejected"
            mail == Stamped(CheckpointLeft(task), task)
<1>1. /\ phase = "drain" /\ phase' = "next" /\ Broadcast(<<>> \o mail)
      /\ result' = [result EXCEPT ![task] = how]
      /\ UNCHANGED schedVars /\ UNCHANGED <<slaveVars, toMaster>>
      /\ UNCHANGED <<task, closing, aggregations, stored, failures, dropped, success,
                     respondents>>
  BY DEF CloseTask, Leave
<1>2. closing
  BY <1>1, ClosingSent
<1>3. <<>> \o mail = mail
  <2>1. mail = IF task \in Checkpointed THEN <<Numbered("UNSET_LOCAL_CHECKPOINT", task)>> ELSE <<>>
    BY ClosingMail
  <2>. QED BY <2>1, NothingFirst, NothingTwice
<1>4. Broadcast(mail)
  BY <1>1, <1>3
<1>5. PICK h \in {"committed", "rejected", "aborted"} : result' = [result EXCEPT ![task] = h]
  BY <1>1
<1>6. closing' \in BOOLEAN /\ aggregations' \in {aggregations, <<>>}
  BY <1>1, <1>2, Types DEF MasterTyped
<1>7. /\ task' = task /\ phase \in {"poll", "drain"}
      /\ UNCHANGED <<stored, failures, dropped, success, respondents>>
  BY <1>1
<1>8. Left(h)
  BY <1>1, <1>2, <1>4, <1>5, <1>6, <1>7 DEF Left
<1>. QED BY <1>8, LeaveStep

\* The writer aborts.
LEMMA AbortTaskStep ==
  ASSUME ProtocolInv, AbortTask
  PROVE  ProtocolInv'
<1>. DEFINE mail == Stamped(CheckpointLeft(task), task)
<1>1. /\ phase \in {"poll", "drain"} /\ phase' = "next" /\ Broadcast(Farewell \o mail)
      /\ result' = [result EXCEPT ![task] = "aborted"]
      /\ closing' = TRUE /\ aggregations' = <<>>
      /\ UNCHANGED schedVars /\ UNCHANGED <<slaveVars, toMaster>>
      /\ UNCHANGED <<task, stored, failures, dropped, success, respondents>>
  BY DEF AbortTask, Leave, Polling
<1>2. <<>> \o mail = mail
  <2>1. mail = IF task \in Checkpointed THEN <<Numbered("UNSET_LOCAL_CHECKPOINT", task)>> ELSE <<>>
    BY ClosingMail
  <2>. QED BY <2>1, NothingFirst, NothingTwice
<1>3. \/ Broadcast(mail) /\ closing
      \/ Broadcast(<<Order("END_OF_WORK")>> \o mail) /\ ~closing
  BY <1>1, <1>2 DEF Farewell
<1>4. closing' \in BOOLEAN /\ aggregations' \in {aggregations, <<>>}
  BY <1>1
<1>5. PICK h \in {"committed", "rejected", "aborted"} : result' = [result EXCEPT ![task] = h]
  BY <1>1
<1>6. task' = task /\ UNCHANGED <<stored, failures, dropped, success, respondents>>
  BY <1>1
<1>7. Left(h)
  BY <1>1, <1>3, <1>4, <1>5, <1>6 DEF Left
<1>. QED BY <1>7, LeaveStep

\* One last message for every slave.
LEMMA LastOrderStep ==
  ASSUME ProtocolInv, phase \in {"next", "loads"}, NEW tag \in {"QUERY_PERFORMANCE_DATA", "TERMINATE"},
         Broadcast(<<Order(tag)>>),
         \/ tag = "QUERY_PERFORMANCE_DATA" /\ phase = "next" /\ phase' = "loads"
         \/ tag = "TERMINATE" /\ phase' = "over",
         UNCHANGED schedVars, UNCHANGED <<slaveVars, toMaster>>,
         UNCHANGED <<task, closing, aggregations, stored, failures, dropped, success,
                     result, respondents>>
  PROVE  ProtocolInv'
<1>. DEFINE a == Order(tag)
<1>1. /\ SchedInv /\ MasterTyped /\ ChannelsTyped /\ task \in 0 .. NumTasks
      /\ UNCHANGED <<at, serving, interval>> /\ UNCHANGED slaveVars
  BY Types DEF slaveVars
<1>2. a \in Message /\ a.tag = tag
  <2>1. tag \in Tags
    BY DEF Tags
  <2>. QED BY <1>1, <2>1, OrderTyped
<1>3. /\ ChannelsTyped' <=> toMaster' \in [Workers -> Seq(Message)]
      /\ \A v \in Workers : toSlave'[v] = Append(toSlave[v], a)
  <2>1. Broadcast(<<a>>)
    OBVIOUS
  <2>. HIDE DEF a
  <2>. QED BY <1>1, <1>2, <2>1, TellOne
<1>. HIDE DEF a
<1>4. SchedInv'
  BY <1>1, NextInv
<1>5. TypeOK'
  <2>1. MasterTyped' /\ ChannelsTyped'
    BY <1>1, <1>3 DEF MasterTyped, ChannelsTyped
  <2>. QED BY <1>1, <1>4, <2>1, TellingTypes
<1>6. phase # "capture" /\ phase' \in {"loads", "over"}
  OBVIOUS
<1>7. ASSUME NEW v \in Workers PROVE SlaveInv(v)'
  <2>1. /\ Track(Now(v), toSlave[v], Due) /\ ~Has(toSlave[v], "NEW_TASK")
    BY <1>6, OnTrack
  <2>2. PICK q \in Seq(Message) : q = toSlave[v]
    BY <1>1 DEF ChannelsTyped
  <2>3. toSlave'[v] = Append(q, a)
    BY <1>3, <2>2
  <2>4. Track(Now(v), Append(q, a), Due')
    <3>1. Accepts(Due, a) /\ After(a) = Due'
      <4>1. CASE phase = "next" /\ tag = "QUERY_PERFORMANCE_DATA" /\ phase' = "loads"
        BY <1>2, <4>1 DEF Accepts, After, Due, State
      <4>2. CASE phase = "next" /\ tag = "TERMINATE" /\ phase' = "over"
        BY <1>2, <4>2 DEF Accepts, After, Due, State
      <4>3. CASE phase = "loads" /\ tag = "TERMINATE" /\ phase' = "over"
        BY <1>2, <4>3 DEF Accepts, After, Due, State
      <4>. QED BY <4>1, <4>2, <4>3
    <3>. QED BY <1>2, <2>1, <2>2, <3>1, TrackPut
  <2>5. ~Has(Append(q, a), "NEW_TASK")
    BY <1>2, <2>1, <2>2, HasPut
  <2>6. LeavesLast(v)' /\ AtWork(v)' /\ LastWord(v)'
    BY <1>6 DEF LeavesLast, AtWork, LastWord
  <2>7. phase' # "capture" /\ (phase \in {"loads", "over"} => phase' \in {"loads", "over"})
    BY <1>6
  <2>. QED BY <1>6, <2>3, <2>4, <2>5, <2>6, <2>7, Told
<1>8. ClosingTime'
  BY <1>6 DEF ClosingTime
<1>9. LoadsCounted'
  <2>1. CASE phase = "next" /\ phase' = "loads"
    <3>1. respondents = 0
      BY <2>1 DEF ProtocolInv, LoadsCounted
    <3>2. ASSUME NEW v \in Workers PROVE at'[v] \notin {"leaving", "exited"}
      BY <1>1, <2>1 DEF ProtocolInv, SlaveInv, LeavesLast
    <3>3. Respondents' = {}
      BY <3>2 DEF Respondents
    <3>4. Cardinality({}) = 0
      BY FS_EmptySet
    <3>. QED BY <1>6, <3>1, <3>3, <3>4 DEF LoadsCounted
  <2>2. CASE phase' = "over"
    BY <2>2 DEF LoadsCounted
  <2>. QED BY <2>1, <2>2
<1>. QED BY <1>4, <1>5, <1>7, <1>8, <1>9 DEF ProtocolInv

\* Both of the last orders keep the invariant.
LEMMA LastOrders ==
  ASSUME ProtocolInv, QueryLoads \/ Terminate
  PROVE  ProtocolInv'
<1>1. CASE QueryLoads
  <2>1. /\ phase = "next" /\ phase' = "loads" /\ Broadcast(<<Order("QUERY_PERFORMANCE_DATA")>>)
        /\ UNCHANGED schedVars /\ UNCHANGED <<slaveVars, toMaster>>
        /\ UNCHANGED <<task, closing, aggregations, stored, failures, dropped, success,
                       result, respondents>>
    BY <1>1 DEF QueryLoads
  <2>2. "QUERY_PERFORMANCE_DATA" \in {"QUERY_PERFORMANCE_DATA", "TERMINATE"}
    OBVIOUS
  <2>. QED BY <2>1, <2>2, LastOrderStep
<1>2. CASE Terminate
  <2>1. /\ phase \in {"next", "loads"} /\ phase' = "over" /\ Broadcast(<<Order("TERMINATE")>>)
        /\ UNCHANGED schedVars /\ UNCHANGED <<slaveVars, toMaster>>
        /\ UNCHANGED <<task, closing, aggregations, stored, failures, dropped, success,
                       result, respondents>>
    BY <1>2 DEF Terminate
  <2>2. "TERMINATE" \in {"QUERY_PERFORMANCE_DATA", "TERMINATE"}
    OBVIOUS
  <2>. QED BY <2>1, <2>2, LastOrderStep
<1>. QED BY <1>1, <1>2

-----------------------------------------------------------------------------
(* The invariant holds                                                     *)

\* Nothing has been sent, and nobody is anywhere but waiting.
LEMMA ProtocolStart ==
  ASSUME Init
  PROVE  ProtocolInv
<1>1. SchedInv
  BY InitInv DEF Init
<1>2. /\ phase = "next" /\ task = 0 /\ closing = FALSE /\ aggregations = <<>>
      /\ stored = {} /\ failures = {} /\ dropped = {} /\ success = TRUE
      /\ result = [t \in 1 .. NumTasks |-> "pending"] /\ respondents = 0
      /\ \A w \in Workers : /\ at[w] = "wait" /\ serving[w] = 0 /\ interval[w] = 0
                            /\ toSlave[w] = <<>> /\ toMaster[w] = <<>>
  BY DEF Init
<1>3. TypeOK
  <2>1. <<>> \in Seq(SUBSET Items) /\ <<>> \in Seq(Message)
    BY EmptySeq
  <2>2. 0 \in 0 .. NumTasks /\ 0 \in 0 .. Cardinality(Workers)
    BY TasksAssumption, FinitePool
  <2>3. MasterTyped
    BY <1>2, <2>1, <2>2 DEF MasterTyped
  <2>4. SlavesTyped /\ ChannelsTyped
    BY <2>1, <2>2 DEF Init, SlavesTyped, ChannelsTyped
  <2>. QED BY <1>1, <2>3, <2>4, TypeParts DEF SchedInv
<1>4. ASSUME NEW w \in Workers PROVE SlaveInv(w)
  <2>1. OrdersInTurn(w)
    <3>1. Now(w) = Due
      BY <1>2 DEF Now, Due, State
    <3>2. Track(Now(w), <<>>, Due)
      BY <3>1, TrackNone
    <3>. QED BY <1>2, <3>2 DEF OrdersInTurn
  <2>2. OwnCheckpoint(w) /\ LeavesLast(w) /\ Invited(w) /\ Identified(w) /\ Recruited(w)
    BY <1>2, HasNone DEF OwnCheckpoint, LeavesLast, Invited, Identified, Recruited
  <2>3. AtWork(w) /\ LastWord(w) /\ ReportsOnce(w)
    BY <1>2 DEF AtWork, LastWord, ReportsOnce
  <2>. QED BY <2>1, <2>2, <2>3 DEF SlaveInv
<1>5. ClosingTime /\ LoadsCounted
  BY <1>2 DEF ClosingTime, LoadsCounted
<1>. QED BY <1>1, <1>3, <1>4, <1>5 DEF ProtocolInv

\* Stuttering.
LEMMA ProtocolStutter ==
  ASSUME ProtocolInv, UNCHANGED vars
  PROVE  ProtocolInv'
<1>1. /\ UNCHANGED schedVars /\ UNCHANGED masterVars /\ UNCHANGED slaveVars
      /\ UNCHANGED <<toSlave, toMaster>>
  BY DEF vars
<1>2. /\ UNCHANGED <<phase, task, closing, respondents, initialized, inactive, queue, raised>>
      /\ UNCHANGED <<at, serving, interval>>
  BY <1>1 DEF schedVars, masterVars, slaveVars
<1>3. SchedInv'
  BY <1>1, NextInv DEF ProtocolInv
<1>4. TypeOK'
  <2>1. MasterTyped' /\ SlavesTyped' /\ ChannelsTyped'
    BY <1>1, Types, SlaveKeepsTypes, MasterKeepsTypes DEF ChannelsTyped
  <2>. QED BY <1>3, <2>1, TypePartsNext DEF SchedInv
<1>5. \A v \in Workers : SlaveInv(v)'
  <2>1. SameTask /\ \A v \in Workers : SameFor(v)
    BY <1>1, <1>2 DEF SameTask, SameFor
  <2>. QED BY <2>1, Elsewhere DEF ProtocolInv
<1>6. ClosingTime' /\ LoadsCounted'
  <2>1. Respondents' = Respondents
    BY <1>1, <1>2 DEF Respondents
  <2>. QED BY <1>2, <2>1 DEF ProtocolInv, ClosingTime, LoadsCounted
<1>. QED BY <1>3, <1>4, <1>5, <1>6 DEF ProtocolInv

\* No step of any process breaks it.
LEMMA ProtocolStep ==
  ASSUME ProtocolInv, [Next]_vars
  PROVE  ProtocolInv'
<1>1. ASSUME NEW items \in SUBSET Items, BeginTask(items) PROVE ProtocolInv'
  BY <1>1, BeginTaskStep
<1>2. CASE SetupThrows
  BY <1>2, SetupThrowsStep
<1>3. ASSUME NEW w \in Workers, NEW k \in Kinds, Capture(w, k) PROVE ProtocolInv'
  BY <1>3, CaptureStep
<1>4. ASSUME NEW w \in Workers, \/ Discard(w) \/ PushAssignment(w) \/ ReceiveData(w)
                                \/ ReceiveFinished(w) \/ ReceiveCloseDown(w) \/ ReceiveLoad(w)
      PROVE  ProtocolInv'
  BY <1>4, DiscardStep, PushStep, ReceiveDataStep, ReceiveFinishedStep,
     ReceiveCloseDownStep, ReceiveLoadStep
<1>5. CASE SendCloseDown \/ Plan \/ Aggregate \/ EndPolling \/ CloseTask \/ AbortTask
           \/ QueryLoads \/ Terminate
  BY <1>5, SendCloseDownStep, PlanStep, AggregateStep, EndPollingStep, CloseTaskStep,
     AbortTaskStep, LastOrders
<1>6. ASSUME NEW w \in Workers, SlaveNext(w) PROVE ProtocolInv'
  <2>1. CASE \E i \in Items, ok, flush \in BOOLEAN : SlaveProcess(w, i, ok, flush)
    BY <2>1, ProcessStep
  <2>2. CASE \E i \in Items : SlaveMiscount(w, i)
    BY <2>2, MiscountStep
  <2>3. CASE \E ok \in BOOLEAN : SlaveFinish(w, ok)
    BY <2>3, FinishStep
  <2>4. CASE \/ SlaveCheckpoint(w) \/ SlaveBegin(w) \/ SlaveSkip(w) \/ SlaveAssignment(w)
             \/ SlaveClose(w) \/ SlaveReportLoad(w) \/ SlaveTerminate(w)
    BY <2>4, CheckpointStep, BeginStep, SkipStep, AssignmentStep, CloseStep,
       ReportLoadStep, TerminateStep
  <2>. QED BY <1>6, <2>1, <2>2, <2>3, <2>4 DEF SlaveNext
<1>7. CASE UNCHANGED vars \/ Finished
  BY <1>7, ProtocolStutter DEF Finished
<1>. QED BY <1>1, <1>2, <1>3, <1>4, <1>5, <1>6, <1>7 DEF Next, MasterNext

\* Whatever is thrown, skipped or rejected, master and slaves agree on where
\* every slave will be when it has read its mail.
THEOREM ProtocolInvariant == Spec => []ProtocolInv
<1>1. Init => ProtocolInv
  BY ProtocolStart
<1>2. ProtocolInv /\ [Next]_vars => ProtocolInv'
  BY ProtocolStep
<1>. QED BY <1>1, <1>2, PTL DEF Spec

\* Type correctness; the master never counts more loads than it has workers.
THEOREM ProtocolTypes == Spec => []TypeOK
<1>1. ProtocolInv => TypeOK
  BY DEF ProtocolInv
<1>. QED BY <1>1, ProtocolInvariant, PTL

\* poll_workers() never takes a message of an earlier task for one of the
\* current task, although no message says which task it belongs to.
THEOREM NoMessageIsStale == Spec => []NoStaleMessage
<1>1. ASSUME ProtocolInv PROVE NoStaleMessage
  <2>1. SUFFICES ASSUME phase \in {"poll", "drain"}, NEW w \in Workers,
                        NEW k \in DOMAIN toMaster[w]
                 PROVE  toMaster[w][k].task = task
    BY DEF NoStaleMessage
  <2>2. toMaster[w] \in Seq(Message) /\ AtWork(w)
    BY <1>1, Types DEF ProtocolInv, SlaveInv
  <2>3. k \in 1 .. Len(toMaster[w])
    BY <2>2, LenProperties
  <2>. QED BY <2>1, <2>2, <2>3 DEF AtWork
<1>. QED BY <1>1, ProtocolInvariant, PTL

\* When poll_workers() leaves its loop there is nothing left to hear.
THEOREM AllIsHeard == Spec => []NothingUnread
<1>1. ProtocolInv => NothingUnread
  BY ClosingSent DEF NothingUnread
<1>. QED BY <1>1, ProtocolInvariant, PTL

\* No process ever finds in a channel a message it does not expect there.
THEOREM AllIsExpected == Spec => []OnlyExpectedMessages
<1>1. ASSUME ProtocolInv PROVE OnlyExpectedMessages
  <2>1. ASSUME NEW w \in Workers, toSlave[w] # <<>>
        PROVE  Head(toSlave[w]).tag \in Understood(w)
    <3>1. SlaveInv(w) /\ toSlave[w] \in Seq(Message)
          /\ at[w] \in {"wait", "task", "work", "leaving", "exited"}
      BY <1>1, Types DEF ProtocolInv
    <3>2. PICK q \in Seq(Message) : q = toSlave[w]
      BY <3>1
    <3>3. Track(Now(w), q, Due)
      BY <2>1, <3>1, <3>2 DEF SlaveInv, OrdersInTurn, Skipped
    <3>4. Accepts(Now(w), Head(q))
      BY <2>1, <3>2, <3>3, TrackTaken
    <3>. QED BY <3>1, <3>2, <3>4 DEF Accepts, Now, State, Understood
  <2>2. ASSUME NEW w \in Workers, phase = "poll", toMaster[w] # <<>>
        PROVE  Head(toMaster[w]).tag \in Expected
    <3>1. AtWork(w) /\ toMaster[w] \in Seq(Message)
      BY <1>1, Types DEF ProtocolInv, SlaveInv
    <3>2. Head(toMaster[w]) = toMaster[w][1] /\ 1 \in 1 .. Len(toMaster[w])
      BY <2>2, <3>1, Taken
    <3>. QED BY <2>2, <3>1, <3>2 DEF AtWork, Expected
  <2>. QED BY <2>1, <2>2 DEF OnlyExpectedMessages
<1>. QED BY <1>1, ProtocolInvariant, PTL

\* A slave works with the checkpoint interval of the task it serves, however
\* the tasks before it ended.
THEOREM CheckpointIsOwn == Spec => []CheckpointOfOwnTask
<1>1. ASSUME ProtocolInv PROVE CheckpointOfOwnTask
  BY <1>1 DEF ProtocolInv, SlaveInv, OwnCheckpoint, C, CheckpointOfOwnTask
<1>. QED BY <1>1, ProtocolInvariant, PTL

\* Work is dealt out only when every slave has joined the task.
THEOREM AllJoinBeforeWork == Spec => []JoinedBeforeWork
<1>1. ProtocolInv => JoinedBeforeWork
  BY DEF ProtocolInv, SlaveInv, AtWork, JoinedBeforeWork
<1>. QED BY <1>1, ProtocolInvariant, PTL

=============================================================================
