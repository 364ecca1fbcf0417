------------------------- MODULE TaskAccountsProofs -------------------------
(***************************************************************************)
(* Proofs about the work itself: who holds which item, what the scheduler  *)
(* counts as in flight, and what a committed task has made of its items.   *)
(* They are about backends that do not throw: when one does, the slave's   *)
(* count of its items goes wrong and the scheduler ends the task.          *)
(***************************************************************************)
EXTENDS TaskProtocolProofs

-----------------------------------------------------------------------------
(* Messages that matter                                                    *)

Orders == {"NEW_WORK_ASSIGNMENT"}
Answers == {"FINISHED", "FAIL"}
Carriers == Answers \cup {"DATA_READY"}

\* Is a message with one of these tags in the channel, one that holds item i,
\* at most one, and no two that hold the same item?
HasAny(q, tags) == \E k \in 1 .. Len(q) : q[k].tag \in tags
Holds(q, tags, i) == \E k \in 1 .. Len(q) : q[k].tag \in tags /\ i \in q[k].items
Single(q, tags) ==
  \A j, k \in 1 .. Len(q) : q[j].tag \in tags /\ q[k].tag \in tags => j = k
Apart(q, tags) ==
  \A j, k \in 1 .. Len(q) :
    j # k /\ q[j].tag \in tags /\ q[k].tag \in tags => q[j].items \cap q[k].items = {}

-----------------------------------------------------------------------------
(* The invariant: what is in the channels                                  *)

\* Nothing comes from a task that has not begun.  When a task begins, what
\* still carries items belongs to an earlier one; while the master polls, all
\* mail is of its task (AtWork says so of the reports).
OrdersDated(w) ==
  \A k \in 1 .. Len(toSlave[w]) :
    /\ toSlave[w][k].task <= task
    /\ phase = "capture" /\ toSlave[w][k].tag \in Orders => toSlave[w][k].task < task
    /\ phase \in {"poll", "drain"} => toSlave[w][k].task = task
ReportsDated(w) ==
  \A k \in 1 .. Len(toMaster[w]) :
    /\ toMaster[w][k].task <= task
    /\ phase = "capture" /\ toMaster[w][k].tag # "WORKER_IDENTIFICATION"
         => toMaster[w][k].task < task

\* A slave that has joined the new task has nothing yet, and one that has
\* closed its batcher nothing any more.
UpToDate(w) ==
  /\ serving[w] <= task
  /\ phase = "capture" /\ serving[w] = task =>
       at[w] = "task" /\ cache[w] = {} /\ toSlave[w] = <<>>
  /\ phase \in {"poll", "drain"} /\ at[w] = "wait" => cache[w] = {}

Live == phase \in {"poll", "drain"} /\ raised = "none"

\* A worker counts as assigned from the moment its assignment is sent until
\* its answer is read, and there is one assignment or one answer about it.
OneAssignment(w) ==
  Live =>
    /\ w \in assigned <=> \/ HasAny(toSlave[w], Orders) \/ at[w] = "work"
                          \/ HasAny(toMaster[w], Answers)
    /\ HasAny(toSlave[w], Orders) => at[w] # "work" /\ ~HasAny(toMaster[w], Answers)
    /\ at[w] = "work" => ~HasAny(toMaster[w], Answers)
    /\ Single(toSlave[w], Orders) /\ Single(toMaster[w], Answers)

WorkerInv(w) == OrdersDated(w) /\ ReportsDated(w) /\ UpToDate(w) /\ OneAssignment(w)

-----------------------------------------------------------------------------
(* The invariant: what has been handed out                                 *)

\* share is what worker w was handed and has not answered for.  It is what
\* the slave counts, item by item, and what the answer must amount to.
HandedOut(w, share) ==
  /\ w \notin assigned => share = {}
  /\ \A k \in 1 .. Len(toSlave[w]) :
       toSlave[w][k].tag \in Orders => toSlave[w][k].items = share
  /\ at[w] = "work" =>
       /\ todo[w] \cap bad[w] = {}
       /\ Cardinality(share) = Cardinality(todo[w]) + good[w] + Cardinality(bad[w])
  /\ \A k \in 1 .. Len(toMaster[w]) :
       toMaster[w][k].tag \in Answers => toMaster[w][k].n = Cardinality(share)

\* Shares are disjoint, and what they amount to is in flight.
Shared(sh) ==
  /\ \A v, w \in Workers : v # w => sh[v] \cap sh[w] = {}
  /\ inFlight = Cardinality(UNION {sh[w] : w \in Workers})
  /\ \A w \in Workers : sh[w] \cap queue = {} /\ HandedOut(w, sh[w])
SharesCounted == Live => \E sh \in [Workers -> SUBSET Items] : Shared(sh)

-----------------------------------------------------------------------------
(* The invariant: where each item is                                       *)

Aggregating(i) == \E k \in 1 .. Len(aggregations) : i \in aggregations[k]

WithWorker == {"order", "desk", "cache", "report"}
Places == WithWorker \cup
          {"elsewhere", "queue", "stored", "failures", "dropped", "aggregations"}

\* Item i is in this place, one of worker w's if workers have such a place.
Here(i, place, w) ==
  CASE place = "elsewhere" -> i \notin wanted
    [] place = "queue" -> i \in queue
    [] place = "stored" -> i \in stored
    [] place = "failures" -> i \in failures
    [] place = "dropped" -> i \in dropped
    [] place = "aggregations" -> Aggregating(i)
    [] place = "order" -> Holds(toSlave[w], Orders, i)
    [] place = "desk" -> at[w] = "work" /\ i \in todo[w] \cup bad[w]
    [] place = "cache" -> i \in cache[w]
    [] OTHER -> Holds(toMaster[w], Carriers, i)

\* whr[i] is the one place where item i is, and who[i] the worker it is with.
Located(whr, who) ==
  \A i \in Items, place \in Places, w \in Workers :
    Here(i, place, w) <=> whr[i] = place /\ (place \in WithWorker => who[i] = w)
AllLocated == \E whr \in [Items -> Places], who \in [Items -> Workers] : Located(whr, who)

KeptApart ==
  /\ \A j, k \in 1 .. Len(aggregations) : j # k => aggregations[j] \cap aggregations[k] = {}
  /\ \A w \in Workers : Apart(toMaster[w], Carriers)

ItemsLocated == Live => AllLocated /\ KeptApart

-----------------------------------------------------------------------------
(* The invariant: before the polling, and after                            *)

\* Before the polling everything is in the queue; when the polling is over
\* nothing is left there.
Ledger ==
  /\ phase = "capture" =>
       /\ raised = "none" /\ assigned = {} /\ inFlight = 0 /\ queue = wanted
       /\ stored = {} /\ failures = {} /\ dropped = {} /\ aggregations = <<>>
  /\ phase = "drain" => queue = {} /\ raised = "none"
  /\ raised \in {"none", "mixed_strategy"} /\ kinds \subseteq Kinds
  /\ raised = "mixed_strategy" => kinds = {"cpu", "gpu"}

\* What a committed task leaves behind: its items, settled, and no trace of
\* them anywhere else.
Closed == phase \in {"next", "loads", "over"} /\ task > 0 /\ result[task] = "committed"
Gone(w) ==
  /\ at[w] \notin {"task", "work"} /\ cache[w] = {}
  /\ ~HasAny(toSlave[w], Orders) /\ ~HasAny(toMaster[w], Carriers)
Settled ==
  Closed =>
    /\ queue = {} /\ aggregations = <<>>
    /\ stored \cup failures \cup dropped = wanted
    /\ stored \cap failures = {} /\ stored \cap dropped = {} /\ failures \cap dropped = {}
    /\ \A w \in Workers : Gone(w)

AccountsInv ==
  /\ \A w \in Workers : WorkerInv(w)
  /\ SharesCounted /\ ItemsLocated /\ Ledger /\ Settled

-----------------------------------------------------------------------------
(* Channels                                                                *)

\* What a channel holds when a message has been put in ...
LEMMA QueuePut ==
  ASSUME NEW q \in Seq(Message), NEW m \in Message, NEW tags
  PROVE  /\ HasAny(Append(q, m), tags) <=> HasAny(q, tags) \/ m.tag \in tags
         /\ \A i : Holds(Append(q, m), tags, i)
                     <=> Holds(q, tags, i) \/ (m.tag \in tags /\ i \in m.items)
         /\ ~HasAny(q, tags) \/ m.tag \notin tags =>
              (Single(q, tags) => Single(Append(q, m), tags))
         /\ Apart(q, tags) /\ (m.tag \in tags => \A i \in m.items : ~Holds(q, tags, i))
              => Apart(Append(q, m), tags)
<1> DEFINE r == Append(q, m)
           n == Len(q)
<1>1. /\ n \in Nat /\ Len(r) = n + 1 /\ r[n + 1] = m
      /\ \A k \in 1 .. n : r[k] = q[k]
  BY Put
<1>2. /\ \A k \in 1 .. Len(r) : k \in 1 .. n \/ k = n + 1
      /\ \A k \in 1 .. n : k \in 1 .. Len(r)
      /\ n + 1 \in 1 .. Len(r) /\ n + 1 \notin 1 .. n
  BY <1>1
<1> HIDE DEF r, n
<1>3. HasAny(r, tags) <=> HasAny(q, tags) \/ m.tag \in tags
  BY <1>1, <1>2 DEF HasAny, n
<1>4. ASSUME NEW i
      PROVE  Holds(r, tags, i) <=> Holds(q, tags, i) \/ (m.tag \in tags /\ i \in m.items)
  BY <1>1, <1>2 DEF Holds, n
<1>5. ASSUME ~HasAny(q, tags) \/ m.tag \notin tags, Single(q, tags)
      PROVE  Single(r, tags)
  BY <1>1, <1>2, <1>5 DEF Single, HasAny, n
<1>6. ASSUME Apart(q, tags), m.tag \in tags => \A i \in m.items : ~Holds(q, tags, i)
      PROVE  Apart(r, tags)
  <2>1. SUFFICES ASSUME NEW j \in 1 .. Len(r), NEW k \in 1 .. Len(r), j # k,
                        r[j].tag \in tags, r[k].tag \in tags
                 PROVE  r[j].items \cap r[k].items = {}
    BY DEF Apart
  <2>2. CASE j \in 1 .. n /\ k \in 1 .. n
    BY <1>1, <1>6, <2>1, <2>2 DEF Apart, n
  <2>3. CASE j \in 1 .. n /\ k = n + 1
    BY <1>1, <1>6, <2>1, <2>3 DEF Holds, n
  <2>4. CASE k \in 1 .. n /\ j = n + 1
    BY <1>1, <1>6, <2>1, <2>4 DEF Holds, n
  <2>. QED BY <1>2, <2>1, <2>2, <2>3, <2>4
<1>. QED BY <1>3, <1>4, <1>5, <1>6 DEF r

\* The same, one conclusion at a time: a kind of message is there if it was or has been put in.
LEMMA HasAnyPut ==
  ASSUME NEW q \in Seq(Message), NEW m \in Message, NEW tags
  PROVE  HasAny(Append(q, m), tags) <=> HasAny(q, tags) \/ m.tag \in tags
BY QueuePut

\* What is held is what was, and what the new message holds.
LEMMA HoldsPut ==
  ASSUME NEW q \in Seq(Message), NEW m \in Message, NEW tags, NEW i
  PROVE  Holds(Append(q, m), tags, i) <=> Holds(q, tags, i) \/ (m.tag \in tags /\ i \in m.items)
BY QueuePut

\* There is still one at most, if there was none or the new one is not of the kind.
LEMMA SinglePut ==
  ASSUME NEW q \in Seq(Message), NEW m \in Message, NEW tags, Single(q, tags),
         ~HasAny(q, tags) \/ m.tag \notin tags
  PROVE  Single(Append(q, m), tags)
BY QueuePut

\* Nothing is held twice, if what the new message holds was not held before.
LEMMA ApartPut ==
  ASSUME NEW q \in Seq(Message), NEW m \in Message, NEW tags, Apart(q, tags),
         m.tag \in tags => \A i \in m.items : ~Holds(q, tags, i)
  PROVE  Apart(Append(q, m), tags)
BY QueuePut

\* What a channel holds when a message has been taken out.
LEMMA QueueTaken ==
  ASSUME NEW q \in Seq(Message), q # <<>>, NEW tags
  PROVE  /\ HasAny(q, tags) <=> HasAny(Tail(q), tags) \/ Head(q).tag \in tags
         /\ \A i : Holds(q, tags, i)
                     <=> Holds(Tail(q), tags, i) \/ (Head(q).tag \in tags /\ i \in Head(q).items)
         /\ Single(q, tags) => /\ Single(Tail(q), tags)
                               /\ Head(q).tag \in tags => ~HasAny(Tail(q), tags)
         /\ Apart(q, tags) =>
              /\ Apart(Tail(q), tags)
              /\ Head(q).tag \in tags => \A i \in Head(q).items : ~Holds(Tail(q), tags, i)
<1> DEFINE r == Tail(q)
           n == Len(q)
           m == Head(q)
<1>1. /\ n \in Nat \ {0} /\ Len(r) = n - 1 /\ m = q[1]
      /\ \A k \in 1 .. Len(r) : k + 1 \in 1 .. n /\ r[k] = q[k + 1]
  BY Taken
<1>2. /\ \A k \in 1 .. n : k = 1 \/ (k - 1 \in 1 .. Len(r) /\ q[k] = r[k - 1])
      /\ 1 \in 1 .. n
      /\ \A k \in 1 .. Len(r) : k + 1 # 1
      /\ \A j, k \in 1 .. Len(r) : j + 1 = k + 1 => j = k
  <2>1. \A k \in 1 .. n : k # 1 => k - 1 \in 1 .. Len(r) /\ (k - 1) + 1 = k
    BY <1>1
  <2>. QED BY <1>1, <2>1
<1> HIDE DEF r, n, m
<1>3. HasAny(q, tags) <=> HasAny(r, tags) \/ m.tag \in tags
  BY <1>1, <1>2 DEF HasAny, n
<1>4. ASSUME NEW i
      PROVE  Holds(q, tags, i) <=> Holds(r, tags, i) \/ (m.tag \in tags /\ i \in m.items)
  BY <1>1, <1>2 DEF Holds, n
<1>5. ASSUME Single(q, tags)
      PROVE  Single(r, tags) /\ (m.tag \in tags => ~HasAny(r, tags))
  BY <1>1, <1>2, <1>5 DEF Single, HasAny, n
<1>6. ASSUME Apart(q, tags)
      PROVE  Apart(r, tags) /\ (m.tag \in tags => \A i \in m.items : ~Holds(r, tags, i))
  <2>1. Apart(r, tags)
    BY <1>1, <1>2, <1>6 DEF Apart, n
  <2>2. m.tag \in tags => \A i \in m.items : ~Holds(r, tags, i)
    BY <1>1, <1>2, <1>6 DEF Apart, Holds, n
  <2>. QED BY <2>1, <2>2
<1>. QED BY <1>3, <1>4, <1>5, <1>6 DEF r, m

\* The same, one conclusion at a time: a kind of message is there, ...
LEMMA HasAnyTaken ==
  ASSUME NEW q \in Seq(Message), q # <<>>, NEW tags
  PROVE  HasAny(q, tags) <=> HasAny(Tail(q), tags) \/ Head(q).tag \in tags
BY QueueTaken

\* ... an item is held, ...
LEMMA HoldsTaken ==
  ASSUME NEW q \in Seq(Message), q # <<>>, NEW tags, NEW i
  PROVE  Holds(q, tags, i)
           <=> Holds(Tail(q), tags, i) \/ (Head(q).tag \in tags /\ i \in Head(q).items)
BY QueueTaken

\* ... there is one at most, ...
LEMMA SingleTaken ==
  ASSUME NEW q \in Seq(Message), q # <<>>, NEW tags, Single(q, tags)
  PROVE  Single(Tail(q), tags) /\ (Head(q).tag \in tags => ~HasAny(Tail(q), tags))
BY QueueTaken

\* ... and no item is held twice.
LEMMA ApartTaken ==
  ASSUME NEW q \in Seq(Message), q # <<>>, NEW tags, Apart(q, tags)
  PROVE  /\ Apart(Tail(q), tags)
         /\ Head(q).tag \in tags => \A i \in Head(q).items : ~Holds(Tail(q), tags, i)
BY QueueTaken

\* Nothing is in an empty channel.
LEMMA QueueEmpty ==
  ASSUME NEW tags
  PROVE  /\ ~HasAny(<<>>, tags) /\ Single(<<>>, tags) /\ Apart(<<>>, tags)
         /\ \A i : ~Holds(<<>>, tags, i)
BY DEF HasAny, Single, Apart, Holds

\* What is true of every message stays true of them, and is true of them all
\* if it is true of the new one.
LEMMA EachPut ==
  ASSUME NEW q \in Seq(Message), NEW m \in Message, NEW k \in 1 .. Len(Append(q, m))
  PROVE  \/ k \in 1 .. Len(q) /\ Append(q, m)[k] = q[k]
         \/ Append(q, m)[k] = m
<1>1. /\ Len(q) \in Nat /\ Len(Append(q, m)) = Len(q) + 1
      /\ \A j \in 1 .. Len(q) : Append(q, m)[j] = q[j]
      /\ Append(q, m)[Len(q) + 1] = m
  BY Put
<1>. QED BY <1>1

\* What is left in a channel was in it before.
LEMMA EachTaken ==
  ASSUME NEW q \in Seq(Message), q # <<>>, NEW k \in 1 .. Len(Tail(q))
  PROVE  k + 1 \in 1 .. Len(q) /\ Tail(q)[k] = q[k + 1]
BY Taken

-----------------------------------------------------------------------------
(* The aggregation queue                                                   *)

\* A container is put at the end of the queue ...
LEMMA ContainerPut ==
  ASSUME aggregations \in Seq(SUBSET Items), NEW s \in SUBSET Items,
         aggregations' = Append(aggregations, s)
  PROVE  /\ \A i : Aggregating(i)' <=> Aggregating(i) \/ i \in s
         /\ /\ \A j, k \in 1 .. Len(aggregations) :
                 j # k => aggregations[j] \cap aggregations[k] = {}
            /\ \A i \in s : ~Aggregating(i)
            => \A j, k \in 1 .. Len(aggregations') :
                 j # k => aggregations'[j] \cap aggregations'[k] = {}
<1> DEFINE q == aggregations
           r == aggregations'
           n == Len(q)
<1>1. /\ n \in Nat /\ Len(r) = n + 1 /\ r[n + 1] = s
      /\ \A k \in 1 .. n : r[k] = q[k]
  BY AppendProperties, LenProperties
<1>2. /\ \A k \in 1 .. Len(r) : k \in 1 .. n \/ k = n + 1
      /\ \A k \in 1 .. n : k \in 1 .. Len(r)
      /\ n + 1 \in 1 .. Len(r) /\ n + 1 \notin 1 .. n
  BY <1>1
<1>3. \A i : Aggregating(i) <=> \E k \in 1 .. n : i \in q[k]
  BY DEF Aggregating
<1>4. \A i : Aggregating(i)' <=> \E k \in 1 .. Len(r) : i \in r[k]
  BY DEF Aggregating
<1> HIDE DEF q, r, n
<1>5. \A i : Aggregating(i)' <=> Aggregating(i) \/ i \in s
  BY <1>1, <1>2, <1>3, <1>4
<1>6. ASSUME \A j, k \in 1 .. n : j # k => q[j] \cap q[k] = {}, \A i \in s : ~Aggregating(i),
             NEW j \in 1 .. Len(r), NEW k \in 1 .. Len(r), j # k
      PROVE  r[j] \cap r[k] = {}
  BY <1>1, <1>2, <1>3, <1>6
<1>. QED BY <1>5, <1>6 DEF q, r, n

\* ... and taken from its head.
LEMMA ContainerTaken ==
  ASSUME aggregations \in Seq(SUBSET Items), aggregations # <<>>,
         aggregations' = Tail(aggregations)
  PROVE  /\ Head(aggregations) \in SUBSET Items
         /\ \A i : Aggregating(i) <=> Aggregating(i)' \/ i \in Head(aggregations)
         /\ (\A j, k \in 1 .. Len(aggregations) :
               j # k => aggregations[j] \cap aggregations[k] = {})
            => /\ \A j, k \in 1 .. Len(aggregations') :
                    j # k => aggregations'[j] \cap aggregations'[k] = {}
               /\ \A i \in Head(aggregations) : ~Aggregating(i)'
<1> DEFINE q == aggregations
           r == aggregations'
           n == Len(q)
           m == Head(q)
<1>1. /\ n \in Nat \ {0} /\ Len(r) = n - 1 /\ m = q[1] /\ m \in SUBSET Items
      /\ \A k \in 1 .. Len(r) : r[k] = q[k + 1]
  BY HeadTailProperties, LenProperties, EmptySeq
<1>2. /\ \A k \in 1 .. n : k = 1 \/ (k - 1 \in 1 .. Len(r) /\ q[k] = r[k - 1])
      /\ \A k \in 1 .. Len(r) : k + 1 \in 1 .. n /\ k + 1 # 1
      /\ 1 \in 1 .. n
      /\ \A j, k \in 1 .. Len(r) : j + 1 = k + 1 => j = k
  <2>1. \A k \in 1 .. n : k # 1 => k - 1 \in 1 .. Len(r) /\ (k - 1) + 1 = k
    BY <1>1
  <2>. QED BY <1>1, <2>1
<1>3. \A i : Aggregating(i) <=> \E k \in 1 .. n : i \in q[k]
  BY DEF Aggregating
<1>4. \A i : Aggregating(i)' <=> \E k \in 1 .. Len(r) : i \in r[k]
  BY DEF Aggregating
<1> HIDE DEF q, r, n, m
<1>5. \A i : Aggregating(i) <=> Aggregating(i)' \/ i \in m
  BY <1>1, <1>2, <1>3, <1>4
<1>6. ASSUME \A j, k \in 1 .. n : j # k => q[j] \cap q[k] = {}
      PROVE  /\ \A j, k \in 1 .. Len(r) : j # k => r[j] \cap r[k] = {}
             /\ \A i \in m : ~Aggregating(i)'
  <2>1. ASSUME NEW j \in 1 .. Len(r), NEW k \in 1 .. Len(r), j # k
        PROVE  r[j] \cap r[k] = {}
    <3>1. j + 1 \in 1 .. n /\ k + 1 \in 1 .. n /\ j + 1 # k + 1
      BY <1>2, <2>1
    <3>. QED BY <1>1, <1>6, <3>1
  <2>2. \A k \in 1 .. Len(r) : m \cap r[k] = {}
    BY <1>1, <1>2, <1>6
  <2>. QED BY <1>4, <2>1, <2>2
<1>7. /\ Head(aggregations) \in SUBSET Items
      /\ \A i : Aggregating(i) <=> Aggregating(i)' \/ i \in Head(aggregations)
  BY <1>1, <1>5 DEF m, q
<1>8. ASSUME \A j, k \in 1 .. Len(aggregations) :
               j # k => aggregations[j] \cap aggregations[k] = {}
      PROVE  /\ \A j, k \in 1 .. Len(aggregations') :
                   j # k => aggregations'[j] \cap aggregations'[k] = {}
             /\ \A i \in Head(aggregations) : ~Aggregating(i)'
  <2>1. \A j, k \in 1 .. n : j # k => q[j] \cap q[k] = {}
    BY <1>8 DEF q, n
  <2>. QED BY <1>6, <2>1 DEF q, r, m
<1>. QED BY <1>7, <1>8

-----------------------------------------------------------------------------
(* Places                                                                  *)

\* An item is in one place only, and with one worker.
LEMMA OnePlace ==
  ASSUME AllLocated, NEW i \in Items, NEW p \in Places, NEW q \in Places,
         NEW v \in Workers, NEW w \in Workers, Here(i, p, v), Here(i, q, w)
  PROVE  p = q /\ (p \in WithWorker => v = w)
<1>1. PICK whr \in [Items -> Places], who \in [Items -> Workers] : Located(whr, who)
  BY DEF AllLocated
<1>2. Here(i, p, v) <=> whr[i] = p /\ (p \in WithWorker => who[i] = v)
  BY <1>1 DEF Located
<1>3. Here(i, q, w) <=> whr[i] = q /\ (q \in WithWorker => who[i] = w)
  BY <1>1 DEF Located
<1>. QED BY <1>2, <1>3

\* ... and it is in one.
LEMMA SomePlace ==
  ASSUME AllLocated, NEW i \in Items
  PROVE  \E p \in Places, w \in Workers : Here(i, p, w)
<1>1. PICK whr \in [Items -> Places], who \in [Items -> Workers] : Located(whr, who)
  BY DEF AllLocated
<1>2. whr[i] \in Places /\ who[i] \in Workers
  OBVIOUS
<1>3. Here(i, whr[i], who[i])
  BY <1>1, <1>2 DEF Located
<1>. QED BY <1>2, <1>3

\* A place a step does not change, one that items leave, and one they reach.
Same(p) == \A i \in Items, v \in Workers : Here(i, p, v)' <=> Here(i, p, v)
Leaving(p, M, w) ==
  \A i \in Items, v \in Workers :
    Here(i, p, v)' <=> Here(i, p, v) /\ ~(i \in M /\ (p \in WithWorker => v = w))
Reaching(p, M, w) ==
  \A i \in Items, v \in Workers :
    Here(i, p, v)' <=> Here(i, p, v) \/ (i \in M /\ (p \in WithWorker => v = w))

Transfer(M, from, to, w) ==
  /\ M \subseteq Items /\ from \subseteq Places /\ to \in Places \ from
  /\ \A i \in M : \E p \in from : Here(i, p, w)
  /\ \A p \in from : Leaving(p, M, w)
  /\ Reaching(to, M, w)
  /\ \A p \in Places \ (from \cup {to}) : Same(p)

\* When items move to another place they are in one place again.
LEMMA Moving ==
  ASSUME AllLocated, NEW M, NEW from, NEW to, NEW w \in Workers, Transfer(M, from, to, w)
  PROVE  AllLocated'
<1>0. /\ M \subseteq Items /\ from \subseteq Places /\ to \in Places \ from
      /\ \A i \in M : \E p \in from : Here(i, p, w)
      /\ \A p \in from : Leaving(p, M, w)
      /\ Reaching(to, M, w)
      /\ \A p \in Places \ (from \cup {to}) : Same(p)
  BY DEF Transfer
<1>1. PICK whr \in [Items -> Places], who \in [Items -> Workers] : Located(whr, who)
  BY DEF AllLocated
<1> DEFINE whr2 == [i \in Items |-> IF i \in M THEN to ELSE whr[i]]
           who2 == [i \in Items |-> IF i \in M THEN w ELSE who[i]]
<1>2. whr2 \in [Items -> Places] /\ who2 \in [Items -> Workers]
  BY <1>0
<1>3. ASSUME NEW i \in Items, NEW p \in Places, NEW v \in Workers
      PROVE  Here(i, p, v)' <=> whr2[i] = p /\ (p \in WithWorker => who2[i] = v)
  <2>1. Here(i, p, v) <=> whr[i] = p /\ (p \in WithWorker => who[i] = v)
    BY <1>1 DEF Located
  <2>2. CASE i \notin M
    <3>1. Here(i, p, v)' <=> Here(i, p, v)
      BY <1>0, <2>2 DEF Same, Leaving, Reaching
    <3>. QED BY <2>1, <2>2, <3>1
  <2>3. CASE i \in M
    <3>1. PICK q \in from : Here(i, q, w)
      BY <1>0, <2>3
    <3>2. whr[i] = q
      BY <1>0, <1>1, <3>1 DEF Located
    <3>3. CASE p = to
      <4>1. ~Here(i, p, v)
        BY <1>0, <2>1, <3>2, <3>3
      <4>. QED BY <1>0, <2>3, <3>3, <4>1 DEF Reaching
    <3>4. CASE p \in from
      <4>1. CASE p \in WithWorker => v = w
        BY <1>0, <2>3, <3>4, <4>1 DEF Leaving
      <4>2. CASE p \in WithWorker /\ v # w
        <5>1. Here(i, p, v) => p = q /\ v = w
          BY <1>0, <3>1, <4>2, OnePlace
        <5>2. ~Here(i, p, v)'
          BY <1>0, <3>4, <4>2, <5>1 DEF Leaving
        <5>. QED BY <1>0, <2>3, <3>4, <5>2
      <4>. QED BY <4>1, <4>2
    <3>5. CASE p \notin from /\ p # to
      <4>1. ~Here(i, p, v)
        BY <2>1, <3>2, <3>5
      <4>. QED BY <1>0, <2>3, <3>5, <4>1 DEF Same
    <3>. QED BY <3>3, <3>4, <3>5
  <2>. QED BY <2>2, <2>3
<1> HIDE DEF whr2, who2
<1>4. Located(whr2, who2)'
  BY <1>3 DEF Located
<1>. QED BY <1>2, <1>4 DEF AllLocated

\* Nothing moves.
LEMMA Resting ==
  ASSUME AllLocated, \A p \in Places : Same(p)
  PROVE  AllLocated'
<1>1. PICK whr \in [Items -> Places], who \in [Items -> Workers] : Located(whr, who)
  BY DEF AllLocated
<1>2. Located(whr, who)'
  BY <1>1 DEF Located, Same
<1>. QED BY <1>1, <1>2 DEF AllLocated

\* The places of the master, and of a worker.
LEMMA SameAtMaster ==
  ASSUME UNCHANGED <<wanted, queue, stored, failures, dropped, aggregations>>
  PROVE  \A p \in Places \ WithWorker : Same(p)
<1>1. ASSUME NEW p \in {"elsewhere", "queue", "stored", "failures", "dropped", "aggregations"}
      PROVE  Same(p)
  BY DEF Same, Here, Aggregating
<1>. QED BY <1>1 DEF Places

-----------------------------------------------------------------------------
(* Steps that do not concern a worker                                      *)

\* What the accounts say of worker v does not change.
Idly(v) ==
  /\ at'[v] = at[v] /\ serving'[v] = serving[v] /\ cache'[v] = cache[v]
  /\ toSlave'[v] = toSlave[v] /\ toMaster'[v] = toMaster[v]
  /\ v \in assigned' <=> v \in assigned
SameDesk(v) == todo'[v] = todo[v] /\ good'[v] = good[v] /\ bad'[v] = bad[v]

\* Its part of the invariant stays true.
LEMMA OthersKeep ==
  ASSUME NEW v \in Workers, WorkerInv(v), Idly(v), UNCHANGED task, Live' => Live,
         phase' = phase \/ (phase = "poll" /\ phase' = "drain")
  PROVE  WorkerInv(v)'
BY DEF WorkerInv, Idly, OrdersDated, ReportsDated, UpToDate, OneAssignment, Live

\* A share is not touched by what happens to other workers.
LEMMA ShareKept ==
  ASSUME NEW v \in Workers, NEW share, HandedOut(v, share), Idly(v), SameDesk(v)
  PROVE  HandedOut(v, share)'
BY DEF HandedOut, Idly, SameDesk

\* The invariant speaks of the master only through these.
LEMMA LedgerKept ==
  ASSUME Ledger,
         UNCHANGED <<phase, raised, assigned, inFlight, queue, wanted, stored, failures,
                     dropped, aggregations, kinds>>
  PROVE  Ledger'
BY DEF Ledger

\* Hypotheses of the steps.
Good == ProtocolInv /\ AccountsInv

\* What the types say.
LEMMA Typing ==
  ASSUME Good
  PROVE  /\ ProtocolInv /\ AccountsInv /\ task \in Nat /\ NumTasks \in Nat
         /\ queue \in SUBSET Items /\ wanted \in SUBSET Items
         /\ stored \in SUBSET Items /\ failures \in SUBSET Items /\ dropped \in SUBSET Items
         /\ inFlight \in Nat /\ aggregations \in Seq(SUBSET Items)
         /\ \A w \in Workers :
              /\ at[w] \in {"wait", "task", "work", "leaving", "exited"}
              /\ serving[w] \in Nat /\ good[w] \in Nat
              /\ todo[w] \in SUBSET Items /\ bad[w] \in SUBSET Items
              /\ cache[w] \in SUBSET Items /\ plan[w] \in SUBSET Items
              /\ toSlave[w] \in Seq(Message) /\ toMaster[w] \in Seq(Message)
              /\ WorkerInv(w) /\ SlaveInv(w)
<1>1. ProtocolInv /\ AccountsInv
  BY DEF Good
<1>2. NumTasks \in Nat
  BY TasksAssumption
<1>3. SlavesTyped /\ ChannelsTyped /\ MasterTyped /\ SchedTypeOK /\ task \in 0 .. NumTasks
  BY <1>1, Types
<1>4. \A w \in Workers :
        /\ at[w] \in {"wait", "task", "work", "leaving", "exited"}
        /\ serving[w] \in 0 .. NumTasks /\ good[w] \in Nat
        /\ todo[w] \in SUBSET Items /\ bad[w] \in SUBSET Items /\ cache[w] \in SUBSET Items
        /\ toSlave[w] \in Seq(Message) /\ toMaster[w] \in Seq(Message)
  BY <1>1, Types
<1>5. \A w \in Workers : plan[w] \in SUBSET Items
  BY <1>3 DEF SchedTypeOK
<1>6. /\ queue \in SUBSET Items /\ wanted \in SUBSET Items /\ inFlight \in Nat
      /\ stored \in SUBSET Items /\ failures \in SUBSET Items /\ dropped \in SUBSET Items
      /\ aggregations \in Seq(SUBSET Items)
  BY <1>3 DEF SchedTypeOK, MasterTyped
<1>7. \A w \in Workers : WorkerInv(w) /\ SlaveInv(w)
  BY <1>1 DEF ProtocolInv, AccountsInv
<1>. QED BY <1>1, <1>2, <1>3, <1>4, <1>5, <1>6, <1>7

\* A field of a message is of its type.
LEMMA Fields ==
  ASSUME NEW m \in Message
  PROVE  m.task \in Nat /\ m.items \in SUBSET Items /\ m.n \in Nat
<1>1. NumTasks \in Nat
  BY TasksAssumption
<1>. QED BY <1>1 DEF Message

\* The functions the slaves' steps change.
LEMMA SlaveFunctions ==
  ASSUME Good
  PROVE  /\ at \in [Workers -> {"wait", "task", "work", "leaving", "exited"}]
         /\ serving \in [Workers -> 0 .. NumTasks] /\ good \in [Workers -> Nat]
         /\ todo \in [Workers -> SUBSET Items] /\ bad \in [Workers -> SUBSET Items]
         /\ cache \in [Workers -> SUBSET Items]
         /\ toSlave \in [Workers -> Seq(Message)] /\ toMaster \in [Workers -> Seq(Message)]
         /\ SlavesTyped /\ ChannelsTyped /\ task \in 0 .. NumTasks
<1>1. SlavesTyped /\ ChannelsTyped /\ task \in 0 .. NumTasks
  BY Types DEF Good
<1>. QED BY <1>1 DEF SlavesTyped, ChannelsTyped

-----------------------------------------------------------------------------
(* What a worker reads and writes                                          *)

\* Reading an order leaves the rest dated as they were.
LEMMA OrderRead ==
  ASSUME Good, NEW w \in Workers, toSlave[w] # <<>>, TakeOrder(w), UNCHANGED <<phase, task>>
  PROVE  /\ Head(toSlave[w]) \in Message /\ Head(toSlave[w]) = toSlave[w][1]
         /\ 1 \in 1 .. Len(toSlave[w])
         /\ toSlave'[w] = Tail(toSlave[w]) /\ toSlave'[w] \in Seq(Message)
         /\ \A v \in Workers \ {w} : toSlave'[v] = toSlave[v]
         /\ Accepts(Now(w), Head(toSlave[w])) /\ Head(toSlave[w]).task <= task
         /\ OrdersDated(w)'
<1>1. toSlave[w] \in Seq(Message) /\ OrdersDated(w) /\ ProtocolInv
  BY Typing DEF WorkerInv
<1>2. /\ Head(toSlave[w]) \in Message /\ Head(toSlave[w]) = toSlave[w][1]
      /\ toSlave'[w] = Tail(toSlave[w]) /\ toSlave' \in [Workers -> Seq(Message)]
      /\ Accepts(Now(w), Head(toSlave[w])) /\ Len(toSlave[w]) \in Nat \ {0}
      /\ \A v \in Workers \ {w} : toSlave'[v] = toSlave[v]
  BY <1>1, Reading
<1>3. 1 \in 1 .. Len(toSlave[w])
  BY <1>2
<1>4. Head(toSlave[w]).task <= task
  BY <1>1, <1>2, <1>3 DEF OrdersDated
<1>5. OrdersDated(w)'
  <2>1. SUFFICES ASSUME NEW k \in 1 .. Len(toSlave'[w])
                 PROVE  k + 1 \in 1 .. Len(toSlave[w])
                        /\ toSlave'[w][k] = toSlave[w][k + 1]
    BY <1>1 DEF OrdersDated
  <2>. QED BY <1>1, <1>2, EachTaken
<1>. QED BY <1>2, <1>3, <1>4, <1>5

\* What a slave sends is dated as it is.
LEMMA ReportWritten ==
  ASSUME Good, NEW w \in Workers, NEW m \in Message, UNCHANGED <<phase, task>>,
         toMaster' = [toMaster EXCEPT ![w] = Append(@, m)], m.task <= task,
         phase = "capture" /\ m.tag # "WORKER_IDENTIFICATION" => m.task < task
  PROVE  /\ toMaster'[w] = Append(toMaster[w], m) /\ toMaster'[w] \in Seq(Message)
         /\ toMaster[w] \in Seq(Message)
         /\ \A v \in Workers \ {w} : toMaster'[v] = toMaster[v]
         /\ ReportsDated(w)'
<1>1. toMaster[w] \in Seq(Message) /\ ReportsDated(w) /\ ChannelsTyped
  BY Typing, Types DEF WorkerInv
<1>2. /\ toMaster'[w] = Append(toMaster[w], m)
      /\ \A v \in Workers \ {w} : toMaster'[v] = toMaster[v]
  BY <1>1 DEF ChannelsTyped
<1>3. toMaster'[w] \in Seq(Message)
  BY <1>1, <1>2, Put
<1>4. ReportsDated(w)'
  <2>1. SUFFICES ASSUME NEW k \in 1 .. Len(toMaster'[w])
                 PROVE  \/ k \in 1 .. Len(toMaster[w]) /\ toMaster'[w][k] = toMaster[w][k]
                        \/ toMaster'[w][k] = m
    BY <1>1 DEF ReportsDated
  <2>. QED BY <1>1, <1>2, EachPut
<1>. QED BY <1>1, <1>2, <1>3, <1>4

\* While the master polls, a slave's mailbox holds assignments and the order
\* to close down, and the master's mailbox what it expects.
LEMMA PollingMail ==
  ASSUME Good, NEW w \in Workers, phase \in {"poll", "drain"}
  PROVE  /\ serving[w] = task /\ at[w] \in {"wait", "task", "work"}
         /\ \A k \in 1 .. Len(toSlave[w]) :
              /\ toSlave[w][k].task = task
              /\ toSlave[w][k].tag \in {"NEW_WORK_ASSIGNMENT", "END_OF_WORK"}
         /\ \A k \in 1 .. Len(toMaster[w]) :
              /\ toMaster[w][k].task = task
              /\ toMaster[w][k].tag \in Carriers \cup {"WORKER_CLOSE_DOWN"}
<1>1. SlaveInv(w) /\ WorkerInv(w)
  BY Typing
<1>2. AtWork(w) /\ LeavesLast(w) /\ OrdersDated(w)
  BY <1>1 DEF SlaveInv, WorkerInv
<1>. QED BY <1>2 DEF AtWork, LeavesLast, OrdersDated, Carriers, Answers

\* A step of a slave in which no item moves: it is not the time for it.
LEMMA OffDuty ==
  ASSUME Good, NEW w \in Workers, toSlave[w] # <<>>, TakeOrder(w),
         Head(toSlave[w]).tag \notin {"NEW_WORK_ASSIGNMENT", "END_OF_WORK"},
         UNCHANGED <<schedVars, masterVars>>,
         \A v \in Workers \ {w} : /\ at'[v] = at[v] /\ serving'[v] = serving[v]
                                  /\ cache'[v] = cache[v] /\ toMaster'[v] = toMaster[v],
         ReportsDated(w)', UpToDate(w)', Gone(w) /\ Closed => Gone(w)'
  PROVE  AccountsInv'
<1>1. /\ UNCHANGED <<phase, task, raised, assigned, inFlight, queue, wanted, stored, failures,
                     dropped, aggregations, kinds, result>>
  BY DEF schedVars, masterVars
<1>2. /\ OrdersDated(w)' /\ Head(toSlave[w]) = toSlave[w][1] /\ 1 \in 1 .. Len(toSlave[w])
      /\ \A v \in Workers \ {w} : toSlave'[v] = toSlave[v]
  BY <1>1, OrderRead
<1>3. phase \notin {"poll", "drain"}
  BY <1>2, PollingMail
<1>4. ~Live /\ ~Live'
  BY <1>1, <1>3 DEF Live
<1>5. ASSUME NEW v \in Workers
      PROVE  WorkerInv(v)'
  <2>1. CASE v = w
    BY <1>2, <1>4, <2>1 DEF WorkerInv, OneAssignment
  <2>2. CASE v # w
    <3>1. Idly(v) /\ WorkerInv(v)
      BY <1>1, <1>2, <2>2, Typing DEF Idly
    <3>. QED BY <1>1, <1>4, <3>1, OthersKeep
  <2>. QED BY <2>1, <2>2
<1>6. AccountsInv
  BY DEF Good
<1>7. Ledger'
  BY <1>1, <1>6, LedgerKept DEF AccountsInv
<1>8. Settled'
  <2>1. Closed' <=> Closed
    BY <1>1 DEF Closed
  <2>2. ASSUME Closed, NEW v \in Workers
        PROVE  Gone(v)'
    <3>1. Gone(v)
      BY <1>6, <2>2 DEF AccountsInv, Settled
    <3>2. CASE v = w
      BY <2>2, <3>1, <3>2
    <3>3. CASE v # w
      BY <1>2, <3>1, <3>3 DEF Gone
    <3>. QED BY <3>2, <3>3
  <2>. QED BY <1>1, <1>6, <2>1, <2>2 DEF AccountsInv, Settled
<1>. QED BY <1>4, <1>5, <1>7, <1>8 DEF AccountsInv, SharesCounted, ItemsLocated

\* What a closed task leaves behind is kept by whoever reads an order.
LEMMA GoneRead ==
  ASSUME Good, NEW w \in Workers, Gone(w), toSlave[w] # <<>>, TakeOrder(w),
         UNCHANGED <<phase, task>>, at'[w] \notin {"task", "work"}, cache'[w] = cache[w],
         HasAny(toMaster'[w], Carriers) => HasAny(toMaster[w], Carriers)
  PROVE  Gone(w)'
<1>1. toSlave[w] \in Seq(Message) /\ toSlave'[w] = Tail(toSlave[w])
  BY OrderRead, Typing
<1>2. ~HasAny(toSlave'[w], Orders)
  BY <1>1, QueueTaken DEF Gone
<1>. QED BY <1>2 DEF Gone

\* wait_for_tasks(): checkpoint intervals.
LEMMA CheckpointKeeps ==
  ASSUME Good, NEW w \in Workers, SlaveCheckpoint(w)
  PROVE  AccountsInv'
<1>1. /\ at[w] = "wait" /\ toSlave[w] # <<>> /\ TakeOrder(w)
      /\ Head(toSlave[w]).tag \in {"SET_LOCAL_CHECKPOINT", "UNSET_LOCAL_CHECKPOINT"}
      /\ UNCHANGED <<schedVars, masterVars, at, serving, todo, good, bad, cache, toMaster>>
  BY DEF SlaveCheckpoint, FromMaster
<1>2. UNCHANGED <<phase, task>>
  BY <1>1 DEF masterVars
<1>3. WorkerInv(w)
  BY Typing
<1>4. ReportsDated(w)'
  BY <1>1, <1>2, <1>3 DEF WorkerInv, ReportsDated
<1>5. UpToDate(w)'
  BY <1>1, <1>2, <1>3 DEF WorkerInv, UpToDate
<1>6. Gone(w) => Gone(w)'
  BY <1>1, <1>2, GoneRead
<1>. QED BY <1>1, <1>4, <1>5, <1>6, OffDuty

\* process_task(): identify ourselves and set up a batcher.
LEMMA JoinKeeps ==
  ASSUME Good, NEW w \in Workers, SlaveBegin(w)
  PROVE  AccountsInv'
<1> DEFINE m == Head(toSlave[w])
           id == [Order("WORKER_IDENTIFICATION") EXCEPT !.task = m.task]
<1>1. /\ at[w] = "wait" /\ toSlave[w] # <<>> /\ TakeOrder(w) /\ m.tag = "NEW_TASK"
      /\ serving' = [serving EXCEPT ![w] = m.task]
      /\ toMaster' = [toMaster EXCEPT ![w] = Append(@, id)]
      /\ at' = [at EXCEPT ![w] = "task"] /\ cache' = [cache EXCEPT ![w] = {}]
      /\ UNCHANGED <<schedVars, masterVars, todo, good, bad, interval>>
  BY DEF SlaveBegin, FromMaster
<1>2. UNCHANGED <<phase, task>> /\ UNCHANGED <<schedVars, masterVars>>
  BY <1>1 DEF masterVars
<1>3. SlaveInv(w) /\ WorkerInv(w) /\ ProtocolInv /\ toSlave[w] \in Seq(Message)
  BY Typing
<1>4. m \in Message /\ m = toSlave[w][1] /\ 1 \in 1 .. Len(toSlave[w])
      /\ toSlave'[w] = Tail(toSlave[w])
  BY <1>1, <1>2, OrderRead
<1>5. phase = "capture" /\ 1 = Len(toSlave[w]) /\ m.task = task
  BY <1>1, <1>3, <1>4 DEF SlaveInv, Invited
<1>6. toSlave'[w] = <<>>
  BY <1>1, <1>3, <1>4, <1>5, Taken
<1>7. id \in Message /\ id.tag = "WORKER_IDENTIFICATION" /\ id.task = task
  <2>1. "WORKER_IDENTIFICATION" \in Tags /\ task \in 0 .. NumTasks
    BY <1>3, Types DEF Tags
  <2>. QED BY <1>5, <2>1, OrderTyped
<1>8. /\ at \in [Workers -> {"wait", "task", "work", "leaving", "exited"}]
      /\ serving \in [Workers -> 0 .. NumTasks] /\ cache \in [Workers -> SUBSET Items]
  BY <1>3, Types DEF SlavesTyped
<1>9. serving'[w] = task /\ at'[w] = "task" /\ cache'[w] = {}
  BY <1>1, <1>5, <1>8
<1>10. \A v \in Workers \ {w} :
         at'[v] = at[v] /\ serving'[v] = serving[v] /\ cache'[v] = cache[v]
  BY <1>1, <1>8
<1> HIDE DEF m, id
<1>11. ReportsDated(w)' /\ \A v \in Workers \ {w} : toMaster'[v] = toMaster[v]
  <2>1. task \in Nat
    BY Typing
  <2>2. id.task <= task
    BY <1>7, <2>1
  <2>. QED BY <1>1, <1>2, <1>7, <2>2, ReportWritten
<1>12. UpToDate(w)'
  <2>1. task \in Nat
    BY Typing
  <2>. QED BY <1>2, <1>5, <1>6, <1>9, <2>1 DEF UpToDate
<1>13. ~Closed
  BY <1>5 DEF Closed
<1>. QED BY <1>1, <1>2, <1>10, <1>11, <1>12, <1>13, OffDuty DEF m

\* ... or skip the task.
LEMMA SkipKeeps ==
  ASSUME Good, NEW w \in Workers, SlaveSkip(w)
  PROVE  AccountsInv'
<1>1. /\ at[w] = "wait" /\ toSlave[w] # <<>> /\ TakeOrder(w)
      /\ Head(toSlave[w]).tag = "NEW_TASK"
      /\ UNCHANGED <<schedVars, masterVars, slaveVars, toMaster>>
  BY DEF SlaveSkip, FromMaster
<1>2. UNCHANGED <<phase, task, at, serving, cache>>
  BY <1>1 DEF masterVars, slaveVars
<1>3. WorkerInv(w)
  BY Typing
<1>4. ReportsDated(w)'
  BY <1>1, <1>2, <1>3 DEF WorkerInv, ReportsDated
<1>5. UpToDate(w)'
  BY <1>1, <1>2, <1>3 DEF WorkerInv, UpToDate
<1>6. Gone(w) => Gone(w)'
  BY <1>1, <1>2, GoneRead
<1>. QED BY <1>1, <1>2, <1>4, <1>5, <1>6, OffDuty

\* The load is reported ...
LEMMA LoadKeeps ==
  ASSUME Good, NEW w \in Workers, SlaveReportLoad(w)
  PROVE  AccountsInv'
<1> DEFINE m == Order("REPORT_PERFORMANCE_DATA")
           r == StampedBy(w, m)
<1>1. /\ at[w] = "wait" /\ toSlave[w] # <<>> /\ TakeOrder(w)
      /\ Head(toSlave[w]).tag = "QUERY_PERFORMANCE_DATA" /\ Send(w, <<m>>)
      /\ at' = [at EXCEPT ![w] = "leaving"]
      /\ UNCHANGED <<schedVars, masterVars, serving, todo, good, bad, cache, interval>>
  BY DEF SlaveReportLoad, FromMaster
<1>2. UNCHANGED <<phase, task>>
  BY <1>1 DEF masterVars
<1>3. /\ WorkerInv(w) /\ SlaveInv(w) /\ ProtocolInv /\ toSlave[w] \in Seq(Message)
      /\ task \in Nat /\ serving[w] \in Nat
  BY Typing
<1>4. m \in Message /\ m.tag = "REPORT_PERFORMANCE_DATA" /\ ChannelsTyped /\ SlavesTyped
  <2>1. "REPORT_PERFORMANCE_DATA" \in Tags /\ task \in 0 .. NumTasks
    BY <1>3, Types DEF Tags
  <2>. QED BY <1>3, <2>1, Types, OrderTyped
<1> HIDE DEF m
<1>5. /\ r \in Message /\ r.tag = "REPORT_PERFORMANCE_DATA" /\ r.task = serving[w]
      /\ toMaster' = [toMaster EXCEPT ![w] = Append(@, r)]
  <2>1. r \in Message /\ toMaster' = [toMaster EXCEPT ![w] = Append(@, r)]
    BY <1>1, <1>4, SendOne
  <2>. QED BY <1>4, <2>1 DEF StampedBy, Message
<1> HIDE DEF r
<1>6. phase # "capture"
  <2>1. Head(toSlave[w]) = toSlave[w][1] /\ 1 \in 1 .. Len(toSlave[w])
    BY <1>1, <1>2, OrderRead
  <2>. QED BY <1>1, <1>3, <2>1 DEF SlaveInv, LeavesLast, Has
<1>7. /\ toMaster'[w] = Append(toMaster[w], r) /\ toMaster[w] \in Seq(Message)
      /\ \A v \in Workers \ {w} : toMaster'[v] = toMaster[v]
      /\ ReportsDated(w)'
  <2>1. r.task <= task
    BY <1>3, <1>5 DEF WorkerInv, UpToDate
  <2>. QED BY <1>2, <1>5, <1>6, <2>1, ReportWritten
<1>8. at'[w] = "leaving" /\ \A v \in Workers \ {w} : at'[v] = at[v]
  BY <1>1, <1>4 DEF SlavesTyped
<1>9. UpToDate(w)'
  BY <1>1, <1>2, <1>3, <1>6, <1>8 DEF WorkerInv, UpToDate
<1>10. Gone(w) => Gone(w)'
  <2>1. HasAny(toMaster'[w], Carriers) => HasAny(toMaster[w], Carriers)
    BY <1>5, <1>7, QueuePut DEF Carriers, Answers
  <2>. QED BY <1>1, <1>2, <1>8, <2>1, GoneRead
<1>. QED BY <1>1, <1>7, <1>8, <1>9, <1>10, OffDuty

\* ... and the slave exits.
LEMMA TerminateKeeps ==
  ASSUME Good, NEW w \in Workers, SlaveTerminate(w)
  PROVE  AccountsInv'
<1>1. /\ at[w] \in {"wait", "leaving"} /\ toSlave[w] # <<>> /\ TakeOrder(w)
      /\ Head(toSlave[w]).tag = "TERMINATE" /\ at' = [at EXCEPT ![w] = "exited"]
      /\ UNCHANGED <<schedVars, masterVars, serving, todo, good, bad, cache, interval, toMaster>>
  BY DEF SlaveTerminate, FromMaster
<1>2. UNCHANGED <<phase, task>>
  BY <1>1 DEF masterVars
<1>3. WorkerInv(w) /\ ProtocolInv /\ SlaveInv(w)
  BY Typing
<1>4. phase # "capture"
  <2>1. Head(toSlave[w]) = toSlave[w][1] /\ 1 \in 1 .. Len(toSlave[w])
    BY <1>1, <1>2, OrderRead
  <2>. QED BY <1>1, <1>3, <2>1 DEF SlaveInv, LeavesLast, Has
<1>5. ReportsDated(w)'
  BY <1>1, <1>2, <1>3 DEF WorkerInv, ReportsDated
<1>6. at'[w] = "exited" /\ \A v \in Workers \ {w} : at'[v] = at[v]
  BY <1>1, <1>3, Types DEF SlavesTyped
<1>7. UpToDate(w)'
  BY <1>1, <1>2, <1>3, <1>4, <1>6 DEF WorkerInv, UpToDate
<1>8. Gone(w) => Gone(w)'
  BY <1>1, <1>2, <1>6, GoneRead
<1>. QED BY <1>1, <1>5, <1>6, <1>7, <1>8, OffDuty

-----------------------------------------------------------------------------
(* The slaves at work                                                      *)

SameElsewhere(v) ==
  /\ at'[v] = at[v] /\ serving'[v] = serving[v] /\ cache'[v] = cache[v]
  /\ toSlave'[v] = toSlave[v] /\ toMaster'[v] = toMaster[v] /\ SameDesk(v)

\* A step of a slave that works for a task: what has to be shown.
LEMMA OnDuty ==
  ASSUME Good, NEW w \in Workers, at[w] \in {"task", "work"},
         UNCHANGED <<schedVars, masterVars>>,
         \A v \in Workers \ {w} : SameElsewhere(v), WorkerInv(w)',
         Live => AllLocated' /\ Apart(toMaster'[w], Carriers),
         \A share \in SUBSET Items : Live /\ HandedOut(w, share) => HandedOut(w, share)'
  PROVE  AccountsInv'
<1>1. /\ UNCHANGED <<phase, task, raised, assigned, inFlight, queue, wanted, stored, failures,
                     dropped, aggregations, kinds, result>>
  BY DEF schedVars, masterVars
<1>2. AccountsInv
  BY DEF Good
<1>3. \A v \in Workers \ {w} : Idly(v) /\ SameDesk(v)
  BY <1>1 DEF SameElsewhere, Idly
<1>4. ASSUME NEW v \in Workers
      PROVE  WorkerInv(v)'
  <2>1. CASE v = w
    BY <2>1
  <2>2. CASE v # w
    <3>1. Idly(v) /\ WorkerInv(v)
      BY <1>3, <2>2, Typing
    <3>2. Live' => Live
      BY <1>1 DEF Live
    <3>. QED BY <1>1, <3>1, <3>2, OthersKeep
  <2>. QED BY <2>1, <2>2
<1>5. Ledger'
  BY <1>1, <1>2, LedgerKept DEF AccountsInv
<1>6. Settled'
  <2>1. ~Closed
    BY <1>2 DEF AccountsInv, Settled, Gone
  <2>. QED BY <1>1, <2>1 DEF Closed, Settled
<1>7. Live' <=> Live
  BY <1>1 DEF Live
<1>8. ItemsLocated'
  <2>1. ASSUME Live, NEW v \in Workers
        PROVE  Apart(toMaster'[v], Carriers)
    <3>1. CASE v = w
      BY <2>1, <3>1
    <3>2. CASE v # w
      BY <1>2, <1>3, <2>1, <3>2 DEF Idly, AccountsInv, ItemsLocated, KeptApart
    <3>. QED BY <3>1, <3>2
  <2>2. Live => KeptApart'
    BY <1>1, <1>2, <2>1 DEF AccountsInv, ItemsLocated, KeptApart
  <2>. QED BY <1>7, <2>2 DEF ItemsLocated
<1>9. SharesCounted'
  <2>1. SUFFICES ASSUME Live
                 PROVE  \E sh \in [Workers -> SUBSET Items] : Shared(sh)'
    BY <1>7 DEF SharesCounted
  <2>2. PICK sh \in [Workers -> SUBSET Items] : Shared(sh)
    BY <1>2, <2>1 DEF AccountsInv, SharesCounted
  <2>3. ASSUME NEW v \in Workers
        PROVE  HandedOut(v, sh[v])'
    <3>1. HandedOut(v, sh[v]) /\ sh[v] \in SUBSET Items
      BY <2>2 DEF Shared
    <3>2. CASE v = w
      BY <2>1, <3>1, <3>2
    <3>3. CASE v # w
      BY <1>3, <3>1, <3>3, ShareKept
    <3>. QED BY <3>2, <3>3
  <2>4. Shared(sh)'
    BY <1>1, <2>2, <2>3 DEF Shared
  <2>. QED BY <2>4
<1>. QED BY <1>4, <1>5, <1>6, <1>8, <1>9 DEF AccountsInv

\* A place with a worker is the same for the others.
LEMMA SameForOthers ==
  ASSUME NEW w \in Workers, \A v \in Workers \ {w} : SameElsewhere(v)
  PROVE  \A p \in WithWorker, v \in Workers \ {w} : \A i : Here(i, p, v)' <=> Here(i, p, v)
<1>1. ASSUME NEW p \in WithWorker, NEW v \in Workers \ {w}, NEW i
      PROVE  Here(i, p, v)' <=> Here(i, p, v)
  <2>1. SameElsewhere(v)
    OBVIOUS
  <2>. QED BY <2>1 DEF SameElsewhere, SameDesk, Here, WithWorker
<1>. QED BY <1>1

\* The places, one by one.
LEMMA PlaceNames ==
  /\ Places \ WithWorker = {"elsewhere", "queue", "stored", "failures", "dropped", "aggregations"}
  /\ WithWorker \subseteq Places
  /\ \A i, w : /\ Here(i, "order", w) <=> Holds(toSlave[w], Orders, i)
               /\ Here(i, "desk", w) <=> at[w] = "work" /\ i \in todo[w] \cup bad[w]
               /\ Here(i, "cache", w) <=> i \in cache[w]
               /\ Here(i, "report", w) <=> Holds(toMaster[w], Carriers, i)
BY DEF Places, WithWorker, Here

\* The same, after a step.
LEMMA PlaceNamesNext ==
  \A i, w : /\ Here(i, "order", w)' <=> Holds(toSlave'[w], Orders, i)
            /\ Here(i, "desk", w)' <=> at'[w] = "work" /\ i \in todo'[w] \cup bad'[w]
            /\ Here(i, "cache", w)' <=> i \in cache'[w]
            /\ Here(i, "report", w)' <=> Holds(toMaster'[w], Carriers, i)
BY DEF Here

\* An assignment is taken up.
LEMMA AssignmentKeeps ==
  ASSUME Good, NEW w \in Workers, SlaveAssignment(w)
  PROVE  AccountsInv'
<1> DEFINE m == Head(toSlave[w])
<1>1. /\ at[w] = "task" /\ toSlave[w] # <<>> /\ TakeOrder(w)
      /\ m.tag = "NEW_WORK_ASSIGNMENT"
      /\ at' = [at EXCEPT ![w] = "work"] /\ todo' = [todo EXCEPT ![w] = m.items]
      /\ good' = [good EXCEPT ![w] = 0] /\ bad' = [bad EXCEPT ![w] = {}]
      /\ UNCHANGED <<schedVars, masterVars, serving, cache, interval, toMaster>>
  BY DEF SlaveAssignment, FromMaster
<1>2. /\ UNCHANGED <<phase, task, raised, assigned>>
      /\ UNCHANGED <<wanted, queue, stored, failures, dropped, aggregations>>
  BY <1>1 DEF masterVars, schedVars
<1>3. /\ m \in Message /\ m = toSlave[w][1] /\ 1 \in 1 .. Len(toSlave[w])
      /\ toSlave'[w] = Tail(toSlave[w]) /\ toSlave[w] \in Seq(Message)
      /\ \A v \in Workers \ {w} : toSlave'[v] = toSlave[v]
      /\ OrdersDated(w)'
  BY <1>1, <1>2, OrderRead, Typing
<1>4. WorkerInv(w) /\ ProtocolInv /\ AccountsInv
  BY Typing
<1>5. /\ at'[w] = "work" /\ todo'[w] = m.items /\ good'[w] = 0 /\ bad'[w] = {}
      /\ \A v \in Workers \ {w} : SameElsewhere(v)
  BY <1>1, <1>3, SlaveFunctions DEF SameElsewhere, SameDesk
<1>6. m.items \in SUBSET Items
  BY <1>3, Fields
<1> HIDE DEF m
<1>7. ReportsDated(w)' /\ UpToDate(w)'
  BY <1>1, <1>2, <1>4, <1>5 DEF WorkerInv, ReportsDated, UpToDate
<1>8. Live' <=> Live
  BY <1>2 DEF Live
<1>9. Live => ~HasAny(toSlave'[w], Orders)
  BY <1>1, <1>3, <1>4, QueueTaken DEF WorkerInv, OneAssignment, Orders, m
<1>10. HasAny(toSlave[w], Orders)
  BY <1>1, <1>3 DEF HasAny, Orders
<1>11. OneAssignment(w)'
  <2>1. SUFFICES ASSUME Live
                 PROVE  /\ w \in assigned /\ ~HasAny(toSlave'[w], Orders)
                        /\ ~HasAny(toMaster[w], Answers) /\ Single(toSlave'[w], Orders)
                        /\ Single(toMaster[w], Answers)
    BY <1>1, <1>2, <1>5, <1>8 DEF OneAssignment
  <2>2. Single(toSlave'[w], Orders)
    BY <1>9, <2>1 DEF Single, HasAny
  <2>. QED BY <1>4, <1>9, <1>10, <2>1, <2>2 DEF WorkerInv, OneAssignment
<1>12. ASSUME Live
       PROVE  AllLocated'
  <2>1. AllLocated
    BY <1>4, <1>12 DEF AccountsInv, ItemsLocated
  <2>2. \A i : /\ Holds(toSlave[w], Orders, i) <=> Holds(toSlave'[w], Orders, i) \/ i \in m.items
               /\ ~Holds(toSlave'[w], Orders, i)
    <3>1. \A i : ~Holds(toSlave'[w], Orders, i)
      BY <1>9, <1>12 DEF HasAny, Holds
    <3>2. m.tag \in Orders
      BY <1>1 DEF Orders
    <3>. QED BY <1>1, <1>3, <3>1, <3>2, QueueTaken DEF m
  <2>3. Leaving("order", m.items, w)
    BY <1>5, <2>2, SameForOthers, PlaceNames, PlaceNamesNext DEF Leaving, WithWorker
  <2>4. Reaching("desk", m.items, w)
    BY <1>1, <1>5, SameForOthers, PlaceNames, PlaceNamesNext DEF Reaching, WithWorker
  <2>5. Same("cache") /\ Same("report")
    BY <1>1, PlaceNames, PlaceNamesNext DEF Same
  <2>6. \A p \in Places \ ({"order"} \cup {"desk"}) : Same(p)
    BY <1>2, <2>5, SameAtMaster DEF Places, WithWorker
  <2>7. \A i \in m.items : \E p \in {"order"} : Here(i, p, w)
    BY <2>2, PlaceNames
  <2>8. {"order"} \in SUBSET Places /\ "desk" \in Places \ {"order"}
    BY DEF Places, WithWorker
  <2>9. Transfer(m.items, {"order"}, "desk", w)
    BY <1>6, <2>3, <2>4, <2>6, <2>7, <2>8 DEF Transfer
  <2>. QED BY <2>1, <2>9, Moving
<1>13. Live => Apart(toMaster'[w], Carriers)
  BY <1>1, <1>4 DEF AccountsInv, ItemsLocated, KeptApart
<1>14. ASSUME NEW share \in SUBSET Items, Live, HandedOut(w, share)
       PROVE  HandedOut(w, share)'
  <2>1. m.items = share
    BY <1>1, <1>3, <1>14 DEF HandedOut, Orders
  <2>2. Cardinality({}) = 0 /\ Cardinality(share) \in Nat
    BY FS_EmptySet, FiniteItems
  <2>3. ~HasAny(toMaster[w], Answers) /\ w \in assigned
    BY <1>4, <1>10, <1>14 DEF WorkerInv, OneAssignment
  <2>4. at'[w] = "work" =>
          /\ todo'[w] \cap bad'[w] = {}
          /\ Cardinality(share) = Cardinality(todo'[w]) + good'[w] + Cardinality(bad'[w])
    BY <1>5, <2>1, <2>2
  <2>5. \A k \in 1 .. Len(toSlave'[w]) : toSlave'[w][k].tag \notin Orders
    BY <1>9, <1>14 DEF HasAny
  <2>6. \A k \in 1 .. Len(toMaster'[w]) : toMaster'[w][k].tag \notin Answers
    BY <1>1, <2>3 DEF HasAny
  <2>7. w \in assigned'
    BY <1>2, <2>3
  <2>. QED BY <2>4, <2>5, <2>6, <2>7 DEF HandedOut
<1>15. WorkerInv(w)'
  BY <1>3, <1>7, <1>11 DEF WorkerInv
<1>. QED BY <1>1, <1>5, <1>12, <1>13, <1>14, <1>15, OnDuty

\* What a working slave has not yet processed has not failed.
LEMMA FailedOnce ==
  ASSUME Good, Live, NEW w \in Workers, at[w] = "work"
  PROVE  todo[w] \cap bad[w] = {}
<1>1. PICK sh \in [Workers -> SUBSET Items] : Shared(sh)
  BY DEF Good, AccountsInv, SharesCounted
<1>. QED BY <1>1 DEF Shared, HandedOut

\* One more or one less.
LEMMA OneItem ==
  ASSUME NEW S \in SUBSET Items, NEW i \in Items
  PROVE  /\ i \notin S => Cardinality(S \cup {i}) = Cardinality(S) + 1
         /\ i \in S => Cardinality(S) = Cardinality(S \ {i}) + 1
         /\ Cardinality(S) \in Nat /\ Cardinality(S \ {i}) \in Nat
<1>1. IsFiniteSet(S) /\ Cardinality(S) \in Nat /\ Cardinality(S \ {i}) \in Nat
  <2>1. S \ {i} \in SUBSET Items
    OBVIOUS
  <2>. QED BY <2>1, FiniteItems
<1>2. i \notin S => Cardinality(S \cup {i}) = Cardinality(S) + 1
  BY <1>1, FS_AddElement
<1>3. i \in S => Cardinality(S \ {i}) = Cardinality(S) - 1
  BY <1>1, FS_RemoveElement
<1>. QED BY <1>1, <1>2, <1>3

\* What a slave sends while it works is of the task it serves.
LEMMA SentAtWork ==
  ASSUME Good, NEW w \in Workers, at[w] = "work", UNCHANGED <<phase, task>>,
         NEW m \in Message, Send(w, <<m>>)
  PROVE  /\ StampedBy(w, m) \in Message /\ StampedBy(w, m).tag = m.tag
         /\ StampedBy(w, m).items = m.items /\ StampedBy(w, m).n = m.n
         /\ toMaster[w] \in Seq(Message)
         /\ toMaster'[w] = Append(toMaster[w], StampedBy(w, m))
         /\ \A v \in Workers \ {w} : toMaster'[v] = toMaster[v]
         /\ ReportsDated(w)'
<1> DEFINE r == StampedBy(w, m)
<1>1. r \in Message /\ toMaster' = [toMaster EXCEPT ![w] = Append(@, r)]
  BY SlaveFunctions, SendOne
<1>2. r.tag = m.tag /\ r.task = serving[w] /\ r.items = m.items /\ r.n = m.n
  BY DEF StampedBy, Message
<1> HIDE DEF r
<1>3. WorkerInv(w) /\ serving[w] \in Nat /\ task \in Nat
  BY Typing
<1>4. r.task <= task /\ (phase = "capture" => r.task < task)
  BY <1>2, <1>3 DEF WorkerInv, UpToDate
<1>5. /\ toMaster'[w] = Append(toMaster[w], r) /\ toMaster[w] \in Seq(Message)
      /\ \A v \in Workers \ {w} : toMaster'[v] = toMaster[v]
      /\ ReportsDated(w)'
  BY <1>1, <1>4, ReportWritten
<1>. QED BY <1>1, <1>2, <1>5 DEF r

\* A configuration is done, and held in the cache or sent off with it.
LEMMA ProcessKeeps ==
  ASSUME Good, NEW w \in Workers, NEW i \in Items, NEW ok \in BOOLEAN,
         NEW flush \in BOOLEAN, SlaveProcess(w, i, ok, flush)
  PROVE  AccountsInv'
<1> DEFINE held == IF ok THEN cache[w] \cup {i} ELSE cache[w]
           m == Msg("DATA_READY", held, 0)
           r == StampedBy(w, m)
<1>1. /\ at[w] = "work" /\ i \in todo[w]
      /\ todo' = [todo EXCEPT ![w] = @ \ {i}]
      /\ good' = [good EXCEPT ![w] = IF ok THEN @ + 1 ELSE @]
      /\ bad' = [bad EXCEPT ![w] = IF ok THEN @ ELSE @ \cup {i}]
      /\ cache' = [cache EXCEPT ![w] = IF flush THEN {} ELSE held]
      /\ IF flush THEN Send(w, <<m>>) ELSE UNCHANGED toMaster
      /\ UNCHANGED <<schedVars, masterVars, at, serving, interval, toSlave>>
  BY DEF SlaveProcess
<1>2. /\ UNCHANGED <<phase, task, raised, assigned>>
      /\ UNCHANGED <<wanted, queue, stored, failures, dropped, aggregations>>
  BY <1>1 DEF masterVars, schedVars
<1>3. /\ todo'[w] = todo[w] \ {i} /\ good'[w] = IF ok THEN good[w] + 1 ELSE good[w]
      /\ bad'[w] = IF ok THEN bad[w] ELSE bad[w] \cup {i}
      /\ cache'[w] = IF flush THEN {} ELSE held
      /\ \A v \in Workers \ {w} : SameDesk(v) /\ cache'[v] = cache[v]
  BY <1>1, SlaveFunctions DEF SameDesk
<1>4. /\ WorkerInv(w) /\ ProtocolInv /\ AccountsInv /\ held \in SUBSET Items
      /\ toMaster[w] \in Seq(Message) /\ good[w] \in Nat
      /\ todo[w] \in SUBSET Items /\ bad[w] \in SUBSET Items
  BY Typing
<1>5. m \in Message /\ m.tag = "DATA_READY" /\ m.items = held
  <2>1. "DATA_READY" \in Tags
    BY DEF Tags
  <2>. QED BY <1>4, <2>1, SlaveFunctions, MsgTyped
<1> HIDE DEF m, held
<1>6. flush =>
        /\ r \in Message /\ r.tag = "DATA_READY" /\ r.items = held
        /\ toMaster'[w] = Append(toMaster[w], r)
        /\ \A v \in Workers \ {w} : toMaster'[v] = toMaster[v]
        /\ ReportsDated(w)'
  BY <1>1, <1>2, <1>5, SentAtWork
<1> HIDE DEF r
<1>7. \A v \in Workers \ {w} : SameElsewhere(v)
  BY <1>1, <1>3, <1>6 DEF SameElsewhere
<1>8. ReportsDated(w)'
  BY <1>1, <1>2, <1>4, <1>6 DEF ReportsDated, WorkerInv
<1>9. HasAny(toMaster'[w], Answers) <=> HasAny(toMaster[w], Answers)
  <2>1. CASE flush
    <3>1. r.tag \notin Answers
      BY <1>6, <2>1 DEF Answers
    <3>2. /\ toMaster[w] \in Seq(Message) /\ r \in Message
          /\ toMaster'[w] = Append(toMaster[w], r)
      BY <1>4, <1>6, <2>1
    <3>. QED BY <3>1, <3>2, HasAnyPut
  <2>2. CASE ~flush
    BY <1>1, <2>2
  <2>. QED BY <2>1, <2>2
<1>10. Live' <=> Live
  BY <1>2 DEF Live
<1>11. WorkerInv(w)'
  <2>1. OrdersDated(w)' /\ UpToDate(w)'
    BY <1>1, <1>2, <1>4 DEF WorkerInv, OrdersDated, UpToDate
  <2>2. Live => ~HasAny(toMaster[w], Answers)
    BY <1>1, <1>4 DEF WorkerInv, OneAssignment
  <2>3. Live => Single(toMaster'[w], Answers)
    BY <1>9, <2>2 DEF Single, HasAny
  <2>4. OneAssignment(w)'
    BY <1>1, <1>2, <1>4, <1>9, <1>10, <2>3 DEF WorkerInv, OneAssignment
  <2>. QED BY <1>8, <2>1, <2>4 DEF WorkerInv
<1>12. ASSUME Live
       PROVE  AllLocated' /\ Apart(toMaster'[w], Carriers)
  <2>1. AllLocated /\ Apart(toMaster[w], Carriers) /\ todo[w] \cap bad[w] = {}
    BY <1>1, <1>4, <1>12, FailedOnce DEF AccountsInv, ItemsLocated, KeptApart
  <2>2. {"order", "desk", "cache", "report"} \subseteq Places
    BY DEF Places, WithWorker
  <2>3. Same("order") /\ \A p \in Places \ WithWorker : Same(p)
    <3>1. Same("order")
      BY <1>1, PlaceNames, PlaceNamesNext DEF Same
    <3>. QED BY <1>2, <3>1, SameAtMaster
  <2>4. CASE flush
    <3>1. \A j \in held : ~Holds(toMaster[w], Carriers, j)
      <4>1. ASSUME NEW j \in held, Holds(toMaster[w], Carriers, j)
            PROVE  FALSE
        <5>1. j \in Items /\ Here(j, "report", w)
          BY <1>4, <4>1, PlaceNames
        <5>2. Here(j, "cache", w) \/ Here(j, "desk", w)
          BY <1>1, <4>1, PlaceNames DEF held
        <5>. QED BY <2>1, <2>2, <5>1, <5>2, OnePlace
      <4>. QED BY <4>1
    <3>2. r.tag \in Carriers
      BY <1>6, <2>4 DEF Carriers
    <3>3. Apart(toMaster'[w], Carriers)
      BY <1>4, <1>6, <2>1, <2>4, <3>1, ApartPut
    <3>4. \A j : Holds(toMaster'[w], Carriers, j) <=> Holds(toMaster[w], Carriers, j) \/ j \in held
      <4>1. /\ toMaster[w] \in Seq(Message) /\ r \in Message /\ r.items = held
            /\ toMaster'[w] = Append(toMaster[w], r)
        BY <1>4, <1>6, <2>4
      <4>. QED BY <3>2, <4>1, HoldsPut
    <3>5. Reaching("report", held, w)
      BY <1>7, <3>4, SameForOthers, PlaceNames, PlaceNamesNext DEF Reaching, WithWorker
    <3>6. Leaving("cache", held, w)
      <4>1. cache'[w] = {} /\ cache[w] \subseteq held
        BY <1>3, <2>4 DEF held
      <4>. QED BY <1>7, <4>1, SameForOthers, PlaceNames, PlaceNamesNext DEF Leaving, WithWorker
    <3>7. Leaving("desk", held, w)
      <4>1. ASSUME NEW j \in Items, j \in cache[w]
            PROVE  j \notin todo[w] \cup bad[w]
        <5>1. Here(j, "cache", w) /\ ~Here(j, "desk", w)
          BY <2>1, <2>2, <4>1, PlaceNames, OnePlace
        <5>. QED BY <1>1, <5>1, PlaceNames
      <4>2. \A j \in Items : j \in todo'[w] \cup bad'[w] <=> j \in todo[w] \cup bad[w] /\ j \notin held
        BY <1>1, <1>3, <2>1, <4>1 DEF held
      <4>. QED BY <1>1, <1>7, <4>2, SameForOthers, PlaceNames, PlaceNamesNext
               DEF Leaving, WithWorker
    <3>8. \A j \in held : \E p \in {"cache", "desk"} : Here(j, p, w)
      BY <1>1, PlaceNames DEF held
    <3>9. \A p \in Places \ ({"cache", "desk"} \cup {"report"}) : Same(p)
      BY <2>3 DEF Places, WithWorker
    <3>10. \A p \in {"cache", "desk"} : Leaving(p, held, w)
      BY <3>6, <3>7
    <3>11. {"cache", "desk"} \in SUBSET Places /\ "report" \in Places \ {"cache", "desk"}
      BY <2>2
    <3>12. Transfer(held, {"cache", "desk"}, "report", w)
      BY <1>4, <3>5, <3>8, <3>9, <3>10, <3>11 DEF Transfer
    <3>13. AllLocated'
      BY <2>1, <3>12, Moving
    <3>. QED BY <3>3, <3>13
  <2>5. CASE ~flush /\ ok
    <3>1. Same("report")
      BY <1>1, <2>5, PlaceNames, PlaceNamesNext DEF Same
    <3>2. Reaching("cache", {i}, w)
      <4>1. cache'[w] = cache[w] \cup {i}
        BY <1>3, <2>5 DEF held
      <4>. QED BY <1>7, <4>1, SameForOthers, PlaceNames, PlaceNamesNext DEF Reaching, WithWorker
    <3>3. Leaving("desk", {i}, w)
      BY <1>1, <1>3, <1>7, <2>1, <2>5, SameForOthers, PlaceNames, PlaceNamesNext
         DEF Leaving, WithWorker
    <3>4. \A j \in {i} : \E p \in {"desk"} : Here(j, p, w)
      BY <1>1, PlaceNames
    <3>5. \A p \in Places \ ({"desk"} \cup {"cache"}) : Same(p)
      BY <2>3, <3>1 DEF Places, WithWorker
    <3>6. /\ {"desk"} \in SUBSET Places /\ "cache" \in Places \ {"desk"}
          /\ {i} \in SUBSET Items
      BY <2>2
    <3>7. Transfer({i}, {"desk"}, "cache", w)
      BY <3>2, <3>3, <3>4, <3>5, <3>6 DEF Transfer
    <3>8. AllLocated'
      BY <2>1, <3>7, Moving
    <3>. QED BY <1>1, <2>1, <2>5, <3>8
  <2>6. CASE ~flush /\ ~ok
    <3>1. todo'[w] \cup bad'[w] = todo[w] \cup bad[w] /\ cache'[w] = cache[w]
      BY <1>1, <1>3, <2>6 DEF held
    <3>2. Same("desk") /\ Same("cache")
      BY <1>1, <1>7, <3>1, SameForOthers, PlaceNames, PlaceNamesNext DEF Same, WithWorker
    <3>3. Same("report")
      BY <1>1, <2>6, PlaceNames, PlaceNamesNext DEF Same
    <3>4. \A p \in Places : Same(p)
      BY <2>3, <3>2, <3>3 DEF WithWorker
    <3>. QED BY <1>1, <2>1, <2>6, <3>4, Resting
  <2>. QED BY <2>4, <2>5, <2>6
<1>13. ASSUME NEW share \in SUBSET Items, Live, HandedOut(w, share)
       PROVE  HandedOut(w, share)'
  <2>1. /\ todo[w] \cap bad[w] = {}
        /\ Cardinality(share) = Cardinality(todo[w]) + good[w] + Cardinality(bad[w])
    BY <1>1, <1>13 DEF HandedOut
  <2>2. /\ todo'[w] \cap bad'[w] = {}
        /\ Cardinality(share) = Cardinality(todo'[w]) + good'[w] + Cardinality(bad'[w])
    <3>1. todo'[w] \cap bad'[w] = {}
      BY <1>3, <2>1
    <3>2. /\ Cardinality(todo[w]) = Cardinality(todo[w] \ {i}) + 1
          /\ Cardinality(todo[w] \ {i}) \in Nat
      BY <1>1, <1>4, OneItem
    <3>3. Cardinality(bad[w]) \in Nat /\ Cardinality(bad[w] \cup {i}) = Cardinality(bad[w]) + 1
      <4>1. i \notin bad[w]
        BY <1>1, <2>1
      <4>. QED BY <1>4, <4>1, OneItem
    <3>4. CASE ok
      <4>1. todo'[w] = todo[w] \ {i} /\ good'[w] = good[w] + 1 /\ bad'[w] = bad[w]
        BY <1>3, <3>4
      <4>2. good[w] \in Nat
        BY <1>4
      <4>. QED BY <2>1, <3>1, <3>2, <3>3, <4>1, <4>2
    <3>5. CASE ~ok
      BY <1>3, <1>4, <2>1, <3>1, <3>2, <3>3, <3>5
    <3>. QED BY <3>4, <3>5
  <2>3. ~HasAny(toMaster'[w], Answers)
    BY <1>1, <1>4, <1>9, <1>13 DEF WorkerInv, OneAssignment
  <2>4. \A k \in 1 .. Len(toMaster'[w]) : toMaster'[w][k].tag \notin Answers
    BY <2>3 DEF HasAny
  <2>5. /\ w \notin assigned' => share = {}
        /\ \A k \in 1 .. Len(toSlave'[w]) :
             toSlave'[w][k].tag \in Orders => toSlave'[w][k].items = share
    BY <1>1, <1>2, <1>13 DEF HandedOut
  <2>. QED BY <2>2, <2>4, <2>5 DEF HandedOut
<1>. QED BY <1>1, <1>7, <1>11, <1>12, <1>13, OnDuty

\* The backend returns and the assignment is answered.
LEMMA AnswerKeeps ==
  ASSUME Good, NEW w \in Workers, SlaveFinish(w, TRUE)
  PROVE  AccountsInv'
<1> DEFINE m == Msg("FINISHED", bad[w], Processed(w))
           r == StampedBy(w, m)
<1>1. /\ at[w] = "work" /\ todo[w] = {} /\ Send(w, <<m>>)
      /\ at' = [at EXCEPT ![w] = "task"] /\ todo' = [todo EXCEPT ![w] = {}]
      /\ UNCHANGED <<schedVars, masterVars, serving, good, bad, cache, interval, toSlave>>
  BY DEF SlaveFinish
<1>2. /\ UNCHANGED <<phase, task, raised, assigned>>
      /\ UNCHANGED <<wanted, queue, stored, failures, dropped, aggregations>>
  BY <1>1 DEF masterVars, schedVars
<1>3. /\ at'[w] = "task" /\ todo'[w] = {}
      /\ \A v \in Workers \ {w} : SameDesk(v) /\ at'[v] = at[v]
  BY <1>1, SlaveFunctions DEF SameDesk
<1>4. /\ WorkerInv(w) /\ ProtocolInv /\ AccountsInv /\ bad[w] \in SUBSET Items
      /\ toMaster[w] \in Seq(Message) /\ good[w] \in Nat
  BY Typing
<1>5. Cardinality(bad[w]) \in Nat /\ Processed(w) = good[w] + Cardinality(bad[w])
  BY <1>4, FiniteItems DEF Processed
<1>6. m \in Message /\ m.tag = "FINISHED" /\ m.items = bad[w] /\ m.n = Processed(w)
  <2>1. "FINISHED" \in Tags /\ Processed(w) \in Nat
    BY <1>4, <1>5 DEF Tags
  <2>. QED BY <1>4, <2>1, SlaveFunctions, MsgTyped
<1> HIDE DEF m
<1>7. /\ r \in Message /\ r.tag = "FINISHED" /\ r.items = bad[w] /\ r.n = Processed(w)
      /\ toMaster'[w] = Append(toMaster[w], r)
      /\ \A v \in Workers \ {w} : toMaster'[v] = toMaster[v]
      /\ ReportsDated(w)'
  BY <1>1, <1>2, <1>6, SentAtWork
<1> HIDE DEF r
<1>8. \A v \in Workers \ {w} : SameElsewhere(v)
  BY <1>1, <1>3, <1>7 DEF SameElsewhere
<1>9. r.tag \in Answers /\ r.tag \in Carriers
  BY <1>7 DEF Answers, Carriers
<1>10. Live' <=> Live
  BY <1>2 DEF Live
<1>11. WorkerInv(w)'
  <2>1. OrdersDated(w)'
    BY <1>1, <1>2, <1>4 DEF WorkerInv, OrdersDated
  <2>2. UpToDate(w)'
    BY <1>1, <1>2, <1>3, <1>4 DEF WorkerInv, UpToDate
  <2>3. HasAny(toMaster'[w], Answers)
    BY <1>4, <1>7, <1>9, HasAnyPut
  <2>4. Live => Single(toMaster'[w], Answers)
    <3>1. Live => ~HasAny(toMaster[w], Answers) /\ Single(toMaster[w], Answers)
      BY <1>1, <1>4 DEF WorkerInv, OneAssignment
    <3>. QED BY <1>4, <1>7, <3>1, SinglePut
  <2>5. OneAssignment(w)'
    <3>1. Live => /\ w \in assigned /\ ~HasAny(toSlave[w], Orders)
                  /\ Single(toSlave[w], Orders)
      BY <1>1, <1>4 DEF WorkerInv, OneAssignment
    <3>. QED BY <1>1, <1>2, <1>3, <1>10, <2>3, <2>4, <3>1 DEF OneAssignment
  <2>. QED BY <1>7, <2>1, <2>2, <2>5 DEF WorkerInv
<1>12. ASSUME Live
       PROVE  AllLocated' /\ Apart(toMaster'[w], Carriers)
  <2>1. AllLocated /\ Apart(toMaster[w], Carriers)
    BY <1>4, <1>12 DEF AccountsInv, ItemsLocated, KeptApart
  <2>2. {"order", "desk", "cache", "report"} \subseteq Places
    BY DEF Places, WithWorker
  <2>3. \A j \in bad[w] : Here(j, "desk", w)
    BY <1>1, PlaceNames
  <2>4. ASSUME NEW j \in bad[w], Holds(toMaster[w], Carriers, j)
        PROVE  FALSE
    <3>1. j \in Items /\ Here(j, "report", w)
      BY <1>4, <2>4, PlaceNames
    <3>. QED BY <2>1, <2>2, <2>3, <3>1, OnePlace
  <2>5. Apart(toMaster'[w], Carriers)
    BY <1>4, <1>7, <2>1, <2>4, ApartPut
  <2>6. \A j : Holds(toMaster'[w], Carriers, j) <=> Holds(toMaster[w], Carriers, j) \/ j \in bad[w]
    BY <1>4, <1>7, <1>9, HoldsPut
  <2>7. Reaching("report", bad[w], w)
    BY <1>8, <2>6, SameForOthers, PlaceNames, PlaceNamesNext DEF Reaching, WithWorker
  <2>8. Leaving("desk", bad[w], w)
    BY <1>1, <1>3, <1>8, SameForOthers, PlaceNames, PlaceNamesNext DEF Leaving, WithWorker
  <2>9. Same("order") /\ Same("cache")
    BY <1>1, PlaceNames, PlaceNamesNext DEF Same
  <2>10. \A p \in Places \ ({"desk"} \cup {"report"}) : Same(p)
    BY <1>2, <2>9, SameAtMaster DEF Places, WithWorker
  <2>11. Transfer(bad[w], {"desk"}, "report", w)
    BY <1>4, <2>2, <2>3, <2>7, <2>8, <2>10 DEF Transfer
  <2>. QED BY <2>1, <2>5, <2>11, Moving
<1>13. ASSUME NEW share \in SUBSET Items, Live, HandedOut(w, share)
       PROVE  HandedOut(w, share)'
  <2>1. Cardinality(share) = Processed(w)
    <3>1. Cardinality(share) = Cardinality(todo[w]) + good[w] + Cardinality(bad[w])
      BY <1>1, <1>13 DEF HandedOut
    <3>2. Cardinality(todo[w]) = 0
      BY <1>1, FS_EmptySet
    <3>. QED BY <1>4, <1>5, <3>1, <3>2
  <2>2. ASSUME NEW k \in 1 .. Len(toMaster'[w]), toMaster'[w][k].tag \in Answers
        PROVE  toMaster'[w][k].n = Cardinality(share)
    <3>1. \/ k \in 1 .. Len(toMaster[w]) /\ toMaster'[w][k] = toMaster[w][k]
          \/ toMaster'[w][k] = r
      BY <1>4, <1>7, <2>2, EachPut
    <3>2. ~HasAny(toMaster[w], Answers)
      BY <1>1, <1>4, <1>13 DEF WorkerInv, OneAssignment
    <3>. QED BY <1>7, <2>1, <2>2, <3>1, <3>2 DEF HasAny
  <2>3. /\ w \notin assigned' => share = {}
        /\ \A k \in 1 .. Len(toSlave'[w]) :
             toSlave'[w][k].tag \in Orders => toSlave'[w][k].items = share
    BY <1>1, <1>2, <1>13 DEF HandedOut
  <2>. QED BY <1>3, <2>2, <2>3 DEF HandedOut
<1>. QED BY <1>1, <1>8, <1>11, <1>12, <1>13, OnDuty

\* The batcher is closed, and the slave has its last word.
LEMMA CloseKeeps ==
  ASSUME Good, NEW w \in Workers, SlaveClose(w)
  PROVE  AccountsInv'
<1> DEFINE a == Msg("DATA_READY", cache[w], 0)
           b == Order("WORKER_CLOSE_DOWN")
           ra == StampedBy(w, a)
           rb == StampedBy(w, b)
           q == Append(toMaster[w], ra)
<1>1. /\ at[w] = "task" /\ toSlave[w] # <<>> /\ TakeOrder(w) /\ Send(w, <<a, b>>)
      /\ Head(toSlave[w]).tag = "END_OF_WORK"
      /\ cache' = [cache EXCEPT ![w] = {}] /\ at' = [at EXCEPT ![w] = "wait"]
      /\ UNCHANGED <<schedVars, masterVars, serving, todo, good, bad, interval>>
  BY DEF SlaveClose, FromMaster, LastWords
<1>2. /\ UNCHANGED <<phase, task, raised, assigned>>
      /\ UNCHANGED <<wanted, queue, stored, failures, dropped, aggregations>>
  BY <1>1 DEF masterVars, schedVars
<1>3. /\ at'[w] = "wait" /\ cache'[w] = {}
      /\ \A v \in Workers \ {w} : at'[v] = at[v] /\ cache'[v] = cache[v]
  BY <1>1, SlaveFunctions
<1>4. /\ WorkerInv(w) /\ ProtocolInv /\ AccountsInv /\ cache[w] \in SUBSET Items
      /\ toMaster[w] \in Seq(Message) /\ serving[w] \in Nat /\ task \in Nat
  BY Typing
<1>5. /\ a \in Message /\ a.tag = "DATA_READY" /\ a.items = cache[w]
      /\ b \in Message /\ b.tag = "WORKER_CLOSE_DOWN"
  <2>1. "DATA_READY" \in Tags /\ "WORKER_CLOSE_DOWN" \in Tags
    BY DEF Tags
  <2>2. a \in Message /\ a.tag = "DATA_READY" /\ a.items = cache[w]
    BY <1>4, <2>1, SlaveFunctions, MsgTyped
  <2>3. b \in Message /\ b.tag = "WORKER_CLOSE_DOWN"
    BY <2>1, SlaveFunctions, OrderTyped
  <2>. QED BY <2>2, <2>3
<1> HIDE DEF a, b
<1>6. /\ ra \in Message /\ ra.tag = "DATA_READY" /\ ra.items = cache[w] /\ ra.task = serving[w]
      /\ rb \in Message /\ rb.tag = "WORKER_CLOSE_DOWN" /\ rb.task = serving[w]
      /\ toMaster' = [toMaster EXCEPT ![w] = Append(Append(@, ra), rb)]
  <2>1. /\ ra \in Message /\ rb \in Message
        /\ toMaster' = [toMaster EXCEPT ![w] = Append(Append(@, ra), rb)]
    <3>1. Send(w, <<a, b>>) /\ ChannelsTyped /\ SlavesTyped /\ a \in Message /\ b \in Message
      BY <1>1, <1>5, SlaveFunctions
    <3>. QED BY ONLY <3>1, SendTwo, w \in Workers
  <2>. QED BY <1>5, <2>1 DEF StampedBy, Message
<1> HIDE DEF ra, rb
<1>7. /\ toMaster'[w] = Append(q, rb) /\ q \in Seq(Message)
      /\ \A v \in Workers \ {w} : toMaster'[v] = toMaster[v]
  BY <1>4, <1>6, SlaveFunctions, Put
<1>8. /\ toSlave'[w] = Tail(toSlave[w]) /\ toSlave[w] \in Seq(Message)
      /\ \A v \in Workers \ {w} : toSlave'[v] = toSlave[v]
      /\ OrdersDated(w)'
  BY <1>1, <1>2, OrderRead, Typing
<1>9. \A v \in Workers \ {w} : SameElsewhere(v)
  BY <1>1, <1>3, <1>7, <1>8 DEF SameElsewhere, SameDesk
<1>10. ASSUME NEW k \in 1 .. Len(toMaster'[w])
       PROVE  \/ k \in 1 .. Len(toMaster[w]) /\ toMaster'[w][k] = toMaster[w][k]
              \/ toMaster'[w][k] \in {ra, rb}
  <2>1. \/ k \in 1 .. Len(q) /\ toMaster'[w][k] = q[k]
        \/ toMaster'[w][k] = rb
    BY <1>6, <1>7, EachPut
  <2>2. k \in 1 .. Len(q) => \/ k \in 1 .. Len(toMaster[w]) /\ q[k] = toMaster[w][k]
                            \/ q[k] = ra
    BY <1>4, <1>6, EachPut
  <2>. QED BY <2>1, <2>2
<1> HIDE DEF q
<1>11. ReportsDated(w)'
  <2>1. serving[w] <= task /\ (phase = "capture" => serving[w] < task)
    BY <1>1, <1>4 DEF WorkerInv, UpToDate
  <2>. QED BY <1>2, <1>4, <1>6, <1>10, <2>1 DEF ReportsDated, WorkerInv
<1>12. UpToDate(w)'
  BY <1>1, <1>2, <1>3, <1>4 DEF UpToDate, WorkerInv
<1>13. Live' <=> Live
  BY <1>2 DEF Live
<1>14. ra.tag \notin Answers /\ ra.tag \in Carriers /\ rb.tag \notin Answers /\ rb.tag \notin Carriers
  BY <1>6 DEF Answers, Carriers
<1>15. /\ HasAny(toMaster'[w], Answers) <=> HasAny(toMaster[w], Answers)
       /\ Single(toMaster[w], Answers) => Single(toMaster'[w], Answers)
  <2>1. /\ HasAny(q, Answers) <=> HasAny(toMaster[w], Answers)
        /\ Single(toMaster[w], Answers) => Single(q, Answers)
    BY <1>4, <1>6, <1>14, HasAnyPut, SinglePut DEF q
  <2>2. /\ HasAny(toMaster'[w], Answers) <=> HasAny(q, Answers)
        /\ Single(q, Answers) => Single(toMaster'[w], Answers)
    <3>1. q \in Seq(Message) /\ rb \in Message /\ rb.tag \notin Answers
          /\ toMaster'[w] = Append(q, rb)
      BY <1>6, <1>7, <1>14
    <3>2. HasAny(toMaster'[w], Answers) <=> HasAny(q, Answers)
      BY <3>1, HasAnyPut
    <3>3. Single(q, Answers) => Single(toMaster'[w], Answers)
      BY <3>1, SinglePut
    <3>. QED BY <3>2, <3>3
  <2>. QED BY <2>1, <2>2
<1>16. Head(toSlave[w]).tag \notin Orders
  BY <1>1 DEF Orders
<1>17. /\ HasAny(toSlave'[w], Orders) <=> HasAny(toSlave[w], Orders)
       /\ Single(toSlave[w], Orders) => Single(toSlave'[w], Orders)
       /\ \A j : Holds(toSlave'[w], Orders, j) <=> Holds(toSlave[w], Orders, j)
  <2>1. toSlave[w] \in Seq(Message) /\ toSlave[w] # <<>> /\ toSlave'[w] = Tail(toSlave[w])
    BY <1>1, <1>8
  <2>2. HasAny(toSlave'[w], Orders) <=> HasAny(toSlave[w], Orders)
    BY <1>16, <2>1, HasAnyTaken
  <2>3. Single(toSlave[w], Orders) => Single(toSlave'[w], Orders)
    BY <2>1, SingleTaken
  <2>4. \A j : Holds(toSlave'[w], Orders, j) <=> Holds(toSlave[w], Orders, j)
    BY <1>16, <2>1, HoldsTaken
  <2>. QED BY <2>2, <2>3, <2>4
<1>18. WorkerInv(w)'
  <2>1. OneAssignment(w)'
    BY <1>1, <1>2, <1>3, <1>4, <1>13, <1>15, <1>17 DEF OneAssignment, WorkerInv
  <2>. QED BY <1>8, <1>11, <1>12, <2>1 DEF WorkerInv
<1>19. ASSUME Live
       PROVE  AllLocated' /\ Apart(toMaster'[w], Carriers)
  <2>1. AllLocated /\ Apart(toMaster[w], Carriers)
    BY <1>4, <1>19 DEF AccountsInv, ItemsLocated, KeptApart
  <2>2. {"order", "desk", "cache", "report"} \subseteq Places
    BY DEF Places, WithWorker
  <2>3. \A j \in cache[w] : Here(j, "cache", w)
    BY PlaceNames
  <2>4. ASSUME NEW j \in cache[w], Holds(toMaster[w], Carriers, j)
        PROVE  FALSE
    <3>1. j \in Items /\ Here(j, "report", w)
      BY <1>4, <2>4, PlaceNames
    <3>. QED BY <2>1, <2>2, <2>3, <3>1, OnePlace
  <2>5. Apart(toMaster'[w], Carriers)
    <3>1. Apart(q, Carriers)
      BY <1>4, <1>6, <2>1, <2>4, ApartPut DEF q
    <3>. QED BY <1>6, <1>7, <1>14, <3>1, ApartPut
  <2>6. ASSUME NEW j
        PROVE  Holds(toMaster'[w], Carriers, j) <=> Holds(toMaster[w], Carriers, j) \/ j \in cache[w]
    <3>1. Holds(q, Carriers, j) <=> Holds(toMaster[w], Carriers, j) \/ j \in cache[w]
      BY <1>4, <1>6, <1>14, HoldsPut DEF q
    <3>2. Holds(toMaster'[w], Carriers, j) <=> Holds(q, Carriers, j)
      <4>1. q \in Seq(Message) /\ rb \in Message /\ rb.tag \notin Carriers
            /\ toMaster'[w] = Append(q, rb)
        BY <1>6, <1>7, <1>14
      <4>. QED BY <4>1, HoldsPut
    <3>. QED BY <3>1, <3>2
  <2>7. Reaching("report", cache[w], w)
    BY <1>9, <2>6, SameForOthers, PlaceNames, PlaceNamesNext DEF Reaching, WithWorker
  <2>8. Leaving("cache", cache[w], w)
    BY <1>3, <1>9, SameForOthers, PlaceNames, PlaceNamesNext DEF Leaving, WithWorker
  <2>9. Same("order")
    BY <1>9, <1>17, SameForOthers, PlaceNames, PlaceNamesNext DEF Same, WithWorker
  <2>10. Same("desk")
    BY <1>1, <1>3, <1>9, SameForOthers, PlaceNames, PlaceNamesNext DEF Same, WithWorker
  <2>11. \A p \in Places \ ({"cache"} \cup {"report"}) : Same(p)
    BY <1>2, <2>9, <2>10, SameAtMaster DEF Places, WithWorker
  <2>12. Transfer(cache[w], {"cache"}, "report", w)
    BY <1>4, <2>2, <2>3, <2>7, <2>8, <2>11 DEF Transfer
  <2>. QED BY <2>1, <2>5, <2>12, Moving
<1>20. ASSUME NEW share \in SUBSET Items, Live, HandedOut(w, share)
       PROVE  HandedOut(w, share)'
  <2>1. ASSUME NEW k \in 1 .. Len(toSlave'[w]), toSlave'[w][k].tag \in Orders
        PROVE  toSlave'[w][k].items = share
    <3>1. k + 1 \in 1 .. Len(toSlave[w]) /\ toSlave'[w][k] = toSlave[w][k + 1]
      BY <1>1, <1>8, EachTaken
    <3>. QED BY <1>20, <2>1, <3>1 DEF HandedOut
  <2>2. ASSUME NEW k \in 1 .. Len(toMaster'[w]), toMaster'[w][k].tag \in Answers
        PROVE  toMaster'[w][k].n = Cardinality(share)
    BY <1>10, <1>14, <1>20, <2>2 DEF HandedOut
  <2>3. w \notin assigned' => share = {}
    BY <1>2, <1>20 DEF HandedOut
  <2>. QED BY <1>3, <2>1, <2>2, <2>3 DEF HandedOut
<1>. QED BY <1>1, <1>9, <1>18, <1>19, <1>20, OnDuty

-----------------------------------------------------------------------------
(* The master between its tasks                                            *)

\* What is broadcast is added to every mailbox.
LEMMA Broadcasts ==
  ASSUME Good, NEW msgs \in Seq(Message), Broadcast(msgs), NEW w \in Workers
  PROVE  /\ toSlave'[w] \in Seq(Message)
         /\ \A k \in 1 .. Len(toSlave'[w]) :
              \/ k \in 1 .. Len(toSlave[w]) /\ toSlave'[w][k] = toSlave[w][k]
              \/ \E j \in 1 .. Len(msgs) : toSlave'[w][k] = msgs[j]
<1> DEFINE q == toSlave[w]
           r == q \o msgs
<1>1. q \in Seq(Message) /\ toSlave'[w] = r
  BY Typing DEF Broadcast
<1>2. /\ r \in Seq(Message) /\ Len(r) = Len(q) + Len(msgs)
      /\ Len(q) \in Nat /\ Len(msgs) \in Nat
      /\ \A k \in 1 .. Len(q) + Len(msgs) : r[k] = IF k <= Len(q) THEN q[k] ELSE msgs[k - Len(q)]
  BY <1>1, ConcatProperties, LenProperties
<1> HIDE DEF q, r
<1>3. ASSUME NEW k \in 1 .. Len(r)
      PROVE  \/ k \in 1 .. Len(q) /\ r[k] = q[k]
             \/ \E j \in 1 .. Len(msgs) : r[k] = msgs[j]
  <2>1. CASE k <= Len(q)
    BY <1>2, <2>1
  <2>2. CASE ~(k <= Len(q))
    <3>1. k - Len(q) \in 1 .. Len(msgs) /\ r[k] = msgs[k - Len(q)]
      BY <1>2, <2>2
    <3>. QED BY <3>1
  <2>. QED BY <2>1, <2>2
<1>. QED BY <1>1, <1>2, <1>3 DEF q

\* Announcements are no assignments, and come from no later task.
Announcements(msgs) ==
  /\ msgs \in Seq(Message)
  /\ \A j \in 1 .. Len(msgs) : msgs[j].tag \notin Orders /\ msgs[j].task <= task'

\* They leave everything dated as it should be.
LEMMA Announced ==
  ASSUME Good, NEW msgs, Announcements(msgs), Broadcast(msgs), task' \in Nat, task <= task',
         phase' \notin {"poll", "drain"}, phase' = "capture" => task < task', NEW w \in Workers
  PROVE  OrdersDated(w)' /\ (HasAny(toSlave'[w], Orders) => HasAny(toSlave[w], Orders))
<1>1. /\ toSlave'[w] \in Seq(Message)
      /\ \A k \in 1 .. Len(toSlave'[w]) :
           \/ k \in 1 .. Len(toSlave[w]) /\ toSlave'[w][k] = toSlave[w][k]
           \/ \E j \in 1 .. Len(msgs) : toSlave'[w][k] = msgs[j]
  BY Broadcasts DEF Announcements
<1>2. WorkerInv(w) /\ toSlave[w] \in Seq(Message) /\ task \in Nat
  BY Typing
<1>3. \A k \in 1 .. Len(toSlave[w]) : toSlave[w][k].task <= task /\ toSlave[w][k].task \in Nat
  <2>1. ASSUME NEW k \in 1 .. Len(toSlave[w])
        PROVE  toSlave[w][k].task <= task /\ toSlave[w][k].task \in Nat
    <3>1. toSlave[w][k] \in Message
      BY <1>2
    <3>. QED BY <1>2, <3>1, Fields DEF WorkerInv, OrdersDated
  <2>. QED BY <2>1
<1>4. ASSUME NEW k \in 1 .. Len(toSlave'[w])
      PROVE  /\ toSlave'[w][k].task <= task'
             /\ toSlave'[w][k].tag \in Orders => /\ k \in 1 .. Len(toSlave[w])
                                                 /\ toSlave'[w][k] = toSlave[w][k]
             /\ phase' = "capture" /\ toSlave'[w][k].tag \in Orders => toSlave'[w][k].task < task'
  <2>1. CASE k \in 1 .. Len(toSlave[w]) /\ toSlave'[w][k] = toSlave[w][k]
    BY <1>2, <1>3, <2>1
  <2>2. CASE \E j \in 1 .. Len(msgs) : toSlave'[w][k] = msgs[j]
    BY <2>2 DEF Announcements
  <2>. QED BY <1>1, <2>1, <2>2
<1>5. OrdersDated(w)'
  BY <1>4 DEF OrdersDated
<1>6. HasAny(toSlave'[w], Orders) => HasAny(toSlave[w], Orders)
  BY <1>4 DEF HasAny
<1>. QED BY <1>5, <1>6

\* A step of the master that only announces something.
LEMMA AnnouncementKeeps ==
  ASSUME Good, NEW msgs, Announcements(msgs), Broadcast(msgs), task' \in Nat, task <= task',
         phase' \notin {"poll", "drain"}, phase' = "capture" => task < task',
         UNCHANGED <<slaveVars, toMaster>>, Ledger', Settled'
  PROVE  AccountsInv'
<1>1. ~Live'
  BY DEF Live
<1>2. ASSUME NEW w \in Workers
      PROVE  WorkerInv(w)'
  <2>1. OrdersDated(w)'
    BY Announced
  <2>2. WorkerInv(w) /\ task \in Nat /\ serving[w] \in Nat /\ toMaster[w] \in Seq(Message)
    BY Typing
  <2>3. UpToDate(w)'
    BY <2>2 DEF slaveVars, WorkerInv, UpToDate
  <2>4. ReportsDated(w)'
    <3>1. ASSUME NEW k \in 1 .. Len(toMaster[w])
          PROVE  toMaster[w][k].task <= task /\ toMaster[w][k].task \in Nat
      <4>1. toMaster[w][k] \in Message
        BY <2>2
      <4>. QED BY <2>2, <4>1, Fields DEF WorkerInv, ReportsDated
    <3>. QED BY <2>2, <3>1 DEF ReportsDated
  <2>. QED BY <1>1, <2>1, <2>3, <2>4 DEF WorkerInv, OneAssignment
<1>. QED BY <1>1, <1>2 DEF AccountsInv, SharesCounted, ItemsLocated

\* The end of the run, or of a task that did not get far, is a quiet time.
LEMMA LedgerAfter ==
  ASSUME Ledger, phase' \in {"next", "loads", "over"}, UNCHANGED <<raised, kinds>>
  PROVE  Ledger'
BY DEF Ledger

\* No message of the master but an assignment is one.
LEMMA NotAnOrder ==
  ASSUME Good, NEW t \in 0 .. NumTasks,
         NEW tag \in {"SET_LOCAL_CHECKPOINT", "UNSET_LOCAL_CHECKPOINT", "NEW_TASK",
                      "END_OF_WORK", "QUERY_PERFORMANCE_DATA", "TERMINATE"}
  PROVE  /\ Numbered(tag, t) \in Message /\ Numbered(tag, t).tag = tag
         /\ Numbered(tag, t).tag \notin Orders /\ Numbered(tag, t).task = t
         /\ Order(tag) \in Message /\ Order(tag).tag = tag
         /\ Order(tag).tag \notin Orders /\ Order(tag).task = task
<1>1. tag \in Tags /\ task \in 0 .. NumTasks
  BY Typing, SlaveFunctions DEF Tags
<1>2. /\ Numbered(tag, t) \in Message /\ Numbered(tag, t).tag = tag /\ Numbered(tag, t).task = t
  BY <1>1, NumberedTyped
<1>3. Order(tag) \in Message /\ Order(tag).tag = tag /\ Order(tag).task = task
  BY <1>1, OrderTyped
<1>4. tag \notin Orders
  BY DEF Orders
<1>. QED BY <1>2, <1>3, <1>4

\* One announcement, two, or none.
LEMMA OneAnnouncement ==
  ASSUME NEW a \in Message, a.tag \notin Orders, a.task <= task'
  PROVE  Announcements(<<a>>)
<1>1. <<a>> \in Seq(Message) /\ \A j \in 1 .. Len(<<a>>) : <<a>>[j] = a
  OBVIOUS
<1>. QED BY <1>1 DEF Announcements

\* Two.
LEMMA TwoAnnouncements ==
  ASSUME NEW a \in Message, a.tag \notin Orders, a.task <= task',
         NEW b \in Message, b.tag \notin Orders, b.task <= task'
  PROVE  Announcements(<<a, b>>)
<1>1. <<a, b>> \in Seq(Message) /\ \A j \in 1 .. Len(<<a, b>>) : <<a, b>>[j] \in {a, b}
  OBVIOUS
<1>. QED BY <1>1 DEF Announcements

\* None.
LEMMA NoAnnouncement == Announcements(<<>>)
<1>1. <<>> \in Seq(Message) /\ Len(<<>>) = 0
  OBVIOUS
<1>. QED BY <1>1 DEF Announcements

\* A task is begun.
LEMMA BeginTaskKeeps ==
  ASSUME Good, NEW items \in SUBSET Items, BeginTask(items)
  PROVE  AccountsInv'
<1> DEFINE t == task + 1
           a == Numbered("SET_LOCAL_CHECKPOINT", t)
           b == Numbered("NEW_TASK", t)
           mail == Stamped(IfCheckpointed(t, <<"SET_LOCAL_CHECKPOINT">>) \o <<"NEW_TASK">>, t)
<1>1. /\ phase = "next" /\ task < NumTasks /\ task' = t /\ phase' = "capture"
      /\ NewTask(items) /\ aggregations' = <<>> /\ stored' = {}
      /\ failures' = {} /\ dropped' = {}
      /\ UNCHANGED <<slaveVars, toMaster>> /\ Broadcast(mail)
  BY DEF BeginTask
<1>2. task \in Nat /\ t \in 0 .. NumTasks /\ task < t /\ task <= t /\ AccountsInv
  BY <1>1, Typing, TasksAssumption
<1>3. /\ a \in Message /\ a.tag \notin Orders /\ a.task = t
      /\ b \in Message /\ b.tag \notin Orders /\ b.task = t
  BY <1>2, NotAnOrder
<1>4. mail = IF t \in Checkpointed THEN <<a, b>> ELSE <<b>>
  BY OpeningMail
<1> HIDE DEF a, b, mail
<1>5. a.task <= task' /\ b.task <= task' /\ task' \in Nat
  BY <1>1, <1>2, <1>3
<1>6. Announcements(mail)
  BY <1>3, <1>4, <1>5, OneAnnouncement, TwoAnnouncements
<1>7. Ledger'
  <2>1. /\ queue' = wanted' /\ assigned' = {} /\ inFlight' = 0 /\ raised' = "none" /\ kinds' = {}
    BY <1>1 DEF NewTask
  <2>. QED BY <1>1, <2>1 DEF Ledger
<1>8. Settled'
  BY <1>1 DEF Settled, Closed
<1>. QED BY <1>1, <1>2, <1>5, <1>6, <1>7, <1>8, AnnouncementKeeps

\* A task's set-up throws.
LEMMA SetupThrowsKeeps ==
  ASSUME Good, SetupThrows
  PROVE  AccountsInv'
<1> DEFINE t == task + 1
           a == Numbered("SET_LOCAL_CHECKPOINT", t)
           b == Numbered("UNSET_LOCAL_CHECKPOINT", t)
           mail == Stamped(IfCheckpointed(t, <<"SET_LOCAL_CHECKPOINT">>) \o CheckpointLeft(t), t)
<1>1. /\ phase = "next" /\ task < NumTasks /\ task' = t
      /\ result' = [result EXCEPT ![t] = "aborted"]
      /\ UNCHANGED <<schedVars, phase, slaveVars, toMaster>> /\ Broadcast(mail)
  BY DEF SetupThrows
<1>2. /\ task \in Nat /\ t \in 0 .. NumTasks /\ task <= t /\ AccountsInv /\ t \in 1 .. NumTasks
      /\ ProtocolInv
  BY <1>1, Typing, TasksAssumption
<1>3. /\ a \in Message /\ a.tag \notin Orders /\ a.task = t
      /\ b \in Message /\ b.tag \notin Orders /\ b.task = t
  BY <1>2, NotAnOrder
<1>4. mail = IF t \in Checkpointed THEN <<a, b>> ELSE <<>>
  BY FailedMail
<1> HIDE DEF a, b, mail
<1>5. a.task <= task' /\ b.task <= task' /\ task' \in Nat
  BY <1>1, <1>2, <1>3
<1>6. Announcements(mail)
  BY <1>3, <1>4, <1>5, NoAnnouncement, TwoAnnouncements
<1>7. Ledger'
  <2>1. UNCHANGED <<raised, kinds>> /\ phase' = "next" /\ Ledger
    BY <1>1, <1>2 DEF schedVars, AccountsInv
  <2>. QED BY <2>1, LedgerAfter
<1>8. Settled'
  <2>1. result'[task'] = "aborted"
    BY <1>1, <1>2, Types DEF MasterTyped
  <2>. QED BY <2>1 DEF Settled, Closed
<1>. QED BY <1>1, <1>2, <1>5, <1>6, <1>7, <1>8, AnnouncementKeeps

\* The last orders of a run.
LEMMA LastOrdersKeep ==
  ASSUME Good, phase \in {"next", "loads"}, phase' \in {"loads", "over"},
         NEW tag \in {"QUERY_PERFORMANCE_DATA", "TERMINATE"}, Broadcast(<<Order(tag)>>),
         UNCHANGED <<schedVars, task, aggregations, stored, failures, dropped, result,
                     slaveVars, toMaster>>
  PROVE  AccountsInv'
<1> DEFINE a == Order(tag)
<1>1. /\ task \in Nat /\ AccountsInv /\ 0 \in 0 .. NumTasks /\ task' = task
      /\ UNCHANGED <<slaveVars, toMaster>>
  BY Typing
<1>2. a \in Message /\ a.tag \notin Orders /\ a.task = task
  BY <1>1, NotAnOrder
<1>3. Broadcast(<<a>>)
  OBVIOUS
<1> HIDE DEF a
<1>4. Announcements(<<a>>)
  BY <1>1, <1>2, OneAnnouncement
<1>5. UNCHANGED <<raised, kinds, queue, wanted>>
  BY DEF schedVars
<1>6. Ledger'
  BY <1>1, <1>5, LedgerAfter DEF AccountsInv
<1>7. Settled'
  <2>1. Closed' => Closed
    BY DEF Closed
  <2>2. ASSUME Closed, NEW w \in Workers
        PROVE  Gone(w)'
    <3>1. Gone(w)
      BY <1>1, <2>2 DEF AccountsInv, Settled
    <3>2. HasAny(toSlave'[w], Orders) => HasAny(toSlave[w], Orders)
      BY <1>1, <1>3, <1>4, Announced
    <3>. QED BY <1>1, <3>1, <3>2 DEF Gone, slaveVars
  <2>. QED BY <1>1, <1>5, <2>1, <2>2 DEF AccountsInv, Settled
<1>8. phase' \notin {"poll", "drain", "capture"} /\ task' \in Nat /\ task <= task'
  BY <1>1
<1>. QED BY <1>1, <1>3, <1>4, <1>6, <1>7, <1>8, AnnouncementKeeps

-----------------------------------------------------------------------------
(* The master leaves a task                                                *)

\* A slave that has closed down while the master polls has read all its mail.
LEMMA ReadAll ==
  ASSUME Good, NEW w \in Workers, phase \in {"poll", "drain"}, at[w] = "wait"
  PROVE  closing /\ toSlave[w] = <<>> /\ cache[w] = {}
<1>1. /\ toSlave[w] \in Seq(Message) /\ WorkerInv(w) /\ ProtocolInv
      /\ \A k \in 1 .. Len(toSlave[w]) :
           toSlave[w][k].tag \in {"NEW_WORK_ASSIGNMENT", "END_OF_WORK"}
  BY Typing, PollingMail
<1>2. Track(Now(w), toSlave[w], Due)
  BY <1>1, OnTrack
<1>3. Now(w).mode = "wait"
  BY DEF Now, State
<1>4. toSlave[w] = <<>>
  <2>1. ASSUME toSlave[w] # <<>>
        PROVE  FALSE
    <3>1. Len(toSlave[w]) \in Nat \ {0} /\ Head(toSlave[w]) = toSlave[w][1]
      BY <1>1, <2>1, Taken
    <3>2. 1 \in 1 .. Len(toSlave[w])
      BY <3>1
    <3>3. Accepts(Now(w), Head(toSlave[w]))
      BY <1>1, <1>2, <2>1, TrackTaken
    <3>. QED BY <1>1, <1>3, <3>1, <3>2, <3>3 DEF Accepts
  <2>. QED BY <2>1
<1>5. Due.mode = "wait"
  BY <1>2, <1>3, <1>4, TrackNone
<1>6. closing
  BY <1>5 DEF Due, State
<1>. QED BY <1>1, <1>4, <1>6 DEF WorkerInv, UpToDate

\* An item that nobody holds, and that is not waiting, is settled.
LEMMA AllSettled ==
  ASSUME Good, phase = "drain", aggregations = <<>>
  PROVE  /\ queue = {} /\ stored \cup failures \cup dropped = wanted
         /\ stored \cap failures = {} /\ stored \cap dropped = {} /\ failures \cap dropped = {}
         /\ \A w \in Workers : at[w] = "wait" /\ cache[w] = {}
                               /\ toSlave[w] = <<>> /\ toMaster[w] = <<>>
<1>1. /\ ProtocolInv /\ AccountsInv
      /\ stored \in SUBSET Items /\ failures \in SUBSET Items /\ dropped \in SUBSET Items
      /\ wanted \in SUBSET Items /\ queue \in SUBSET Items
  BY Typing
<1>2. queue = {} /\ Live /\ AllLocated
  BY <1>1 DEF AccountsInv, Ledger, Live, ItemsLocated
<1>3. \A w \in Workers : at[w] = "wait" /\ cache[w] = {} /\ toSlave[w] = <<>> /\ toMaster[w] = <<>>
  BY <1>1, ClosingSent, ReadAll
<1>4. /\ {"elsewhere", "stored", "failures", "dropped"} \subseteq Places
      /\ \A i, w : /\ Here(i, "elsewhere", w) <=> i \notin wanted
                   /\ Here(i, "stored", w) <=> i \in stored
                   /\ Here(i, "failures", w) <=> i \in failures
                   /\ Here(i, "dropped", w) <=> i \in dropped
  BY DEF Here, Places
<1>5. PICK w \in Workers : TRUE
  BY WorkersAssumption
<1>6. ASSUME NEW i \in Items
      PROVE  i \in wanted <=> i \in stored \cup failures \cup dropped
  <2>1. ASSUME i \in wanted
        PROVE  i \in stored \cup failures \cup dropped
    <3>1. PICK p \in Places, v \in Workers : Here(i, p, v)
      BY <1>2, SomePlace
    <3>2. ~Aggregating(i)
      BY DEF Aggregating
    <3>3. p \notin WithWorker
      <4>1. ~Holds(<<>>, Orders, i) /\ ~Holds(<<>>, Carriers, i)
        BY QueueEmpty
      <4>. QED BY <1>3, <3>1, <4>1, PlaceNames DEF WithWorker
    <3>4. p \in {"elsewhere", "queue", "stored", "failures", "dropped", "aggregations"}
      BY <3>3, PlaceNames
    <3>. QED BY <1>2, <2>1, <3>1, <3>2, <3>4 DEF Here
  <2>2. ASSUME i \in stored \cup failures \cup dropped, i \notin wanted
        PROVE  FALSE
    <3>1. Here(i, "elsewhere", w)
      BY <1>4, <2>2
    <3>2. Here(i, "stored", w) \/ Here(i, "failures", w) \/ Here(i, "dropped", w)
      BY <1>4, <2>2
    <3>. QED BY <1>2, <1>4, <1>5, <3>1, <3>2, OnePlace
  <2>. QED BY <2>1, <2>2
<1>7. ASSUME NEW i \in Items
      PROVE  /\ ~(i \in stored /\ i \in failures) /\ ~(i \in stored /\ i \in dropped)
             /\ ~(i \in failures /\ i \in dropped)
  <2>1. /\ ~(Here(i, "stored", w) /\ Here(i, "failures", w))
        /\ ~(Here(i, "stored", w) /\ Here(i, "dropped", w))
        /\ ~(Here(i, "failures", w) /\ Here(i, "dropped", w))
    BY <1>2, <1>4, <1>5, OnePlace
  <2>. QED BY <1>4, <2>1
<1>. QED BY <1>1, <1>2, <1>3, <1>6, <1>7

\* What a task leaves when its writer has been committed.
LEMMA LeavingKeeps ==
  ASSUME Good, NEW msgs, Announcements(msgs), Broadcast(msgs),
         NEW how \in {"committed", "rejected", "aborted"}, result' = [result EXCEPT ![task] = how],
         phase \in {"poll", "drain"}, phase' = "next",
         how = "committed" => phase = "drain" /\ aggregations = <<>> /\ aggregations' = <<>>,
         UNCHANGED <<schedVars, task, stored, failures, dropped, slaveVars, toMaster>>
  PROVE  AccountsInv'
<1>1. task \in Nat /\ AccountsInv /\ ProtocolInv /\ task' = task
  BY Typing
<1>2. UNCHANGED <<raised, kinds, queue, wanted, at, cache>>
  BY DEF schedVars, slaveVars
<1>3. Ledger'
  BY <1>1, <1>2, LedgerAfter DEF AccountsInv
<1>4. Settled'
  <2>1. CASE how # "committed"
    <3>1. task \in 1 .. NumTasks => result'[task] = how
      BY <1>1, Types DEF MasterTyped
    <3>2. task' > 0 => task \in 1 .. NumTasks
      BY <1>1, SlaveFunctions
    <3>. QED BY <1>1, <2>1, <3>1, <3>2 DEF Settled, Closed
  <2>2. CASE how = "committed"
    <3>1. /\ queue = {} /\ stored \cup failures \cup dropped = wanted
          /\ stored \cap failures = {} /\ stored \cap dropped = {} /\ failures \cap dropped = {}
          /\ \A w \in Workers : at[w] = "wait" /\ cache[w] = {}
                                /\ toSlave[w] = <<>> /\ toMaster[w] = <<>>
      BY <2>2, AllSettled
    <3>2. ASSUME NEW w \in Workers
          PROVE  Gone(w)'
      <4>1. HasAny(toSlave'[w], Orders) => HasAny(toSlave[w], Orders)
        BY <1>1, Announced
      <4>2. ~HasAny(<<>>, Orders) /\ ~HasAny(<<>>, Carriers)
        BY QueueEmpty
      <4>3. ~HasAny(toSlave'[w], Orders) /\ ~HasAny(toMaster'[w], Carriers)
        BY <3>1, <4>1, <4>2
      <4>. QED BY <1>2, <3>1, <4>3 DEF Gone
    <3>. QED BY <1>2, <2>2, <3>1, <3>2 DEF Settled
  <2>. QED BY <2>1, <2>2
<1>. QED BY <1>1, <1>3, <1>4, AnnouncementKeeps

\* The writer is closed.
LEMMA CloseTaskKeeps ==
  ASSUME Good, CloseTask
  PROVE  AccountsInv'
<1> DEFINE how == IF success \/ CommitFailed THEN "committed" ELSE "rejected"
           b == Numbered("UNSET_LOCAL_CHECKPOINT", task)
           mail == Stamped(CheckpointLeft(task), task)
<1>1. /\ phase = "drain" /\ aggregations = <<>> /\ phase' = "next" /\ Broadcast(<<>> \o mail)
      /\ result' = [result EXCEPT ![task] = how] /\ aggregations' = aggregations
      /\ UNCHANGED <<schedVars, task, stored, failures, dropped, slaveVars, toMaster>>
  BY DEF CloseTask, Leave
<1>2. task \in 0 .. NumTasks /\ task \in Nat /\ how \in {"committed", "rejected", "aborted"}
  BY SlaveFunctions, Typing
<1>3. b \in Message /\ b.tag \notin Orders /\ b.task = task
  BY <1>2, NotAnOrder
<1>4. mail = IF task \in Checkpointed THEN <<b>> ELSE <<>>
  BY ClosingMail
<1> HIDE DEF b, mail, how
<1>5. Announcements(<<>> \o mail)
  <2>1. Announcements(<<b>>) /\ Announcements(<<>>)
    BY <1>1, <1>2, <1>3, OneAnnouncement, NoAnnouncement
  <2>. QED BY <1>4, <2>1, NothingFirst, NothingTwice
<1>. QED BY <1>1, <1>2, <1>5, LeavingKeeps

\* An exception ends the task.
LEMMA AbortTaskKeeps ==
  ASSUME Good, AbortTask
  PROVE  AccountsInv'
<1> DEFINE b == Numbered("UNSET_LOCAL_CHECKPOINT", task)
           e == Order("END_OF_WORK")
           mail == Stamped(CheckpointLeft(task), task)
<1>1. /\ phase \in {"poll", "drain"} /\ phase' = "next" /\ Broadcast(Farewell \o mail)
      /\ result' = [result EXCEPT ![task] = "aborted"]
      /\ UNCHANGED <<schedVars, task, stored, failures, dropped, slaveVars, toMaster>>
  BY DEF AbortTask, Leave, Polling
<1>2. task \in 0 .. NumTasks /\ task \in Nat
  BY SlaveFunctions, Typing
<1>3. /\ b \in Message /\ b.tag \notin Orders /\ b.task = task
      /\ e \in Message /\ e.tag \notin Orders /\ e.task = task
  BY <1>2, NotAnOrder
<1>4. mail = IF task \in Checkpointed THEN <<b>> ELSE <<>>
  BY ClosingMail
<1>5. Farewell = IF closing THEN <<>> ELSE <<e>>
  BY DEF Farewell
<1> HIDE DEF b, e, mail
<1>6. b.task <= task' /\ e.task <= task'
  BY <1>1, <1>2, <1>3
<1>7. Announcements(Farewell \o mail)
  <2>1. /\ Announcements(<<>>) /\ Announcements(<<b>>) /\ Announcements(<<e>>)
        /\ Announcements(<<e, b>>)
    BY <1>3, <1>6, NoAnnouncement, OneAnnouncement, TwoAnnouncements
  <2>2. /\ <<>> \o <<>> = <<>> /\ <<>> \o <<b>> = <<b>> /\ <<e>> \o <<>> = <<e>>
        /\ <<e>> \o <<b>> = <<e, b>>
    BY NothingFirst, NothingTwice, TwoInARow
  <2>. QED BY <1>4, <1>5, <2>1, <2>2
<1>. QED BY <1>1, <1>7, LeavingKeeps

-----------------------------------------------------------------------------
(* The master reads a message                                              *)

\* The rest of the mailbox is dated as it was.
LEMMA ReportRead ==
  ASSUME Good, NEW w \in Workers, toMaster[w] # <<>>, TakeReport(w), UNCHANGED task,
         phase' = "capture" => phase = "capture"
  PROVE  /\ Head(toMaster[w]) \in Message /\ Head(toMaster[w]) = toMaster[w][1]
         /\ 1 \in 1 .. Len(toMaster[w]) /\ Len(toMaster[w]) \in Nat
         /\ toMaster'[w] = Tail(toMaster[w]) /\ toMaster[w] \in Seq(Message)
         /\ \A v \in Workers \ {w} : toMaster'[v] = toMaster[v]
         /\ ReportsDated(w)'
<1>1. toMaster[w] \in Seq(Message) /\ WorkerInv(w)
  BY Typing
<1>2. /\ toMaster'[w] = Tail(toMaster[w])
      /\ \A v \in Workers \ {w} : toMaster'[v] = toMaster[v]
  BY SlaveFunctions DEF TakeReport
<1>3. /\ Head(toMaster[w]) \in Message /\ Head(toMaster[w]) = toMaster[w][1]
      /\ Len(toMaster[w]) \in Nat \ {0}
  BY <1>1, Taken
<1>4. 1 \in 1 .. Len(toMaster[w])
  BY <1>3
<1>5. ReportsDated(w)'
  <2>1. ASSUME NEW k \in 1 .. Len(toMaster'[w])
        PROVE  k + 1 \in 1 .. Len(toMaster[w]) /\ toMaster'[w][k] = toMaster[w][k + 1]
    BY <1>1, <1>2, EachTaken
  <2>. QED BY <1>1, <2>1 DEF ReportsDated, WorkerInv
<1>. QED BY <1>1, <1>2, <1>3, <1>4, <1>5

\* Outside the polling loop, a message is read off.
LEMMA IdleReading ==
  ASSUME Good, NEW w \in Workers, toMaster[w] # <<>>, TakeReport(w),
         UNCHANGED <<phase, task, result, queue, wanted, stored, failures, dropped, aggregations,
                     slaveVars, toSlave>>,
         phase \notin {"poll", "drain"}, Ledger'
  PROVE  AccountsInv'
<1>1. /\ toMaster'[w] = Tail(toMaster[w]) /\ toMaster[w] \in Seq(Message)
      /\ \A v \in Workers \ {w} : toMaster'[v] = toMaster[v]
      /\ ReportsDated(w)'
  BY ReportRead
<1>2. ~Live' /\ AccountsInv /\ UNCHANGED <<at, serving, cache>>
  BY Typing DEF Live, slaveVars
<1>3. ASSUME NEW v \in Workers
      PROVE  WorkerInv(v)'
  <2>1. WorkerInv(v)
    BY Typing
  <2>2. OrdersDated(v)' /\ UpToDate(v)'
    BY <1>2, <2>1 DEF OrdersDated, UpToDate, WorkerInv
  <2>3. ReportsDated(v)'
    BY <1>1, <2>1 DEF ReportsDated, WorkerInv
  <2>. QED BY <1>2, <2>2, <2>3 DEF WorkerInv, OneAssignment
<1>4. Settled'
  <2>1. Closed' <=> Closed
    BY DEF Closed
  <2>2. ASSUME Closed, NEW v \in Workers
        PROVE  Gone(v)'
    <3>1. Gone(v)
      BY <1>2, <2>2 DEF AccountsInv, Settled
    <3>2. HasAny(toMaster'[v], Carriers) => HasAny(toMaster[v], Carriers)
      BY <1>1, HasAnyTaken
    <3>. QED BY <1>2, <3>1, <3>2 DEF Gone
  <2>. QED BY <1>2, <2>1, <2>2 DEF AccountsInv, Settled
<1>. QED BY <1>2, <1>3, <1>4 DEF AccountsInv, SharesCounted, ItemsLocated

\* What is not expected is thrown away.
LEMMA DiscardKeeps ==
  ASSUME Good, NEW w \in Workers, Discard(w)
  PROVE  AccountsInv'
<1>1. /\ phase \in {"capture", "loads"} /\ toMaster[w] # <<>> /\ TakeReport(w)
      /\ UNCHANGED <<schedVars, masterVars, slaveVars, toSlave>>
  BY DEF Discard
<1>2. UNCHANGED <<phase, task, raised, assigned, inFlight, queue, wanted, stored, failures,
                  dropped, aggregations, kinds, result>>
  BY <1>1 DEF schedVars, masterVars
<1>3. Ledger'
  BY <1>2, Typing, LedgerKept DEF AccountsInv
<1>. QED BY <1>1, <1>2, <1>3, IdleReading

\* A load is counted.
LEMMA ReceiveLoadKeeps ==
  ASSUME Good, NEW w \in Workers, ReceiveLoad(w)
  PROVE  AccountsInv'
<1>1. /\ phase = "loads" /\ toMaster[w] # <<>> /\ TakeReport(w)
      /\ UNCHANGED <<schedVars, phase, task, aggregations, stored, failures, dropped, result,
                     slaveVars, toSlave>>
  BY DEF ReceiveLoad, FromSlave
<1>2. UNCHANGED <<phase, task, raised, assigned, inFlight, queue, wanted, stored, failures,
                  dropped, aggregations, kinds, result>>
  BY <1>1 DEF schedVars
<1>3. Ledger'
  BY <1>2, Typing, LedgerKept DEF AccountsInv
<1>. QED BY <1>1, <1>2, <1>3, IdleReading

-----------------------------------------------------------------------------
(* The slaves have joined                                                  *)

\* When the polling starts nothing has been handed out, and no item is
\* anywhere but in the queue.
LEMMA NothingHandedOut ==
  ASSUME assigned' = {}, inFlight' = 0, queue' = wanted', wanted' \subseteq Items,
         stored' = {}, failures' = {}, dropped' = {}, aggregations' = <<>>,
         \A v \in Workers : /\ at'[v] = "task" /\ cache'[v] = {}
                            /\ toSlave'[v] = <<>> /\ toMaster'[v] = <<>>
  PROVE  SharesCounted' /\ ItemsLocated'
<1>1. \A tags : /\ ~HasAny(<<>>, tags) /\ Single(<<>>, tags) /\ Apart(<<>>, tags)
                /\ \A i : ~Holds(<<>>, tags, i)
  BY QueueEmpty
<1>2. SharesCounted'
  <2> DEFINE sh == [v \in Workers |-> {}]
  <2>1. sh \in [Workers -> SUBSET Items]
    OBVIOUS
  <2>2. UNION {sh[v] : v \in Workers} = {}
    OBVIOUS
  <2>3. Cardinality(UNION {sh[v] : v \in Workers}) = 0
    BY <2>2, FS_EmptySet
  <2>4. ASSUME NEW v \in Workers
        PROVE  HandedOut(v, {})'
    BY DEF HandedOut
  <2>5. Shared(sh)'
    BY <2>3, <2>4 DEF Shared
  <2>. QED BY <2>1, <2>5 DEF SharesCounted
<1>3. AllLocated'
  <2>1. PICK u \in Workers : TRUE
    BY WorkersAssumption
  <2>0. PICK all : all = queue'
    OBVIOUS
  <2> DEFINE whr == [i \in Items |-> IF i \in all THEN "queue" ELSE "elsewhere"]
             who == [i \in Items |-> u]
  <2>2. whr \in [Items -> Places] /\ who \in [Items -> Workers]
    BY DEF Places
  <2>3. ASSUME NEW i \in Items, NEW p \in Places, NEW v \in Workers
        PROVE  Here(i, p, v)' <=> whr[i] = p /\ (p \in WithWorker => who[i] = v)
    <3>1. ~Aggregating(i)'
      BY DEF Aggregating
    <3>2. CASE p \in WithWorker
      <4>1. ~Here(i, p, v)'
        BY <1>1, <3>2, PlaceNamesNext DEF WithWorker
      <4>. QED BY <3>2, <4>1 DEF WithWorker
    <3>3. CASE p \notin WithWorker
      <4>1. p \in {"elsewhere", "queue", "stored", "failures", "dropped", "aggregations"}
        BY <3>3, PlaceNames
      <4>. QED BY <2>0, <3>1, <3>3, <4>1 DEF Here
    <3>. QED BY <3>2, <3>3
  <2> HIDE DEF whr, who
  <2>4. Located(whr, who)'
    BY <2>3 DEF Located
  <2>. QED BY <2>2, <2>4 DEF AllLocated
<1>4. KeptApart'
  BY <1>1 DEF KeptApart
<1>. QED BY <1>2, <1>3, <1>4 DEF ItemsLocated

\* A worker identifies itself, the last one perhaps.
LEMMA CaptureKeeps ==
  ASSUME Good, NEW w \in Workers, NEW k \in Kinds, Capture(w, k)
  PROVE  AccountsInv'
<1>1. /\ phase = "capture" /\ toMaster[w] # <<>> /\ TakeReport(w)
      /\ Head(toMaster[w]).tag = "WORKER_IDENTIFICATION"
      /\ InitializeWorker(w, k)
      /\ phase' = IF waiting' = 0 THEN "poll" ELSE phase
      /\ UNCHANGED <<task, aggregations, stored, failures, dropped, result, slaveVars, toSlave>>
  BY DEF Capture, FromSlave, Captured
<1>2. ProtocolInv /\ AccountsInv /\ wanted \in SUBSET Items /\ task \in Nat
  BY Typing
<1>3. /\ raised = "none" /\ assigned = {} /\ inFlight = 0 /\ queue = wanted
      /\ stored = {} /\ failures = {} /\ dropped = {} /\ aggregations = <<>>
      /\ kinds \subseteq Kinds
  BY <1>1, <1>2 DEF AccountsInv, Ledger
<1>4. /\ UNCHANGED <<queue, assigned, inFlight, raised, wanted>>
      /\ kinds' \subseteq kinds \cup {k} /\ initialized' \subseteq initialized \cup {w}
  BY <1>1 DEF InitializeWorker
<1>5. Ledger'
  BY <1>1, <1>3, <1>4 DEF Ledger
<1>6. CASE phase' = "capture"
  BY <1>1, <1>4, <1>5, <1>6, IdleReading
<1>7. CASE phase' = "poll"
  <2>1. initialized' = Workers
    BY <1>1, <1>2, <1>7, CaptureStep DEF ProtocolInv, ClosingTime
  <2>2. /\ toMaster'[w] = Tail(toMaster[w]) /\ toMaster[w] \in Seq(Message)
        /\ Head(toMaster[w]) = toMaster[w][1] /\ 1 \in 1 .. Len(toMaster[w])
        /\ \A v \in Workers \ {w} : toMaster'[v] = toMaster[v]
    BY <1>1, <1>7, ReportRead
  <2>3. ASSUME NEW v \in Workers
        PROVE  /\ toMaster'[v] = <<>> /\ toSlave[v] = <<>> /\ at[v] = "task"
               /\ serving[v] = task /\ cache[v] = {}
    <3>1. SlaveInv(v) /\ WorkerInv(v)
      BY Typing
    <3>2. toMaster'[v] = <<>> /\ toSlave[v] = <<>> /\ at[v] = "task" /\ serving[v] = task
      <4>1. CASE v = w
        <5>1. /\ 1 = Len(toMaster[w]) /\ toSlave[w] = <<>> /\ at[w] = "task"
              /\ serving[w] = task
          BY <1>1, <2>2, <3>1, <4>1 DEF SlaveInv, Identified
        <5>2. toMaster'[w] = <<>>
          BY <1>1, <2>2, <5>1, Taken
        <5>. QED BY <4>1, <5>1, <5>2
      <4>2. CASE v # w
        <5>1. v \in initialized
          BY <1>4, <2>1, <4>2
        <5>. QED BY <1>1, <2>2, <3>1, <4>2, <5>1 DEF SlaveInv, Recruited
      <4>. QED BY <4>1, <4>2
    <3>. QED BY <1>1, <3>1, <3>2 DEF WorkerInv, UpToDate
  <2>4. UNCHANGED <<at, serving, cache, toSlave, task>>
    BY <1>1 DEF slaveVars
  <2>5. SharesCounted' /\ ItemsLocated'
    BY <1>1, <1>2, <1>3, <1>4, <2>3, <2>4, NothingHandedOut
  <2>6. ASSUME NEW v \in Workers
        PROVE  WorkerInv(v)'
    <3>1. /\ toMaster'[v] = <<>> /\ toSlave'[v] = <<>> /\ at'[v] = "task"
          /\ serving'[v] = task' /\ v \notin assigned'
      BY <1>3, <1>4, <2>3, <2>4
    <3>2. OrdersDated(v)' /\ ReportsDated(v)' /\ UpToDate(v)'
      BY <1>2, <1>7, <2>4, <3>1 DEF OrdersDated, ReportsDated, UpToDate
    <3>3. OneAssignment(v)'
      BY <3>1, QueueEmpty DEF OneAssignment
    <3>. QED BY <3>2, <3>3 DEF WorkerInv
  <2>7. Settled'
    BY <1>7 DEF Settled, Closed
  <2>. QED BY <1>5, <2>5, <2>6, <2>7 DEF AccountsInv
<1>. QED BY <1>1, <1>6, <1>7

-----------------------------------------------------------------------------
(* The master polls                                                        *)

\* While the master polls and has thrown nothing: hypotheses of its steps.
LEMMA PollingFacts ==
  ASSUME Good, Live
  PROVE  /\ AllLocated /\ KeptApart /\ raised = "none" /\ phase \in {"poll", "drain"}
         /\ \E sh \in [Workers -> SUBSET Items] : Shared(sh)
         /\ \A w \in Workers : OneAssignment(w)
BY DEF Good, AccountsInv, Live, ItemsLocated, SharesCounted, WorkerInv

\* What has to be shown of a step of poll_workers(), or of the loop after it.
LEMMA PollingKeeps ==
  ASSUME phase' \in {"poll", "drain"}, \A v \in Workers : WorkerInv(v)', Ledger',
         Live' => /\ AllLocated' /\ KeptApart'
                  /\ \E sh \in [Workers -> SUBSET Items] : Shared(sh)'
  PROVE  AccountsInv'
BY DEF AccountsInv, SharesCounted, ItemsLocated, Settled, Closed

\* The invariant of the workers the step does not concern.
LEMMA OtherWorkers ==
  ASSUME Good, NEW w \in Workers, UNCHANGED <<task, slaveVars>>, Live' => Live,
         phase' = phase \/ (phase = "poll" /\ phase' = "drain"), WorkerInv(w)',
         \A v \in Workers \ {w} : /\ toSlave'[v] = toSlave[v] /\ toMaster'[v] = toMaster[v]
                                  /\ v \in assigned' <=> v \in assigned
  PROVE  \A v \in Workers : WorkerInv(v)'
<1>1. ASSUME NEW v \in Workers \ {w}
      PROVE  WorkerInv(v)'
  <2>1. Idly(v) /\ WorkerInv(v)
    BY Typing DEF Idly, slaveVars
  <2>. QED BY <2>1, OthersKeep
<1>. QED BY <1>1

\* The master's places when only it moves something.
LEMMA SameAtWorkers ==
  ASSUME UNCHANGED <<slaveVars, toSlave, toMaster>>
  PROVE  \A p \in WithWorker : Same(p)
<1>1. UNCHANGED <<at, todo, bad, cache>>
  BY DEF slaveVars
<1>2. ASSUME NEW p \in WithWorker
      PROVE  Same(p)
  BY <1>1, PlaceNames, PlaceNamesNext DEF Same, WithWorker
<1>. QED BY <1>2

\* What has been handed out stays the same when nobody is given anything and
\* no answer is read.
LEMMA SharesKept ==
  ASSUME Good, Live, UNCHANGED <<queue, inFlight, assigned, slaveVars>>,
         \A v \in Workers : \A k \in 1 .. Len(toSlave'[v]) :
           toSlave'[v][k].tag \in Orders =>
             \E j \in 1 .. Len(toSlave[v]) : toSlave'[v][k] = toSlave[v][j],
         \A v \in Workers : \A k \in 1 .. Len(toMaster'[v]) :
           toMaster'[v][k].tag \in Answers =>
             \E j \in 1 .. Len(toMaster[v]) : toMaster'[v][k] = toMaster[v][j]
  PROVE  \E sh \in [Workers -> SUBSET Items] : Shared(sh)'
<1>1. PICK sh \in [Workers -> SUBSET Items] : Shared(sh)
  BY PollingFacts
<1>2. UNCHANGED <<at, todo, good, bad>>
  BY DEF slaveVars
<1>3. ASSUME NEW v \in Workers
      PROVE  HandedOut(v, sh[v])'
  <2>1. HandedOut(v, sh[v])
    BY <1>1 DEF Shared
  <2>2. \A k \in 1 .. Len(toSlave'[v]) :
          toSlave'[v][k].tag \in Orders => toSlave'[v][k].items = sh[v]
    BY <2>1 DEF HandedOut
  <2>3. \A k \in 1 .. Len(toMaster'[v]) :
          toMaster'[v][k].tag \in Answers => toMaster'[v][k].n = Cardinality(sh[v])
    BY <2>1 DEF HandedOut
  <2>. QED BY <1>2, <2>1, <2>2, <2>3 DEF HandedOut
<1>4. Shared(sh)'
  BY <1>1, <1>3 DEF Shared
<1>. QED BY <1>4

\* Nothing but the master's books changes.
LEMMA Bookkeeping ==
  ASSUME Good, Live, phase' = phase \/ (phase = "poll" /\ phase' = "drain"),
         UNCHANGED <<task, slaveVars, toSlave, toMaster, assigned, queue, inFlight>>,
         Ledger', Live' => AllLocated' /\ KeptApart'
  PROVE  AccountsInv'
<1>1. PICK w \in Workers : TRUE
  BY WorkersAssumption
<1>2. WorkerInv(w)'
  <2>1. Idly(w) /\ WorkerInv(w)
    BY Typing DEF Idly, slaveVars
  <2>. QED BY <2>1, OthersKeep
<1>3. \A v \in Workers : WorkerInv(v)'
  BY <1>2, OtherWorkers
<1>4. \E sh \in [Workers -> SUBSET Items] : Shared(sh)'
  BY SharesKept
<1>5. phase' \in {"poll", "drain"}
  BY PollingFacts
<1>. QED BY <1>3, <1>4, <1>5, PollingKeeps

\* Assignments are planned.
LEMMA PlanKeeps ==
  ASSUME Good, Plan
  PROVE  AccountsInv'
<1>1. /\ phase = "poll" /\ raised = "none" /\ AssignWork
      /\ UNCHANGED <<masterVars, slaveVars, toSlave, toMaster>>
  BY DEF Plan, Polling
<1>2. /\ UNCHANGED <<phase, task, assigned, queue, inFlight, wanted, stored, failures, dropped,
                     aggregations, kinds>>
      /\ raised' \in {"none", "unassigned_mismatch", "mixed_strategy"}
      /\ raised' = "mixed_strategy" => kinds = {"cpu", "gpu"}
  BY <1>1 DEF AssignWork, masterVars
<1>3. ProtocolInv /\ AccountsInv /\ Live
  BY <1>1, Typing DEF Live
<1>4. raised' # "unassigned_mismatch"
  <2>1. SchedInv'
    BY <1>3, PlanStep DEF ProtocolInv
  <2>. QED BY <2>1 DEF SchedInv, OwnChecksNeverFire
<1>5. Ledger'
  BY <1>1, <1>2, <1>3, <1>4 DEF AccountsInv, Ledger
<1>6. AllLocated'
  BY <1>1, <1>2, <1>3, PollingFacts, SameAtMaster, SameAtWorkers, Resting
<1>7. KeptApart'
  BY <1>1, <1>2, <1>3, PollingFacts DEF KeptApart
<1>. QED BY <1>1, <1>2, <1>3, <1>5, <1>6, <1>7, Bookkeeping

\* The loop ends when all workers are inactive, and the queue is empty then.
LEMMA EndPollingKeeps ==
  ASSUME Good, EndPolling
  PROVE  AccountsInv'
<1>1. /\ phase = "poll" /\ raised = "none" /\ phase' = "drain" /\ active = 0
      /\ UNCHANGED <<schedVars, task, aggregations, stored, failures, dropped, slaveVars,
                     toSlave, toMaster>>
  BY DEF EndPolling, Polling, AllInactive
<1>2. UNCHANGED <<raised, assigned, queue, inFlight, wanted, kinds>>
  BY <1>1 DEF schedVars
<1>3. ProtocolInv /\ AccountsInv /\ Live
  BY <1>1, Typing DEF Live
<1>4. queue = {}
  <2>1. initialized = Workers /\ active = Cardinality(initialized \ inactive)
    BY <1>1, <1>3 DEF ProtocolInv, ClosingTime, SchedInv, CountersAgree
  <2>2. IsFiniteSet(Workers \ inactive)
    BY FinitePool
  <2>3. Workers \ inactive = {}
    BY <1>1, <2>1, <2>2, FS_EmptySet
  <2>4. PICK w \in Workers : TRUE
    BY WorkersAssumption
  <2>5. at[w] = "wait"
    <3>1. SlaveInv(w)
      BY Typing
    <3>. QED BY <1>1, <2>3, <3>1 DEF SlaveInv, LastWord, LeavesLast
  <2>6. closing
    BY <1>1, <2>5, ReadAll
  <2>. QED BY <1>1, <1>3, <2>6 DEF ProtocolInv, ClosingTime
<1>5. Ledger'
  BY <1>1, <1>2, <1>3, <1>4 DEF AccountsInv, Ledger
<1>6. AllLocated'
  BY <1>1, <1>2, <1>3, PollingFacts, SameAtMaster, SameAtWorkers, Resting
<1>7. KeptApart'
  BY <1>1, <1>2, <1>3, PollingFacts DEF KeptApart
<1>. QED BY <1>1, <1>2, <1>3, <1>5, <1>6, <1>7, Bookkeeping

\* A container is aggregated, or cannot be.
LEMMA AggregateKeeps ==
  ASSUME Good, Aggregate
  PROVE  AccountsInv'
<1> DEFINE s == Head(aggregations)
<1>1. /\ phase \in {"poll", "drain"} /\ (phase = "poll" => raised = "none")
      /\ aggregations # <<>> /\ aggregations' = Tail(aggregations)
      /\ \/ stored' = stored \cup s /\ UNCHANGED dropped
         \/ dropped' = dropped \cup s /\ UNCHANGED stored
      /\ UNCHANGED <<schedVars, phase, task, failures, slaveVars, toSlave, toMaster>>
  BY DEF Aggregate, Polling, Rest
<1>2. UNCHANGED <<raised, assigned, queue, inFlight, wanted, kinds>>
  BY <1>1 DEF schedVars
<1>3. ProtocolInv /\ AccountsInv /\ aggregations \in Seq(SUBSET Items)
  BY Typing
<1>4. Live
  BY <1>1, <1>3 DEF Live, AccountsInv, Ledger
<1>5. Ledger'
  BY <1>1, <1>2, <1>3 DEF AccountsInv, Ledger
<1>6. AllLocated /\ KeptApart
  BY <1>4, PollingFacts
<1>7. \A j, k \in 1 .. Len(aggregations) : j # k => aggregations[j] \cap aggregations[k] = {}
  BY <1>6 DEF KeptApart
<1>8. /\ s \in SUBSET Items
      /\ \A i : Aggregating(i) <=> Aggregating(i)' \/ i \in s
      /\ \A j, k \in 1 .. Len(aggregations') : j # k => aggregations'[j] \cap aggregations'[k] = {}
      /\ \A i \in s : ~Aggregating(i)'
  BY <1>1, <1>3, <1>7, ContainerTaken
<1> HIDE DEF s
<1>9. KeptApart'
  BY <1>1, <1>6, <1>8 DEF KeptApart
<1>10. PICK w \in Workers : TRUE
  BY WorkersAssumption
<1>11. \A i \in s : \E p \in {"aggregations"} : Here(i, p, w)
  BY <1>8 DEF Here
<1>12. Leaving("aggregations", s, w)
  BY <1>8 DEF Leaving, Here, WithWorker
<1>13. \A p \in WithWorker : Same(p)
  BY <1>1, SameAtWorkers
<1>14. Same("elsewhere") /\ Same("queue") /\ Same("failures")
  BY <1>1, <1>2 DEF Same, Here
<1>15. ASSUME NEW to \in {"stored", "dropped"}, Reaching(to, s, w),
              \A p \in {"stored", "dropped"} \ {to} : Same(p)
       PROVE  AllLocated'
  <2>1. \A p \in Places \ ({"aggregations"} \cup {to}) : Same(p)
    BY <1>13, <1>14, <1>15 DEF Places
  <2>2. {"aggregations"} \in SUBSET Places /\ to \in Places \ {"aggregations"}
    BY DEF Places
  <2>3. Transfer(s, {"aggregations"}, to, w)
    BY <1>8, <1>11, <1>12, <1>15, <2>1, <2>2 DEF Transfer
  <2>. QED BY <1>6, <2>3, Moving
<1>16. AllLocated'
  <2>1. CASE stored' = stored \cup s /\ UNCHANGED dropped
    <3>1. Reaching("stored", s, w) /\ Same("dropped")
      BY <2>1 DEF Reaching, Same, Here, WithWorker
    <3>. QED BY <1>15, <3>1
  <2>2. CASE dropped' = dropped \cup s /\ UNCHANGED stored
    <3>1. Reaching("dropped", s, w) /\ Same("stored")
      BY <2>2 DEF Reaching, Same, Here, WithWorker
    <3>. QED BY <1>15, <3>1
  <2>. QED BY <1>1, <2>1, <2>2
<1>. QED BY <1>1, <1>2, <1>4, <1>5, <1>9, <1>16, Bookkeeping

-----------------------------------------------------------------------------
(* The master gives orders                                                 *)

\* An order put into worker w's mailbox is dated as it should be.
LEMMA OrderGiven ==
  ASSUME Good, NEW w \in Workers, NEW m \in Message, m.task = task, UNCHANGED <<phase, task>>,
         phase \in {"poll", "drain"}, toSlave'[w] = Append(toSlave[w], m)
  PROVE  OrdersDated(w)' /\ toSlave[w] \in Seq(Message)
<1>1. toSlave[w] \in Seq(Message) /\ WorkerInv(w) /\ task \in Nat
  BY Typing
<1>2. \A k \in 1 .. Len(toSlave'[w]) :
        \/ k \in 1 .. Len(toSlave[w]) /\ toSlave'[w][k] = toSlave[w][k]
        \/ toSlave'[w][k] = m
  BY <1>1, EachPut
<1>. QED BY <1>1, <1>2 DEF OrdersDated, WorkerInv

\* Everybody is told to close down.
LEMMA SendCloseDownKeeps ==
  ASSUME Good, SendCloseDown
  PROVE  AccountsInv'
<1> DEFINE e == Order("END_OF_WORK")
<1>1. /\ phase = "poll" /\ raised = "none" /\ Broadcast(<<e>>)
      /\ UNCHANGED <<schedVars, phase, task, aggregations, stored, failures, dropped,
                     slaveVars, toMaster>>
  BY DEF SendCloseDown, Polling
<1>2. /\ UNCHANGED <<raised, assigned, queue, inFlight, wanted, kinds>>
      /\ UNCHANGED <<at, serving, todo, bad, cache>>
  BY <1>1 DEF schedVars, slaveVars
<1>3. ProtocolInv /\ AccountsInv /\ Live
  BY <1>1, Typing DEF Live
<1>4. e \in Message /\ e.tag \notin Orders /\ e.task = task
  BY SlaveFunctions, NotAnOrder
<1> HIDE DEF e
<1>5. \A v \in Workers : toSlave'[v] = Append(toSlave[v], e) /\ toSlave[v] \in Seq(Message)
  BY <1>1, <1>4, Typing, Put DEF Broadcast
<1>6. Ledger'
  BY <1>1, <1>2, <1>3, LedgerKept DEF AccountsInv
<1>7. ASSUME NEW v \in Workers
      PROVE  /\ HasAny(toSlave'[v], Orders) <=> HasAny(toSlave[v], Orders)
             /\ Single(toSlave[v], Orders) => Single(toSlave'[v], Orders)
             /\ \A i : Holds(toSlave'[v], Orders, i) <=> Holds(toSlave[v], Orders, i)
  <2>1. toSlave'[v] = Append(toSlave[v], e) /\ toSlave[v] \in Seq(Message)
    BY <1>5
  <2>2. HasAny(toSlave'[v], Orders) <=> HasAny(toSlave[v], Orders)
    BY <1>4, <2>1, HasAnyPut
  <2>3. Single(toSlave[v], Orders) => Single(toSlave'[v], Orders)
    BY <1>4, <2>1, SinglePut
  <2>4. \A i : Holds(toSlave'[v], Orders, i) <=> Holds(toSlave[v], Orders, i)
    BY <1>4, <2>1, HoldsPut
  <2>. QED BY <2>2, <2>3, <2>4
<1>8. ASSUME NEW v \in Workers
      PROVE  WorkerInv(v)'
  <2>1. WorkerInv(v)
    BY Typing
  <2>2. OrdersDated(v)'
    BY <1>1, <1>4, <1>5, OrderGiven
  <2>3. ReportsDated(v)' /\ UpToDate(v)'
    BY <1>1, <1>2, <2>1 DEF WorkerInv, ReportsDated, UpToDate
  <2>4. OneAssignment(v)'
    BY <1>1, <1>2, <1>7, <2>1 DEF WorkerInv, OneAssignment, Live
  <2>. QED BY <2>2, <2>3, <2>4 DEF WorkerInv
<1>9. \E sh \in [Workers -> SUBSET Items] : Shared(sh)'
  <2>1. ASSUME NEW v \in Workers, NEW k \in 1 .. Len(toSlave'[v]),
               toSlave'[v][k].tag \in Orders
        PROVE  \E j \in 1 .. Len(toSlave[v]) : toSlave'[v][k] = toSlave[v][j]
    BY <1>4, <1>5, <2>1, EachPut
  <2>2. UNCHANGED <<queue, inFlight, assigned, slaveVars>> /\ UNCHANGED toMaster
    BY <1>1, <1>2
  <2>. QED BY <1>3, <2>1, <2>2, SharesKept
<1>10. AllLocated'
  <2>1. Same("order")
    BY <1>7, PlaceNames, PlaceNamesNext DEF Same
  <2>2. Same("desk") /\ Same("cache") /\ Same("report")
    BY <1>1, <1>2, PlaceNames, PlaceNamesNext DEF Same
  <2>3. \A p \in Places : Same(p)
    BY <1>1, <1>2, <2>1, <2>2, SameAtMaster DEF WithWorker
  <2>. QED BY <1>3, <2>3, PollingFacts, Resting
<1>11. KeptApart'
  BY <1>1, <1>3, PollingFacts DEF KeptApart
<1>. QED BY <1>1, <1>6, <1>8, <1>9, <1>10, <1>11, PollingKeeps

\* Sets of items that have none in common are counted one after the other.
LEMMA CountedApart ==
  ASSUME NEW S \in SUBSET Items, NEW T \in SUBSET Items, S \cap T = {}
  PROVE  Cardinality(S \cup T) = Cardinality(S) + Cardinality(T)
<1>1. /\ IsFiniteSet(S) /\ IsFiniteSet(T)
      /\ Cardinality(S) \in Nat /\ Cardinality(T) \in Nat
  BY FiniteItems
<1>2. Cardinality(S \cup T) = Cardinality(S) + Cardinality(T) - Cardinality(S \cap T)
  BY <1>1, FS_Union
<1>3. Cardinality(S \cap T) = 0
  BY FS_EmptySet
<1>. QED BY <1>1, <1>2, <1>3

\* The items handed out, when worker w's share is replaced: what the number
\* in flight becomes.
LEMMA ShareGiven ==
  ASSUME NEW sh \in [Workers -> SUBSET Items], NEW w \in Workers, NEW S \in SUBSET Items,
         \A v \in Workers \ {w} : sh[v] \cap S = {} /\ sh[v] \cap sh[w] = {}
  PROVE  LET new == [sh EXCEPT ![w] = S]
         IN  /\ new \in [Workers -> SUBSET Items] /\ new[w] = S
             /\ \A v \in Workers \ {w} : new[v] = sh[v]
             /\ Cardinality(UNION {new[v] : v \in Workers}) + Cardinality(sh[w])
                  = Cardinality(UNION {sh[v] : v \in Workers}) + Cardinality(S)
             /\ Cardinality(UNION {sh[v] : v \in Workers}) \in Nat
             /\ Cardinality(UNION {new[v] : v \in Workers}) \in Nat
             /\ Cardinality(S) \in Nat /\ Cardinality(sh[w]) \in Nat
<1> DEFINE new == [sh EXCEPT ![w] = S]
           Others == UNION {sh[v] : v \in Workers \ {w}}
<1>1. /\ new \in [Workers -> SUBSET Items] /\ new[w] = S
      /\ \A v \in Workers \ {w} : new[v] = sh[v]
  OBVIOUS
<1>2. UNION {sh[v] : v \in Workers} = Others \cup sh[w]
  <2>1. Workers = (Workers \ {w}) \cup {w}
    OBVIOUS
  <2>. QED BY <2>1
<1> HIDE DEF new
<1>3. UNION {new[v] : v \in Workers} = Others \cup S
  BY <1>1
<1>4. Others \cap S = {} /\ Others \cap sh[w] = {} /\ Others \subseteq Items
  OBVIOUS
<1> HIDE DEF Others
<1>5. /\ Cardinality(Others) \in Nat /\ Cardinality(S) \in Nat /\ Cardinality(sh[w]) \in Nat
  BY <1>4, FiniteItems
<1>6. Cardinality(Others \cup S) = Cardinality(Others) + Cardinality(S)
  BY <1>4, CountedApart
<1>7. Cardinality(Others \cup sh[w]) = Cardinality(Others) + Cardinality(sh[w])
  BY <1>4, CountedApart
<1>8. /\ Cardinality(UNION {new[v] : v \in Workers}) = Cardinality(Others) + Cardinality(S)
      /\ Cardinality(UNION {sh[v] : v \in Workers}) = Cardinality(Others) + Cardinality(sh[w])
  BY <1>2, <1>3, <1>6, <1>7
<1>9. /\ Cardinality(UNION {new[v] : v \in Workers}) + Cardinality(sh[w])
           = Cardinality(UNION {sh[v] : v \in Workers}) + Cardinality(S)
      /\ Cardinality(UNION {sh[v] : v \in Workers}) \in Nat
      /\ Cardinality(UNION {new[v] : v \in Workers}) \in Nat
  BY <1>5, <1>8
<1>. QED BY <1>1, <1>5, <1>9 DEF new

\* An assignment is pushed out.
LEMMA PushKeeps ==
  ASSUME Good, NEW w \in Workers, PushAssignment(w)
  PROVE  AccountsInv'
<1> DEFINE m == Msg("NEW_WORK_ASSIGNMENT", plan[w], 0)
<1>1. /\ phase = "poll" /\ raised = "none" /\ plan[w] # {} /\ MarkAssigned(w)
      /\ toSlave' = [toSlave EXCEPT ![w] = Append(@, m)]
      /\ UNCHANGED <<masterVars, slaveVars, toMaster>>
  BY DEF PushAssignment, Polling, MarkAssigned
<1>2. /\ UNCHANGED <<phase, task, wanted, stored, failures, dropped, aggregations, kinds>>
      /\ UNCHANGED <<at, serving, todo, good, bad, cache>>
  BY <1>1 DEF masterVars, slaveVars, MarkAssigned
<1>3. /\ ProtocolInv /\ AccountsInv /\ Live /\ plan[w] \in SUBSET Items
      /\ queue \in SUBSET Items /\ WorkerInv(w) /\ toSlave[w] \in Seq(Message)
  BY <1>1, Typing DEF Live
<1>4. plan[w] \subseteq queue /\ w \notin assigned
  BY <1>1, <1>3, Types DEF SchedInv, PlanSound, PromisedToIdle
<1>5. Refusal(w) = "none"
  <2>1. SchedInv'
    BY <1>3, PushStep DEF ProtocolInv
  <2>2. raised' \notin {"no_unassigned", "already_assigned"}
    BY <2>1 DEF SchedInv, OwnChecksNeverFire
  <2>3. Refusal(w) # "none" => raised' = Refusal(w)
    BY <1>1 DEF MarkAssigned
  <2>. QED BY <2>2, <2>3 DEF Refusal
<1>6. /\ assigned' = assigned \cup {w} /\ queue' = queue \ plan[w] /\ raised' = "none"
      /\ inFlight' = inFlight + Cardinality(plan[w])
  <2>1. plan[w] \cap queue = plan[w]
    BY <1>4
  <2>. QED BY <1>1, <1>4, <1>5, <2>1 DEF MarkAssigned, TakeFromQueue
<1>7. /\ m \in Message /\ m.tag = "NEW_WORK_ASSIGNMENT" /\ m.task = task
      /\ m.items = plan[w] /\ m.tag \in Orders
  <2>1. "NEW_WORK_ASSIGNMENT" \in Tags /\ 0 \in Nat
    BY DEF Tags
  <2>2. m \in Message
    BY <1>3, <2>1, SlaveFunctions, MsgTyped
  <2>. QED BY <2>2 DEF Msg, Orders
<1> HIDE DEF m
<1>8. /\ toSlave'[w] = Append(toSlave[w], m)
      /\ \A v \in Workers \ {w} : toSlave'[v] = toSlave[v]
  BY <1>1, SlaveFunctions
<1>9. ~HasAny(toSlave[w], Orders) /\ at[w] # "work" /\ ~HasAny(toMaster[w], Answers)
  BY <1>3, <1>4 DEF WorkerInv, OneAssignment
<1>10. /\ HasAny(toSlave'[w], Orders) /\ Single(toSlave'[w], Orders)
       /\ \A i : Holds(toSlave'[w], Orders, i) <=> Holds(toSlave[w], Orders, i) \/ i \in plan[w]
  <2>1. Single(toSlave[w], Orders)
    BY <1>9 DEF HasAny, Single
  <2>. QED BY <1>3, <1>7, <1>8, <1>9, <2>1, HasAnyPut, SinglePut, HoldsPut
<1>11. WorkerInv(w)'
  <2>1. OrdersDated(w)'
    BY <1>1, <1>2, <1>7, <1>8, OrderGiven
  <2>2. ReportsDated(w)' /\ UpToDate(w)'
    BY <1>1, <1>2, <1>3 DEF WorkerInv, ReportsDated, UpToDate
  <2>3. OneAssignment(w)'
    <3>1. Single(toMaster[w], Answers)
      BY <1>3 DEF WorkerInv, OneAssignment
    <3>. QED BY <1>1, <1>2, <1>6, <1>9, <1>10, <3>1 DEF OneAssignment
  <2>. QED BY <2>1, <2>2, <2>3 DEF WorkerInv
<1>12. \A v \in Workers : WorkerInv(v)'
  <2>1. \A v \in Workers \ {w} : v \in assigned' <=> v \in assigned
    BY <1>6
  <2>. QED BY <1>1, <1>2, <1>3, <1>8, <1>11, <2>1, OtherWorkers
<1>13. Ledger'
  <2>1. kinds \subseteq Kinds
    BY <1>3 DEF AccountsInv, Ledger
  <2>. QED BY <1>1, <1>2, <1>6, <2>1 DEF Ledger
<1>14. \E sh \in [Workers -> SUBSET Items] : Shared(sh)'
  <2>1. PICK sh \in [Workers -> SUBSET Items] : Shared(sh)
    BY <1>3, PollingFacts
  <2>2. /\ \A u, v \in Workers : u # v => sh[u] \cap sh[v] = {}
        /\ inFlight = Cardinality(UNION {sh[v] : v \in Workers})
        /\ \A v \in Workers : sh[v] \cap queue = {} /\ HandedOut(v, sh[v])
    BY <2>1 DEF Shared
  <2>3. sh[w] = {}
    BY <1>4, <2>2 DEF HandedOut
  <2>4. PICK S \in SUBSET Items : S = plan[w]
    BY <1>3
  <2>5. \A v \in Workers \ {w} : sh[v] \cap S = {} /\ sh[v] \cap sh[w] = {}
    BY <1>4, <2>2, <2>3, <2>4
  <2> DEFINE new == [sh EXCEPT ![w] = S]
  <2>6. /\ new \in [Workers -> SUBSET Items] /\ new[w] = S
        /\ \A v \in Workers \ {w} : new[v] = sh[v]
        /\ Cardinality(UNION {new[v] : v \in Workers}) + Cardinality(sh[w])
             = Cardinality(UNION {sh[v] : v \in Workers}) + Cardinality(S)
        /\ Cardinality(UNION {sh[v] : v \in Workers}) \in Nat
        /\ Cardinality(UNION {new[v] : v \in Workers}) \in Nat
        /\ Cardinality(S) \in Nat
    BY <2>5, ShareGiven
  <2> HIDE DEF new
  <2>7. inFlight' = Cardinality(UNION {new[v] : v \in Workers})
    <3>1. Cardinality(sh[w]) = 0
      BY <2>3, FS_EmptySet
    <3>. QED BY <1>6, <2>2, <2>4, <2>6, <3>1
  <2>8. \A u, v \in Workers : u # v => new[u] \cap new[v] = {}
    BY <2>2, <2>5, <2>6
  <2>9. ASSUME NEW v \in Workers
        PROVE  new[v] \cap queue' = {} /\ HandedOut(v, new[v])'
    <3>1. CASE v = w
      <4>1. \A k \in 1 .. Len(toSlave'[w]) :
              toSlave'[w][k].tag \in Orders => toSlave'[w][k] = m
        BY <1>3, <1>7, <1>8, <1>9, EachPut DEF HasAny
      <4>2. \A k \in 1 .. Len(toMaster[w]) : toMaster[w][k].tag \notin Answers
        BY <1>9 DEF HasAny
      <4>3. HandedOut(w, S)'
        BY <1>1, <1>2, <1>6, <1>7, <1>9, <2>4, <4>1, <4>2 DEF HandedOut
      <4>. QED BY <1>6, <2>4, <2>6, <3>1, <4>3
    <3>2. CASE v # w
      <4>1. Idly(v) /\ SameDesk(v)
        BY <1>1, <1>2, <1>6, <1>8, <3>2 DEF Idly, SameDesk
      <4>2. HandedOut(v, sh[v])'
        BY <2>2, <4>1, ShareKept
      <4>. QED BY <1>6, <2>2, <2>6, <3>2, <4>2
    <3>. QED BY <3>1, <3>2
  <2>10. Shared(new)'
    BY <2>7, <2>8, <2>9 DEF Shared
  <2>. QED BY <2>6, <2>10
<1>15. AllLocated'
  <2>1. Leaving("queue", plan[w], w)
    BY <1>6 DEF Leaving, Here, WithWorker
  <2>2. Reaching("order", plan[w], w)
    BY <1>8, <1>10, PlaceNames, PlaceNamesNext DEF Reaching, WithWorker
  <2>3. Same("desk") /\ Same("cache") /\ Same("report")
    BY <1>1, <1>2, PlaceNames, PlaceNamesNext DEF Same
  <2>4. /\ Same("elsewhere") /\ Same("stored") /\ Same("failures") /\ Same("dropped")
        /\ Same("aggregations")
    BY <1>2 DEF Same, Here, Aggregating
  <2>5. \A p \in Places \ ({"queue"} \cup {"order"}) : Same(p)
    BY <2>3, <2>4 DEF Places, WithWorker
  <2>6. \A i \in plan[w] : \E p \in {"queue"} : Here(i, p, w)
    BY <1>4 DEF Here
  <2>7. {"queue"} \in SUBSET Places /\ "order" \in Places \ {"queue"}
    BY DEF Places, WithWorker
  <2>8. PICK S \in SUBSET Items : S = plan[w]
    BY <1>3
  <2>9. Transfer(S, {"queue"}, "order", w)
    BY <2>1, <2>2, <2>5, <2>6, <2>7, <2>8 DEF Transfer
  <2>. QED BY <1>3, <2>9, PollingFacts, Moving
<1>16. KeptApart'
  BY <1>1, <1>2, <1>3, PollingFacts DEF KeptApart
<1>. QED BY <1>1, <1>2, <1>12, <1>13, <1>14, <1>15, <1>16, PollingKeeps

-----------------------------------------------------------------------------
(* The master hears its slaves                                             *)

\* Reading a report leaves the rest of the mailboxes as they were.
LEMMA RestUnread ==
  ASSUME NEW w \in Workers, toMaster[w] \in Seq(Message), toMaster[w] # <<>>,
         toMaster'[w] = Tail(toMaster[w]), \A v \in Workers \ {w} : toMaster'[v] = toMaster[v]
  PROVE  \A v \in Workers : \A k \in 1 .. Len(toMaster'[v]) :
           \E j \in 1 .. Len(toMaster[v]) : toMaster'[v][k] = toMaster[v][j]
<1>1. ASSUME NEW v \in Workers, NEW k \in 1 .. Len(toMaster'[v])
      PROVE  \E j \in 1 .. Len(toMaster[v]) : toMaster'[v][k] = toMaster[v][j]
  <2>1. CASE v = w
    <3>1. k + 1 \in 1 .. Len(toMaster[w]) /\ toMaster'[w][k] = toMaster[w][k + 1]
      BY <2>1, EachTaken
    <3>. QED BY <2>1, <3>1
  <2>2. CASE v # w
    BY <2>2
  <2>. QED BY <2>1, <2>2
<1>. QED BY <1>1

\* The items of a report go from the mailbox to one of the master's places.
LEMMA Delivered ==
  ASSUME AllLocated, NEW w \in Workers, toMaster[w] \in Seq(Message), toMaster[w] # <<>>,
         Apart(toMaster[w], Carriers), Head(toMaster[w]).tag \in Carriers,
         toMaster'[w] = Tail(toMaster[w]), \A v \in Workers \ {w} : toMaster'[v] = toMaster[v],
         UNCHANGED <<slaveVars, toSlave>>,
         NEW to \in Places \ WithWorker, Reaching(to, Head(toMaster[w]).items, w),
         \A p \in Places \ (WithWorker \cup {to}) : Same(p)
  PROVE  AllLocated'
<1>1. PICK M \in SUBSET Items : M = Head(toMaster[w]).items
  <2>1. Head(toMaster[w]) \in Message
    BY Taken
  <2>. QED BY <2>1, Fields
<1>2. \A i : /\ Holds(toMaster[w], Carriers, i) <=> Holds(toMaster'[w], Carriers, i) \/ i \in M
             /\ i \in M => ~Holds(toMaster'[w], Carriers, i)
  BY <1>1, HoldsTaken, ApartTaken
<1>3. UNCHANGED <<at, todo, bad, cache>>
  BY DEF slaveVars
<1>4. Same("order") /\ Same("desk") /\ Same("cache")
  BY <1>3, PlaceNames, PlaceNamesNext DEF Same
<1>5. Leaving("report", M, w)
  BY <1>2, PlaceNames, PlaceNamesNext DEF Leaving, WithWorker
<1>6. \A p \in Places \ ({"report"} \cup {to}) : Same(p)
  BY <1>4 DEF WithWorker
<1>7. \A i \in M : \E p \in {"report"} : Here(i, p, w)
  BY <1>2, PlaceNames
<1>8. {"report"} \in SUBSET Places /\ to \in Places \ {"report"}
  BY DEF Places, WithWorker
<1>9. Transfer(M, {"report"}, to, w)
  BY <1>1, <1>5, <1>6, <1>7, <1>8 DEF Transfer
<1>. QED BY <1>9, Moving

\* No two reports left hold the same item.
LEMMA StillApart ==
  ASSUME NEW w \in Workers, toMaster[w] \in Seq(Message), toMaster[w] # <<>>,
         \A v \in Workers : Apart(toMaster[v], Carriers),
         toMaster'[w] = Tail(toMaster[w]), \A v \in Workers \ {w} : toMaster'[v] = toMaster[v]
  PROVE  \A v \in Workers : Apart(toMaster'[v], Carriers)
<1>1. Apart(toMaster'[w], Carriers)
  BY ApartTaken
<1>. QED BY <1>1

\* A container is announced.
LEMMA ReceiveDataKeeps ==
  ASSUME Good, NEW w \in Workers, ReceiveData(w)
  PROVE  AccountsInv'
<1> DEFINE m == Head(toMaster[w])
<1>1. /\ phase = "poll" /\ raised = "none" /\ toMaster[w] # <<>> /\ m.tag = "DATA_READY"
      /\ aggregations' = Append(aggregations, m.items) /\ TakeReport(w)
      /\ UNCHANGED <<schedVars, phase, task, stored, failures, dropped, slaveVars, toSlave>>
  BY DEF ReceiveData, Polling, FromSlave
<1>2. /\ UNCHANGED <<raised, assigned, queue, inFlight, wanted, kinds>>
      /\ UNCHANGED <<at, serving, cache>>
  BY <1>1 DEF schedVars, slaveVars
<1>3. /\ ProtocolInv /\ AccountsInv /\ Live /\ WorkerInv(w)
      /\ aggregations \in Seq(SUBSET Items)
  BY <1>1, Typing DEF Live
<1>4. /\ m \in Message /\ toMaster'[w] = Tail(toMaster[w]) /\ toMaster[w] \in Seq(Message)
      /\ \A v \in Workers \ {w} : toMaster'[v] = toMaster[v]
      /\ ReportsDated(w)'
  BY <1>1, ReportRead
<1>5. m.tag \in Carriers /\ m.tag \notin Answers /\ m.items \in SUBSET Items
  BY <1>1, <1>4, Fields DEF Carriers, Answers
<1>6. Ledger'
  BY <1>1, <1>2, <1>3 DEF AccountsInv, Ledger
<1>7. /\ HasAny(toMaster'[w], Answers) <=> HasAny(toMaster[w], Answers)
      /\ Single(toMaster[w], Answers) => Single(toMaster'[w], Answers)
  BY <1>1, <1>4, <1>5, HasAnyTaken, SingleTaken
<1>8. WorkerInv(w)'
  <2>1. OrdersDated(w)' /\ UpToDate(w)'
    BY <1>1, <1>2, <1>3 DEF WorkerInv, OrdersDated, UpToDate
  <2>2. OneAssignment(w)'
    BY <1>1, <1>2, <1>3, <1>7 DEF WorkerInv, OneAssignment, Live
  <2>. QED BY <1>4, <2>1, <2>2 DEF WorkerInv
<1>9. \A v \in Workers : WorkerInv(v)'
  <2>1. Live' => Live
    BY <1>3
  <2>. QED BY <1>1, <1>2, <1>4, <1>8, <2>1, OtherWorkers
<1>10. \E sh \in [Workers -> SUBSET Items] : Shared(sh)'
  <2>1. \A v \in Workers : \A k \in 1 .. Len(toMaster'[v]) :
          toMaster'[v][k].tag \in Answers =>
            \E j \in 1 .. Len(toMaster[v]) : toMaster'[v][k] = toMaster[v][j]
    BY <1>1, <1>4, RestUnread
  <2>2. \A v \in Workers : \A k \in 1 .. Len(toSlave'[v]) :
          toSlave'[v][k].tag \in Orders =>
            \E j \in 1 .. Len(toSlave[v]) : toSlave'[v][k] = toSlave[v][j]
    BY <1>1
  <2>. QED BY <1>1, <1>2, <1>3, <2>1, <2>2, SharesKept
<1>11. AllLocated /\ KeptApart /\ Apart(toMaster[w], Carriers)
  BY <1>3, PollingFacts DEF KeptApart
<1>12. PICK s \in SUBSET Items : s = m.items
  BY <1>5
<1>13. \A i \in s : ~Aggregating(i)
  <2>1. ASSUME NEW i \in s, Aggregating(i)
        PROVE  FALSE
    <3>1. Here(i, "report", w)
      BY <1>1, <1>4, <1>5, <1>12, HoldsTaken, PlaceNames
    <3>2. Here(i, "aggregations", w)
      BY <2>1 DEF Here
    <3>3. "report" \in Places /\ "aggregations" \in Places
      BY DEF Places, WithWorker
    <3>. QED BY <1>11, <3>1, <3>2, <3>3, OnePlace
  <2>. QED BY <2>1
<1>14. /\ \A i : Aggregating(i)' <=> Aggregating(i) \/ i \in s
       /\ \A j, k \in 1 .. Len(aggregations') : j # k => aggregations'[j] \cap aggregations'[k] = {}
  <2>1. \A j, k \in 1 .. Len(aggregations) : j # k => aggregations[j] \cap aggregations[k] = {}
    BY <1>11 DEF KeptApart
  <2>. QED BY <1>1, <1>3, <1>12, <1>13, <2>1, ContainerPut
<1>15. AllLocated'
  <2>1. Reaching("aggregations", s, w)
    BY <1>14 DEF Reaching, Here, WithWorker
  <2>2. /\ Same("elsewhere") /\ Same("queue") /\ Same("stored") /\ Same("failures")
        /\ Same("dropped")
    BY <1>1, <1>2 DEF Same, Here
  <2>3. \A p \in Places \ (WithWorker \cup {"aggregations"}) : Same(p)
    BY <2>2 DEF Places
  <2>4. "aggregations" \in Places \ WithWorker
    BY PlaceNames
  <2>. QED BY <1>1, <1>4, <1>5, <1>11, <1>12, <2>1, <2>3, <2>4, Delivered
<1>16. KeptApart'
  <2>1. \A v \in Workers : Apart(toMaster[v], Carriers)
    BY <1>11 DEF KeptApart
  <2>2. \A v \in Workers : Apart(toMaster'[v], Carriers)
    BY <1>1, <1>4, <2>1, StillApart
  <2>. QED BY <1>14, <2>2 DEF KeptApart
<1>. QED BY <1>1, <1>6, <1>9, <1>10, <1>15, <1>16, PollingKeeps

\* An answer is read: the worker's share is no longer in flight.
LEMMA ReceiveFinishedKeeps ==
  ASSUME Good, NEW w \in Workers, ReceiveFinished(w)
  PROVE  AccountsInv' /\ raised' = "none"
<1> DEFINE m == Head(toMaster[w])
<1>1. /\ phase = "poll" /\ raised = "none" /\ toMaster[w] # <<>> /\ m.tag \in {"FINISHED", "FAIL"}
      /\ MarkUnassigned(w, m.n) /\ failures' = failures \cup m.items /\ TakeReport(w)
      /\ UNCHANGED <<phase, task, aggregations, stored, dropped, slaveVars, toSlave>>
  BY DEF ReceiveFinished, Polling, FromSlave
<1>2. /\ UNCHANGED <<queue, wanted, kinds>>
      /\ UNCHANGED <<at, serving, todo, good, bad, cache>>
  BY <1>1 DEF slaveVars, MarkUnassigned
<1>3. ProtocolInv /\ AccountsInv /\ Live /\ WorkerInv(w) /\ inFlight \in Nat
  BY <1>1, Typing DEF Live
<1>4. /\ m \in Message /\ m = toMaster[w][1] /\ 1 \in 1 .. Len(toMaster[w])
      /\ toMaster'[w] = Tail(toMaster[w]) /\ toMaster[w] \in Seq(Message)
      /\ \A v \in Workers \ {w} : toMaster'[v] = toMaster[v]
      /\ ReportsDated(w)'
  BY <1>1, ReportRead
<1>5. m.tag \in Carriers /\ m.tag \in Answers /\ m.items \in SUBSET Items /\ m.n \in Nat
  BY <1>1, <1>4, Fields DEF Carriers, Answers
<1>6. /\ HasAny(toMaster[w], Answers) /\ ~HasAny(toMaster'[w], Answers)
      /\ w \in assigned /\ at[w] # "work" /\ ~HasAny(toSlave[w], Orders)
      /\ Single(toSlave[w], Orders)
  <2>1. HasAny(toMaster[w], Answers)
    BY <1>4, <1>5 DEF HasAny
  <2>2. OneAssignment(w)
    BY <1>3 DEF WorkerInv
  <2>3. Single(toMaster[w], Answers)
    BY <1>3, <2>2 DEF OneAssignment
  <2>4. ~HasAny(toMaster'[w], Answers)
    BY <1>1, <1>4, <1>5, <2>3, SingleTaken
  <2>. QED BY <1>3, <2>1, <2>2, <2>4 DEF OneAssignment
<1>7. PICK sh \in [Workers -> SUBSET Items] : Shared(sh)
  BY <1>3, PollingFacts
<1>8. /\ \A u, v \in Workers : u # v => sh[u] \cap sh[v] = {}
      /\ inFlight = Cardinality(UNION {sh[v] : v \in Workers})
      /\ \A v \in Workers : sh[v] \cap queue = {} /\ HandedOut(v, sh[v])
  BY <1>7 DEF Shared
<1>9. m.n = Cardinality(sh[w])
  <2>1. HandedOut(w, sh[w])
    BY <1>8
  <2>2. toMaster[w][1].tag \in Answers => toMaster[w][1].n = Cardinality(sh[w])
    BY <1>4, <2>1 DEF HandedOut
  <2>. QED BY <1>4, <1>5, <2>2
<1>22. PICK S \in SUBSET Items : S = {}
  OBVIOUS
<1> DEFINE new == [sh EXCEPT ![w] = S]
<1>10. /\ new \in [Workers -> SUBSET Items] /\ new[w] = S
       /\ \A v \in Workers \ {w} : new[v] = sh[v]
       /\ Cardinality(UNION {new[v] : v \in Workers}) + Cardinality(sh[w])
            = Cardinality(UNION {sh[v] : v \in Workers}) + Cardinality(S)
       /\ Cardinality(UNION {new[v] : v \in Workers}) \in Nat
       /\ Cardinality(sh[w]) \in Nat
  <2>1. \A v \in Workers \ {w} : sh[v] \cap S = {} /\ sh[v] \cap sh[w] = {}
    BY <1>22, <1>8
  <2>. QED BY <2>1, ShareGiven
<1> HIDE DEF new, m
<1>11. Cardinality(UNION {new[v] : v \in Workers}) + m.n = inFlight
  <2>1. Cardinality(S) = 0
    BY <1>22, FS_EmptySet
  <2>. QED BY <1>3, <1>8, <1>9, <1>10, <2>1
<1>12. inFlight >= m.n /\ inFlight - m.n = Cardinality(UNION {new[v] : v \in Workers})
  <2>1. Cardinality(UNION {new[v] : v \in Workers}) \in Nat
    BY <1>10
  <2>. QED BY <1>3, <1>5, <1>11, <2>1
<1>13. /\ raised' = "none" /\ assigned' = assigned \ {w}
       /\ inFlight' = Cardinality(UNION {new[v] : v \in Workers})
  BY <1>1, <1>6, <1>12 DEF MarkUnassigned, Landed
<1>14. Ledger'
  BY <1>1, <1>2, <1>3, <1>13 DEF AccountsInv, Ledger
<1>15. WorkerInv(w)'
  <2>1. OrdersDated(w)' /\ UpToDate(w)'
    BY <1>1, <1>2, <1>3 DEF WorkerInv, OrdersDated, UpToDate
  <2>2. Single(toMaster'[w], Answers)
    BY <1>6 DEF HasAny, Single
  <2>3. OneAssignment(w)'
    BY <1>1, <1>2, <1>6, <1>13, <2>2 DEF OneAssignment
  <2>. QED BY <1>4, <2>1, <2>3 DEF WorkerInv
<1>16. \A v \in Workers : WorkerInv(v)'
  <2>1. \A v \in Workers \ {w} : v \in assigned' <=> v \in assigned
    BY <1>13
  <2>2. \A v \in Workers \ {w} : toSlave'[v] = toSlave[v] /\ toMaster'[v] = toMaster[v]
    BY <1>1, <1>4
  <2>. QED BY <1>1, <1>2, <1>3, <1>15, <2>1, <2>2, OtherWorkers
<1>17. \E s \in [Workers -> SUBSET Items] : Shared(s)'
  <2>1. \A u, v \in Workers : u # v => new[u] \cap new[v] = {}
    BY <1>22, <1>8, <1>10
  <2>2. ASSUME NEW v \in Workers
        PROVE  new[v] \cap queue' = {} /\ HandedOut(v, new[v])'
    <3>1. CASE v = w
      <4>1. HandedOut(w, {})'
        BY <1>1, <1>2, <1>6, <1>13 DEF HandedOut, HasAny
      <4>. QED BY <1>22, <1>10, <3>1, <4>1
    <3>2. CASE v # w
      <4>1. Idly(v) /\ SameDesk(v)
        BY <1>1, <1>2, <1>4, <1>13, <3>2 DEF Idly, SameDesk
      <4>2. HandedOut(v, sh[v])'
        BY <1>8, <4>1, ShareKept
      <4>. QED BY <1>2, <1>8, <1>10, <3>2, <4>2
    <3>. QED BY <3>1, <3>2
  <2>3. Shared(new)'
    BY <1>13, <2>1, <2>2 DEF Shared
  <2>. QED BY <1>10, <2>3
<1>18. AllLocated /\ KeptApart /\ Apart(toMaster[w], Carriers)
  BY <1>3, PollingFacts DEF KeptApart
<1>19. AllLocated'
  <2>1. Reaching("failures", m.items, w)
    BY <1>1 DEF Reaching, Here, WithWorker, m
  <2>2. /\ Same("elsewhere") /\ Same("queue") /\ Same("stored") /\ Same("dropped")
        /\ Same("aggregations")
    BY <1>1, <1>2 DEF Same, Here, Aggregating
  <2>3. \A p \in Places \ (WithWorker \cup {"failures"}) : Same(p)
    BY <2>2 DEF Places
  <2>4. "failures" \in Places \ WithWorker
    BY PlaceNames
  <2>. QED BY <1>1, <1>4, <1>5, <1>18, <2>1, <2>3, <2>4, Delivered DEF m
<1>20. KeptApart'
  <2>1. \A v \in Workers : Apart(toMaster[v], Carriers)
    BY <1>18 DEF KeptApart
  <2>2. \A v \in Workers : Apart(toMaster'[v], Carriers)
    BY <1>1, <1>4, <2>1, StillApart
  <2>. QED BY <1>1, <1>18, <2>2 DEF KeptApart
<1>21. AccountsInv'
  BY <1>1, <1>14, <1>16, <1>17, <1>19, <1>20, PollingKeeps
<1>. QED BY <1>13, <1>21

\* A worker has closed down; when it is the last nothing is in flight.
LEMMA ReceiveCloseDownKeeps ==
  ASSUME Good, NEW w \in Workers, ReceiveCloseDown(w)
  PROVE  AccountsInv'
<1> DEFINE m == Head(toMaster[w])
<1>1. /\ phase = "poll" /\ raised = "none" /\ toMaster[w] # <<>>
      /\ m.tag = "WORKER_CLOSE_DOWN" /\ MarkInactive(w) /\ TakeReport(w)
      /\ UNCHANGED <<masterVars, slaveVars, toSlave>>
  BY DEF ReceiveCloseDown, Polling, FromSlave
<1>2. /\ UNCHANGED <<phase, task, aggregations, stored, failures, dropped, wanted, kinds>>
      /\ UNCHANGED <<assigned, queue, inFlight, at, serving, cache>>
  BY <1>1 DEF masterVars, slaveVars, MarkInactive
<1>3. ProtocolInv /\ AccountsInv /\ Live /\ WorkerInv(w) /\ inFlight \in Nat
  BY <1>1, Typing DEF Live
<1>4. /\ m \in Message /\ m = toMaster[w][1] /\ 1 \in 1 .. Len(toMaster[w])
      /\ toMaster'[w] = Tail(toMaster[w]) /\ toMaster[w] \in Seq(Message)
      /\ \A v \in Workers \ {w} : toMaster'[v] = toMaster[v]
      /\ ReportsDated(w)'
  BY <1>1, <1>2, ReportRead
<1>5. m.tag \notin Carriers /\ m.tag \notin Answers
  BY <1>1 DEF Carriers, Answers
<1> HIDE DEF m
<1>6. 1 = Len(toMaster[w]) /\ at[w] = "wait" /\ w \notin inactive
  <2>1. SlaveInv(w)
    BY Typing
  <2>. QED BY <1>1, <1>4, <2>1 DEF SlaveInv, LastWord
<1>7. ASSUME active = 1
      PROVE  inFlight = 0
  <2>1. /\ initialized = Workers /\ active = Cardinality(initialized \ inactive)
    BY <1>1, <1>3 DEF ProtocolInv, ClosingTime, SchedInv, CountersAgree
  <2>2. \A v \in Workers \ {w} : v \in inactive
    <3>1. PICK S \in SUBSET Workers : S = Workers \ inactive
      OBVIOUS
    <3>2. Cardinality(S \ {w}) = 0 /\ S \ {w} \in SUBSET Workers
      BY <1>6, <1>7, <2>1, <3>1, OneWorker
    <3>3. IsFiniteSet(S \ {w})
      BY <3>2, FinitePool
    <3>4. S \ {w} = {}
      BY <3>2, <3>3, FS_EmptySet
    <3>. QED BY <3>1, <3>4
  <2>3. ASSUME NEW v \in Workers
        PROVE  v \notin assigned
    <3>1. SlaveInv(v) /\ OneAssignment(v)
      BY Typing DEF WorkerInv
    <3>2. at[v] = "wait" /\ ~HasAny(toMaster[v], Answers)
      <4>1. CASE v = w
        <5>1. \A k \in 1 .. Len(toMaster[w]) : toMaster[w][k].tag \notin Answers
          <6>1. \A k \in 1 .. Len(toMaster[w]) : k = 1
            BY <1>6
          <6>. QED BY <1>4, <1>5, <6>1
        <5>. QED BY <1>6, <4>1, <5>1 DEF HasAny
      <4>2. CASE v # w
        <5>1. at[v] = "wait" /\ toMaster[v] = <<>>
          BY <1>1, <2>2, <3>1, <4>2 DEF SlaveInv, LastWord, LeavesLast
        <5>. QED BY <5>1, QueueEmpty
      <4>. QED BY <4>1, <4>2
    <3>3. ~HasAny(toSlave[v], Orders)
      BY <1>1, <3>2, ReadAll, QueueEmpty
    <3>. QED BY <1>3, <3>1, <3>2, <3>3 DEF OneAssignment
  <2>4. PICK sh \in [Workers -> SUBSET Items] : Shared(sh)
    BY <1>3, PollingFacts
  <2>5. \A v \in Workers : sh[v] = {}
    BY <2>3, <2>4 DEF Shared, HandedOut
  <2>6. UNION {sh[v] : v \in Workers} = {}
    BY <2>5
  <2>. QED BY <2>4, <2>6, FS_EmptySet DEF Shared
<1>8. raised' = "none"
  BY <1>1, <1>3, <1>6, <1>7 DEF MarkInactive
<1>9. Ledger'
  BY <1>1, <1>2, <1>3, <1>8 DEF AccountsInv, Ledger
<1>10. /\ HasAny(toMaster'[w], Answers) <=> HasAny(toMaster[w], Answers)
       /\ Single(toMaster[w], Answers) => Single(toMaster'[w], Answers)
  BY <1>1, <1>4, <1>5, HasAnyTaken, SingleTaken DEF m
<1>11. \A v \in Workers : WorkerInv(v)'
  <2>1. OrdersDated(w)' /\ UpToDate(w)'
    BY <1>1, <1>2, <1>3 DEF WorkerInv, OrdersDated, UpToDate
  <2>2. OneAssignment(w)'
    BY <1>1, <1>2, <1>3, <1>10 DEF WorkerInv, OneAssignment, Live
  <2>3. WorkerInv(w)'
    BY <1>4, <2>1, <2>2 DEF WorkerInv
  <2>4. \A v \in Workers \ {w} : toSlave'[v] = toSlave[v] /\ toMaster'[v] = toMaster[v]
    BY <1>1, <1>4
  <2>5. Live' => Live
    BY <1>3
  <2>. QED BY <1>1, <1>2, <2>3, <2>4, <2>5, OtherWorkers
<1>12. \E sh \in [Workers -> SUBSET Items] : Shared(sh)'
  <2>1. \A v \in Workers : \A k \in 1 .. Len(toMaster'[v]) :
          toMaster'[v][k].tag \in Answers =>
            \E j \in 1 .. Len(toMaster[v]) : toMaster'[v][k] = toMaster[v][j]
    BY <1>1, <1>4, RestUnread
  <2>2. \A v \in Workers : \A k \in 1 .. Len(toSlave'[v]) :
          toSlave'[v][k].tag \in Orders =>
            \E j \in 1 .. Len(toSlave[v]) : toSlave'[v][k] = toSlave[v][j]
    BY <1>1
  <2>. QED BY <1>1, <1>2, <1>3, <2>1, <2>2, SharesKept
<1>13. AllLocated'
  <2>1. \A i : Holds(toMaster'[w], Carriers, i) <=> Holds(toMaster[w], Carriers, i)
    BY <1>1, <1>4, <1>5, HoldsTaken DEF m
  <2>2. Same("report")
    BY <1>4, <2>1, PlaceNames, PlaceNamesNext DEF Same
  <2>3. UNCHANGED <<at, todo, bad, cache, toSlave>>
    BY <1>1 DEF slaveVars
  <2>4. Same("order") /\ Same("desk") /\ Same("cache")
    BY <2>3, PlaceNames, PlaceNamesNext DEF Same
  <2>5. \A p \in Places : Same(p)
    BY <1>2, <2>2, <2>4, SameAtMaster DEF WithWorker
  <2>. QED BY <1>3, <2>5, PollingFacts, Resting
<1>14. KeptApart'
  <2>1. KeptApart
    BY <1>3, PollingFacts
  <2>2. \A v \in Workers : Apart(toMaster[v], Carriers)
    BY <2>1 DEF KeptApart
  <2>3. \A v \in Workers : Apart(toMaster'[v], Carriers)
    BY <1>1, <1>4, <2>2, StillApart
  <2>. QED BY <1>2, <2>1, <2>3 DEF KeptApart
<1>. QED BY <1>1, <1>2, <1>9, <1>11, <1>12, <1>13, <1>14, PollingKeeps

-----------------------------------------------------------------------------
(* The accounts are kept                                                   *)

\* At the start nothing is due to anyone.
LEMMA AccountsStart ==
  ASSUME Init
  PROVE  AccountsInv
<1>1. /\ phase = "next" /\ task = 0 /\ raised = "none" /\ kinds = {}
      /\ \A w \in Workers : /\ serving[w] = 0 /\ at[w] = "wait"
                            /\ toSlave[w] = <<>> /\ toMaster[w] = <<>>
  BY DEF Init, SchedInit
<1>2. \A w \in Workers : WorkerInv(w)
  BY <1>1 DEF WorkerInv, OrdersDated, ReportsDated, UpToDate, OneAssignment, Live
<1>3. SharesCounted /\ ItemsLocated /\ Ledger /\ Settled
  BY <1>1 DEF SharesCounted, ItemsLocated, Ledger, Settled, Closed, Live
<1>. QED BY <1>2, <1>3 DEF AccountsInv

\* A step that changes nothing changes none of this.
LEMMA AccountsStutter ==
  ASSUME AccountsInv, UNCHANGED vars
  PROVE  AccountsInv'
<1>1. UNCHANGED <<phase, task, raised, assigned, inFlight, queue, wanted, stored, failures,
                  dropped, aggregations, kinds, result, at, serving, todo, good, bad, cache,
                  toSlave, toMaster>>
  BY DEF vars, schedVars, masterVars, slaveVars
<1>2. \A w \in Workers : WorkerInv(w)'
  <2>1. ASSUME NEW w \in Workers
        PROVE  WorkerInv(w)'
    <3>1. WorkerInv(w) /\ Idly(w)
      BY <1>1 DEF AccountsInv, Idly
    <3>. QED BY <1>1, <3>1, OthersKeep DEF Live
  <2>. QED BY <2>1
<1>3. Ledger'
  BY <1>1, LedgerKept DEF AccountsInv
<1>4. Settled'
  BY <1>1 DEF AccountsInv, Settled, Closed, Gone
<1>5. SharesCounted'
  BY <1>1 DEF AccountsInv, SharesCounted, Live, Shared, HandedOut
<1>6. ItemsLocated'
  <2>1. \A p \in Places : Same(p)
    BY <1>1 DEF Same, Here, Aggregating
  <2>2. AllLocated => AllLocated'
    BY <2>1, Resting
  <2>3. KeptApart => KeptApart'
    BY <1>1 DEF KeptApart
  <2>. QED BY <1>1, <2>2, <2>3 DEF AccountsInv, ItemsLocated, Live
<1>. QED BY <1>2, <1>3, <1>4, <1>5, <1>6 DEF AccountsInv

\* Every step keeps the accounts, as long as no flush and no backend throws.
LEMMA AccountsStep ==
  ASSUME ~BackendThrows, Good, [Next]_vars
  PROVE  AccountsInv'
<1>1. ASSUME NEW items \in SUBSET Items, BeginTask(items) PROVE AccountsInv'
  BY <1>1, BeginTaskKeeps
<1>2. CASE SetupThrows
  BY <1>2, SetupThrowsKeeps
<1>3. ASSUME NEW w \in Workers, NEW k \in Kinds, Capture(w, k) PROVE AccountsInv'
  BY <1>3, CaptureKeeps
<1>4. ASSUME NEW w \in Workers, \/ Discard(w) \/ PushAssignment(w) \/ ReceiveData(w)
                                \/ ReceiveFinished(w) \/ ReceiveCloseDown(w) \/ ReceiveLoad(w)
      PROVE  AccountsInv'
  BY <1>4, DiscardKeeps, PushKeeps, ReceiveDataKeeps, ReceiveFinishedKeeps,
     ReceiveCloseDownKeeps, ReceiveLoadKeeps
<1>5. CASE SendCloseDown \/ Plan \/ Aggregate \/ EndPolling \/ CloseTask \/ AbortTask
  BY <1>5, SendCloseDownKeeps, PlanKeeps, AggregateKeeps, EndPollingKeeps, CloseTaskKeeps,
     AbortTaskKeeps
<1>6. CASE QueryLoads \/ Terminate
  <2>1. /\ phase \in {"next", "loads"} /\ phase' \in {"loads", "over"}
        /\ \/ Broadcast(<<Order("QUERY_PERFORMANCE_DATA")>>) \/ Broadcast(<<Order("TERMINATE")>>)
        /\ UNCHANGED <<schedVars, task, aggregations, stored, failures, dropped, result,
                       slaveVars, toMaster>>
    BY <1>6 DEF QueryLoads, Terminate
  <2>. QED BY <2>1, LastOrdersKeep
<1>7. ASSUME NEW w \in Workers, SlaveNext(w) PROVE AccountsInv'
  <2>1. CASE \E i \in Items, ok, flush \in BOOLEAN : SlaveProcess(w, i, ok, flush)
    BY <2>1, ProcessKeeps
  <2>2. CASE \E i \in Items : SlaveMiscount(w, i)
    BY <2>2 DEF SlaveMiscount
  <2>3. CASE \E ok \in BOOLEAN : SlaveFinish(w, ok)
    <3>1. PICK ok \in BOOLEAN : SlaveFinish(w, ok)
      BY <2>3
    <3>2. ok = TRUE
      BY <3>1 DEF SlaveFinish
    <3>. QED BY <3>1, <3>2, AnswerKeeps
  <2>4. CASE \/ SlaveCheckpoint(w) \/ SlaveBegin(w) \/ SlaveSkip(w) \/ SlaveAssignment(w)
             \/ SlaveClose(w) \/ SlaveReportLoad(w) \/ SlaveTerminate(w)
    BY <2>4, CheckpointKeeps, JoinKeeps, SkipKeeps, AssignmentKeeps, CloseKeeps, LoadKeeps,
       TerminateKeeps
  <2>. QED BY <1>7, <2>1, <2>2, <2>3, <2>4 DEF SlaveNext
<1>8. CASE UNCHANGED vars \/ Finished
  BY <1>8, AccountsStutter DEF Finished, Good
<1>. QED BY <1>1, <1>2, <1>3, <1>4, <1>5, <1>6, <1>7, <1>8 DEF Next, MasterNext

\* Every item has a place, the shares handed out and what the slaves report
\* about them amount to the same number, and a committed task is settled.
THEOREM AccountsInvariant ==
  ASSUME ~BackendThrows
  PROVE  Spec => []AccountsInv
<1>1. Init => Good
  BY ProtocolStart, AccountsStart DEF Good
<1>2. Good /\ [Next]_vars => Good'
  BY ProtocolStep, AccountsStep DEF Good
<1>3. Good => AccountsInv
  BY DEF Good
<1>. QED BY <1>1, <1>2, <1>3, PTL DEF Spec

-----------------------------------------------------------------------------
(* The contract                                                            *)

\* An item in a report or a container is one of the task's, not settled yet.
LEMMA NotSettledYet ==
  ASSUME Good, Live, NEW w \in Workers, NEW p \in {"report", "aggregations"}, NEW i \in Items,
         Here(i, p, w)
  PROVE  i \in wanted \ (stored \cup failures \cup dropped)
<1>1. AllLocated
  BY PollingFacts
<1>2. /\ {"elsewhere", "stored", "failures", "dropped"} \subseteq Places /\ p \in Places
      /\ Here(i, "elsewhere", w) <=> i \notin wanted
      /\ Here(i, "stored", w) <=> i \in stored
      /\ Here(i, "failures", w) <=> i \in failures
      /\ Here(i, "dropped", w) <=> i \in dropped
  BY DEF Here, Places, WithWorker
<1>3. /\ ~Here(i, "elsewhere", w) /\ ~Here(i, "stored", w) /\ ~Here(i, "failures", w)
      /\ ~Here(i, "dropped", w)
  BY <1>1, <1>2, OnePlace
<1>. QED BY <1>2, <1>3

\* The state the contract speaks of.
Open == phase \in {"capture", "poll", "drain"}
Outstanding == wanted \ (stored \cup failures \cup dropped)

\* A run of TaskProtocol starts as one of TaskContract.
LEMMA ContractStart ==
  ASSUME Init
  PROVE  PromiseKept!ContractInit
BY DEF Init, SchedInit, PromiseKept!ContractInit

\* A step the contract does not speak of.
LEMMA Unnoticed ==
  ASSUME UNCHANGED <<task, wanted, stored, failures, dropped, result>>, Open' = Open
  PROVE  UNCHANGED PromiseKept!contractVars
BY DEF PromiseKept!contractVars, Open

\* A step that settles some items, or none.
LEMMA Settles ==
  ASSUME NEW M, M \subseteq Outstanding, Open, Open', UNCHANGED <<task, wanted, result>>,
         \/ stored' = stored \cup M /\ UNCHANGED <<failures, dropped>>
         \/ failures' = failures \cup M /\ UNCHANGED <<stored, dropped>>
         \/ dropped' = dropped \cup M /\ UNCHANGED <<stored, failures>>
  PROVE  [PromiseKept!ContractNext]_(PromiseKept!contractVars)
<1>1. CASE M = {}
  BY <1>1, Unnoticed DEF Open
<1>2. CASE M # {}
  <2>1. Outstanding' = Outstanding \ M
    BY DEF Outstanding
  <2>2. PromiseKept!Settle(M)
    BY <1>2, <2>1 DEF PromiseKept!Settle, Open, Outstanding
  <2>. QED BY <2>2 DEF PromiseKept!ContractNext, Outstanding
<1>. QED BY <1>1, <1>2

\* The results of an assignment are settled.
LEMMA FinishedSettles ==
  ASSUME Good, NEW w \in Workers, ReceiveFinished(w)
  PROVE  [PromiseKept!ContractNext]_(PromiseKept!contractVars)
<1> DEFINE m == Head(toMaster[w])
<1>1. /\ phase = "poll" /\ raised = "none" /\ toMaster[w] # <<>> /\ m.tag \in {"FINISHED", "FAIL"}
      /\ MarkUnassigned(w, m.n) /\ failures' = failures \cup m.items
      /\ UNCHANGED <<phase, task, stored, dropped, result>>
  BY DEF ReceiveFinished, Polling, FromSlave
<1>2. toMaster[w] \in Seq(Message) /\ m \in Message /\ m.items \in SUBSET Items /\ Live
  BY <1>1, Typing, Taken, Fields DEF Live
<1>3. m.items \subseteq Outstanding
  <2>1. ASSUME NEW i \in m.items
        PROVE  i \in Outstanding
    <3>1. m.tag \in Carriers
      BY <1>1 DEF Carriers, Answers
    <3>2. Here(i, "report", w) /\ i \in Items
      BY <1>1, <1>2, <3>1, HoldsTaken, PlaceNames
    <3>. QED BY <1>2, <3>2, NotSettledYet DEF Outstanding
  <2>. QED BY <2>1
<1>4. UNCHANGED wanted
  BY <1>1 DEF MarkUnassigned
<1> HIDE DEF m
<1>. QED BY <1>1, <1>3, <1>4, Settles DEF Open

\* ... and so is what a container holds.
LEMMA AggregateSettles ==
  ASSUME Good, Aggregate
  PROVE  [PromiseKept!ContractNext]_(PromiseKept!contractVars)
<1> DEFINE s == Head(aggregations)
<1>1. /\ phase \in {"poll", "drain"} /\ (phase = "poll" => raised = "none")
      /\ aggregations # <<>>
      /\ \/ stored' = stored \cup s /\ UNCHANGED dropped
         \/ dropped' = dropped \cup s /\ UNCHANGED stored
      /\ UNCHANGED <<schedVars, phase, task, failures, result>>
  BY DEF Aggregate, Polling
<1>2. Live /\ aggregations \in Seq(SUBSET Items)
  BY <1>1, Typing DEF Live, AccountsInv, Ledger
<1>3. s \in SUBSET Items /\ \A i \in s : Aggregating(i)
  <2>1. s = aggregations[1] /\ 1 \in 1 .. Len(aggregations) /\ s \in SUBSET Items
    BY <1>1, <1>2, HeadTailProperties, EmptySeq
  <2>. QED BY <2>1 DEF Aggregating
<1>4. s \subseteq Outstanding
  <2>1. PICK w \in Workers : TRUE
    BY WorkersAssumption
  <2>2. ASSUME NEW i \in s
        PROVE  i \in Outstanding
    <3>1. Here(i, "aggregations", w) /\ i \in Items
      BY <1>3 DEF Here
    <3>. QED BY <1>2, <3>1, NotSettledYet DEF Outstanding
  <2>. QED BY <2>2
<1>5. UNCHANGED wanted
  BY <1>1 DEF schedVars
<1> HIDE DEF s
<1>. QED BY <1>1, <1>4, <1>5, Settles DEF Open

\* A task is closed with nothing left, or aborted.
LEMMA ContractEnds ==
  ASSUME Good, NEW how \in {"committed", "rejected", "aborted"}, Open, ~Open',
         UNCHANGED <<task, wanted, stored, failures, dropped>>,
         result' = [result EXCEPT ![task] = how],
         how \in {"committed", "rejected"} => phase = "drain" /\ aggregations = <<>>
  PROVE  PromiseKept!ContractNext
<1>1. how \in {"committed", "rejected"} => Outstanding = {}
  BY AllSettled DEF Outstanding
<1>2. PromiseKept!Close(how)
  BY <1>1 DEF PromiseKept!Close, Open, Outstanding
<1>. QED BY <1>2 DEF PromiseKept!ContractNext

\* Every step of the protocol is a step of the contract, or none of its business.
LEMMA ContractStep ==
  ASSUME Good, [Next]_vars
  PROVE  [PromiseKept!ContractNext]_(PromiseKept!contractVars)
<1>1. ASSUME NEW items \in SUBSET Items, BeginTask(items)
      PROVE  PromiseKept!ContractNext
  <2>1. /\ phase = "next" /\ phase' = "capture" /\ task < NumTasks /\ task' = task + 1
        /\ wanted' = items /\ stored' = {} /\ failures' = {} /\ dropped' = {}
        /\ UNCHANGED result
    BY <1>1 DEF BeginTask, NewTask
  <2>2. PromiseKept!Open(items)
    BY <2>1 DEF PromiseKept!Open
  <2>. QED BY <2>2 DEF PromiseKept!ContractNext
<1>2. CASE SetupThrows
  <2>1. /\ phase = "next" /\ task < NumTasks /\ task' = task + 1
        /\ result' = [result EXCEPT ![task + 1] = "aborted"]
        /\ UNCHANGED <<phase, wanted, stored, failures, dropped>>
    BY <1>2 DEF SetupThrows, schedVars
  <2>2. PromiseKept!FailToOpen
    BY <2>1 DEF PromiseKept!FailToOpen
  <2>. QED BY <2>2 DEF PromiseKept!ContractNext
<1>3. ASSUME NEW w \in Workers, NEW k \in Kinds, Capture(w, k)
      PROVE  UNCHANGED PromiseKept!contractVars
  <2>1. /\ phase = "capture" /\ phase' \in {"capture", "poll"}
        /\ UNCHANGED <<task, wanted, stored, failures, dropped, result>>
    BY <1>3 DEF Capture, InitializeWorker
  <2>. QED BY <2>1, Unnoticed DEF Open
<1>4. ASSUME NEW w \in Workers, \/ Discard(w) \/ PushAssignment(w) \/ ReceiveData(w)
                                \/ ReceiveCloseDown(w) \/ ReceiveLoad(w)
      PROVE  UNCHANGED PromiseKept!contractVars
  <2>1. UNCHANGED <<phase, task, wanted, stored, failures, dropped, result>>
    BY <1>4 DEF Discard, PushAssignment, MarkAssigned, ReceiveData, ReceiveCloseDown,
       MarkInactive, ReceiveLoad, schedVars, masterVars
  <2>. QED BY <2>1, Unnoticed DEF Open
<1>5. ASSUME NEW w \in Workers, ReceiveFinished(w)
      PROVE  [PromiseKept!ContractNext]_(PromiseKept!contractVars)
  BY <1>5, FinishedSettles
<1>6. CASE SendCloseDown \/ Plan \/ EndPolling
  <2>1. /\ UNCHANGED <<task, wanted, stored, failures, dropped, result>>
        /\ phase = "poll" /\ phase' \in {"poll", "drain"}
    BY <1>6 DEF SendCloseDown, Plan, EndPolling, AssignWork, Polling, schedVars, masterVars
  <2>. QED BY <2>1, Unnoticed DEF Open
<1>7. CASE Aggregate
  BY <1>7, AggregateSettles
<1>8. CASE CloseTask
  <2>1. PICK how \in {"committed", "rejected"} :
          /\ result' = [result EXCEPT ![task] = how] /\ phase = "drain" /\ phase' = "next"
          /\ aggregations = <<>> /\ UNCHANGED <<task, wanted, stored, failures, dropped>>
    BY <1>8 DEF CloseTask, Leave, schedVars
  <2>. QED BY <2>1, ContractEnds DEF Open
<1>9. CASE AbortTask
  <2>1. /\ result' = [result EXCEPT ![task] = "aborted"]
        /\ phase \in {"poll", "drain"} /\ phase' = "next"
        /\ UNCHANGED <<task, wanted, stored, failures, dropped>>
    BY <1>9 DEF AbortTask, Leave, Polling, schedVars
  <2>. QED BY <2>1, ContractEnds DEF Open
<1>10. CASE QueryLoads \/ Terminate
  <2>1. /\ phase \in {"next", "loads"} /\ phase' \in {"loads", "over"}
        /\ UNCHANGED <<task, wanted, stored, failures, dropped, result>>
    BY <1>10 DEF QueryLoads, Terminate, schedVars
  <2>. QED BY <2>1, Unnoticed DEF Open
<1>11. ASSUME NEW w \in Workers, SlaveNext(w)
       PROVE  UNCHANGED PromiseKept!contractVars
  <2>1. UNCHANGED <<schedVars, masterVars>>
    BY <1>11 DEF SlaveNext, SlaveCheckpoint, SlaveBegin, SlaveSkip, SlaveAssignment,
       SlaveProcess, SlaveMiscount, SlaveFinish, SlaveClose, SlaveReportLoad, SlaveTerminate
  <2>. QED BY <2>1, Unnoticed DEF Open, schedVars, masterVars
<1>12. CASE UNCHANGED vars \/ Finished
  <2>1. UNCHANGED <<phase, task, wanted, stored, failures, dropped, result>>
    BY <1>12 DEF vars, Finished, schedVars, masterVars
  <2>. QED BY <2>1, Unnoticed DEF Open
<1>. QED
  BY <1>1, <1>2, <1>3, <1>4, <1>5, <1>6, <1>7, <1>8, <1>9, <1>10, <1>11, <1>12
  DEF Next, MasterNext

\* The run keeps the promise of TaskContract: every item of a task that is
\* committed has been settled, and settled once.
THEOREM PromiseIsKept ==
  ASSUME ~BackendThrows
  PROVE  Spec => Contract
<1>1. Init => Good /\ PromiseKept!ContractInit
  BY ProtocolStart, AccountsStart, ContractStart DEF Good
<1>2. Good /\ [Next]_vars => Good' /\ [PromiseKept!ContractNext]_(PromiseKept!contractVars)
  BY ProtocolStep, AccountsStep, ContractStep DEF Good
<1>. QED BY <1>1, <1>2, PTL DEF Spec, Contract, PromiseKept!Contract

\* The master never hears anything else than its books say, and a pool of one
\* kind of worker always has a strategy: the scheduler throws no exception.
THEOREM NoExceptionThrown ==
  ASSUME ~BackendThrows, Kinds # {"cpu", "gpu"}
  PROVE  Spec => []NoSchedulingError
<1>1. AccountsInv => NoSchedulingError
  BY KindsAssumption DEF AccountsInv, Ledger, NoSchedulingError
<1>. QED BY <1>1, AccountsInvariant, PTL

-----------------------------------------------------------------------------
(* One copy of every item                                                  *)

\* A set with no two members has one, or none.
LEMMA AtMostOne ==
  ASSUME NEW S, \A x, y \in S : x = y
  PROVE  Cardinality(S) = IF S = {} THEN 0 ELSE 1
<1>1. CASE S = {}
  BY <1>1, FS_EmptySet
<1>2. CASE S # {}
  <2>1. PICK x \in S : TRUE
    BY <1>2
  <2>2. S = {x}
    BY <2>1
  <2>. QED BY <1>2, <2>2, FS_Singleton
<1>. QED BY <1>1, <1>2

\* The messages that hold an item of the current task, when there is one at most.
LEMMA SentOnce ==
  ASSUME NEW i, NEW ch \in [Workers -> Seq(Message)], NEW tags,
         \A v, w \in Workers : \A j \in 1 .. Len(ch[v]), k \in 1 .. Len(ch[w]) :
           /\ ch[v][j].tag \in tags /\ i \in ch[v][j].items
           /\ ch[w][k].tag \in tags /\ i \in ch[w][k].items
           => v = w /\ j = k,
         \A w \in Workers : \A k \in 1 .. Len(ch[w]) : ch[w][k].tag \in tags => ch[w][k].task = task
  PROVE  Sent(i, ch, tags) = IF \E w \in Workers : Holds(ch[w], tags, i) THEN 1 ELSE 0
<1> DEFINE At(w) == {j \in DOMAIN ch[w] :
                      ch[w][j].tag \in tags /\ ch[w][j].task = task /\ i \in ch[w][j].items}
           S == UNION {{<<w, k>> : k \in At(w)} : w \in Workers}
<1>1. \A w \in Workers : DOMAIN ch[w] = 1 .. Len(ch[w])
  OBVIOUS
<1>2. \A w \in Workers : \A k :
        k \in At(w) <=> k \in 1 .. Len(ch[w]) /\ ch[w][k].tag \in tags /\ i \in ch[w][k].items
  BY <1>1
<1>3. Sent(i, ch, tags) = Cardinality(S)
  BY DEF Sent
<1> HIDE DEF At
<1>4. \A x \in S : \E w \in Workers : \E k \in At(w) : x = <<w, k>>
  OBVIOUS
<1>5. \A x, y \in S : x = y
  BY <1>2, <1>4
<1>6. S = {} <=> ~\E w \in Workers : Holds(ch[w], tags, i)
  <2>1. \A w \in Workers : Holds(ch[w], tags, i) <=> \E k : k \in At(w)
    BY <1>2 DEF Holds
  <2>2. \A w \in Workers : \A k \in At(w) : <<w, k>> \in S
    OBVIOUS
  <2>3. S = {} <=> ~\E w \in Workers : \E k : k \in At(w)
    BY <1>4, <2>2
  <2>. QED BY <2>1, <2>3
<1> HIDE DEF S
<1>. QED BY <1>3, <1>5, <1>6, AtMostOne

\* ... and when there is none.
LEMMA SentNever ==
  ASSUME NEW i, NEW ch \in [Workers -> Seq(Message)], NEW tags,
         \A w \in Workers : \A k \in 1 .. Len(ch[w]) : ch[w][k].tag \in tags => ch[w][k].task # task
  PROVE  Sent(i, ch, tags) = 0
<1> DEFINE At(w) == {j \in DOMAIN ch[w] :
                      ch[w][j].tag \in tags /\ ch[w][j].task = task /\ i \in ch[w][j].items}
           S == UNION {{<<w, k>> : k \in At(w)} : w \in Workers}
<1>1. \A w \in Workers : DOMAIN ch[w] = 1 .. Len(ch[w])
  OBVIOUS
<1>2. \A w \in Workers : At(w) = {}
  BY <1>1
<1>3. Sent(i, ch, tags) = Cardinality(S)
  BY DEF Sent
<1> HIDE DEF At
<1>4. S = {}
  BY <1>2
<1> HIDE DEF S
<1>. QED BY <1>3, <1>4, FS_EmptySet

\* The terms that Copies adds up, apart from the master's own sets.
Queued(i) == Cardinality({k \in DOMAIN aggregations : i \in aggregations[k]})
Ordered(i) == Sent(i, toSlave, {"NEW_WORK_ASSIGNMENT"})
Reported(i) == Sent(i, toMaster, {"DATA_READY", "FINISHED", "FAIL"})
Cached(i) == Cardinality({w \in Workers : serving[w] = task /\ i \in cache[w]})
OnDesk(i) ==
  Cardinality({w \in Workers : /\ serving[w] = task /\ at[w] = "work"
                               /\ i \in todo[w] \cup bad[w]})

\* Copies is their sum.
LEMMA CopiesSum ==
  ASSUME NEW i
  PROVE  Copies(i) = In(i, queue) + In(i, stored) + In(i, failures) + In(i, dropped)
                     + Queued(i) + Ordered(i) + Reported(i) + Cached(i) + OnDesk(i)
BY DEF Copies, Queued, Ordered, Reported, Cached, OnDesk

\* The tags, as they are written there.
LEMMA TagSets ==
  /\ Orders = {"NEW_WORK_ASSIGNMENT"}
  /\ Carriers = {"DATA_READY", "FINISHED", "FAIL"}
  /\ "WORKER_IDENTIFICATION" \notin Carriers
BY DEF Orders, Answers, Carriers

\* When no worker has an item and no container does, only the master's sets count.
LEMMA NobodyHasIt ==
  ASSUME Good, NEW i, aggregations = <<>>,
         \A w \in Workers : \A k \in 1 .. Len(toSlave[w]) :
           toSlave[w][k].tag \in Orders => toSlave[w][k].task # task,
         \A w \in Workers : \A k \in 1 .. Len(toMaster[w]) :
           toMaster[w][k].tag \in Carriers => toMaster[w][k].task # task,
         \A w \in Workers : serving[w] = task => cache[w] = {} /\ at[w] # "work"
  PROVE  Queued(i) = 0 /\ Ordered(i) = 0 /\ Reported(i) = 0 /\ Cached(i) = 0 /\ OnDesk(i) = 0
<1>1. /\ toSlave \in [Workers -> Seq(Message)] /\ toMaster \in [Workers -> Seq(Message)]
  BY SlaveFunctions
<1>2. Ordered(i) = 0
  BY <1>1, SentNever, TagSets DEF Ordered
<1>3. Reported(i) = 0
  BY <1>1, SentNever, TagSets DEF Reported
<1>4. Queued(i) = 0
  <2>1. {k \in DOMAIN aggregations : i \in aggregations[k]} = {}
    OBVIOUS
  <2>. QED BY <2>1, FS_EmptySet DEF Queued
<1>5. Cached(i) = 0
  <2>1. {w \in Workers : serving[w] = task /\ i \in cache[w]} = {}
    OBVIOUS
  <2>. QED BY <2>1, FS_EmptySet DEF Cached
<1>6. OnDesk(i) = 0
  <2>1. {w \in Workers : serving[w] = task /\ at[w] = "work" /\ i \in todo[w] \cup bad[w]} = {}
    OBVIOUS
  <2>. QED BY <2>1, FS_EmptySet DEF OnDesk
<1>. QED BY <1>2, <1>3, <1>4, <1>5, <1>6

\* While the master polls there is one place for each item.
LEMMA OneCopyPolling ==
  ASSUME Good, Live, NEW i \in Items
  PROVE  Copies(i) = In(i, wanted)
<1>1. PICK whr \in [Items -> Places], who \in [Items -> Workers] : Located(whr, who)
  BY PollingFacts DEF AllLocated
<1>2. PICK u \in Workers : TRUE
  BY WorkersAssumption
<1>3. \A p \in Places, w \in Workers :
        Here(i, p, w) <=> whr[i] = p /\ (p \in WithWorker => who[i] = w)
  BY <1>1 DEF Located
<1>4. KeptApart /\ phase \in {"poll", "drain"}
  BY PollingFacts
<1>5. \A w \in Workers : OneAssignment(w)
  BY PollingFacts
<1>6. /\ toSlave \in [Workers -> Seq(Message)] /\ toMaster \in [Workers -> Seq(Message)]
      /\ aggregations \in Seq(SUBSET Items)
  BY SlaveFunctions, Typing
<1>7. \A w \in Workers : serving[w] = task
  BY <1>4, PollingMail
<1>8. /\ In(i, queue) = IF whr[i] = "queue" THEN 1 ELSE 0
      /\ In(i, stored) = IF whr[i] = "stored" THEN 1 ELSE 0
      /\ In(i, failures) = IF whr[i] = "failures" THEN 1 ELSE 0
      /\ In(i, dropped) = IF whr[i] = "dropped" THEN 1 ELSE 0
      /\ In(i, wanted) = IF whr[i] = "elsewhere" THEN 0 ELSE 1
  <2>1. /\ {"elsewhere", "queue", "stored", "failures", "dropped"} \subseteq Places \ WithWorker
    BY PlaceNames
  <2>2. \A p \in {"elsewhere", "queue", "stored", "failures", "dropped"} :
          Here(i, p, u) <=> whr[i] = p
    BY <1>3, <2>1
  <2>. QED BY <2>2 DEF Here, In
<1>9. Queued(i) = IF whr[i] = "aggregations" THEN 1 ELSE 0
  <2> DEFINE S == {k \in DOMAIN aggregations : i \in aggregations[k]}
  <2>1. DOMAIN aggregations = 1 .. Len(aggregations)
    BY <1>6
  <2>2. \A j, k \in S : j = k
    BY <1>4, <2>1 DEF KeptApart
  <2>3. S = {} <=> ~Aggregating(i)
    BY <2>1 DEF Aggregating
  <2>4. Aggregating(i) <=> whr[i] = "aggregations"
    BY <1>2, <1>3, PlaceNames DEF Here
  <2>5. Queued(i) = Cardinality(S)
    BY DEF Queued
  <2> HIDE DEF S
  <2>. QED BY <2>2, <2>3, <2>4, <2>5, AtMostOne
<1>10. Ordered(i) = IF whr[i] = "order" THEN 1 ELSE 0
  <2>1. "order" \in Places /\ "order" \in WithWorker
    BY DEF Places, WithWorker
  <2>2. \A w \in Workers : Holds(toSlave[w], Orders, i) <=> whr[i] = "order" /\ who[i] = w
    BY <1>3, <2>1, PlaceNames
  <2>3. ASSUME NEW v \in Workers, NEW w \in Workers,
               NEW j \in 1 .. Len(toSlave[v]), NEW k \in 1 .. Len(toSlave[w]),
               toSlave[v][j].tag \in Orders, i \in toSlave[v][j].items,
               toSlave[w][k].tag \in Orders, i \in toSlave[w][k].items
        PROVE  v = w /\ j = k
    <3>1. Holds(toSlave[v], Orders, i) /\ Holds(toSlave[w], Orders, i)
      BY <2>3 DEF Holds
    <3>2. v = w
      BY <2>2, <3>1
    <3>3. Single(toSlave[w], Orders)
      BY <1>5 DEF OneAssignment
    <3>. QED BY <2>3, <3>2, <3>3 DEF Single
  <2>4. \A w \in Workers : \A k \in 1 .. Len(toSlave[w]) :
          toSlave[w][k].tag \in Orders => toSlave[w][k].task = task
    BY <1>4, PollingMail
  <2>5. Sent(i, toSlave, Orders)
          = IF \E w \in Workers : Holds(toSlave[w], Orders, i) THEN 1 ELSE 0
    BY <1>6, <2>3, <2>4, SentOnce
  <2>6. (\E w \in Workers : Holds(toSlave[w], Orders, i)) <=> whr[i] = "order"
    BY <2>2
  <2>. QED BY <2>5, <2>6, TagSets DEF Ordered
<1>11. Reported(i) = IF whr[i] = "report" THEN 1 ELSE 0
  <2>1. "report" \in Places /\ "report" \in WithWorker
    BY DEF Places, WithWorker
  <2>2. \A w \in Workers : Holds(toMaster[w], Carriers, i) <=> whr[i] = "report" /\ who[i] = w
    BY <1>3, <2>1, PlaceNames
  <2>3. ASSUME NEW v \in Workers, NEW w \in Workers,
               NEW j \in 1 .. Len(toMaster[v]), NEW k \in 1 .. Len(toMaster[w]),
               toMaster[v][j].tag \in Carriers, i \in toMaster[v][j].items,
               toMaster[w][k].tag \in Carriers, i \in toMaster[w][k].items
        PROVE  v = w /\ j = k
    <3>1. Holds(toMaster[v], Carriers, i) /\ Holds(toMaster[w], Carriers, i)
      BY <2>3 DEF Holds
    <3>2. v = w
      BY <2>2, <3>1
    <3>3. Apart(toMaster[w], Carriers)
      BY <1>4 DEF KeptApart
    <3>. QED BY <2>3, <3>2, <3>3 DEF Apart
  <2>4. \A w \in Workers : \A k \in 1 .. Len(toMaster[w]) :
          toMaster[w][k].tag \in Carriers => toMaster[w][k].task = task
    BY <1>4, PollingMail
  <2>5. Sent(i, toMaster, Carriers)
          = IF \E w \in Workers : Holds(toMaster[w], Carriers, i) THEN 1 ELSE 0
    BY <1>6, <2>3, <2>4, SentOnce
  <2>6. (\E w \in Workers : Holds(toMaster[w], Carriers, i)) <=> whr[i] = "report"
    BY <2>2
  <2>. QED BY <2>5, <2>6, TagSets DEF Reported
<1>12. Cached(i) = IF whr[i] = "cache" THEN 1 ELSE 0
  <2> DEFINE S == {w \in Workers : serving[w] = task /\ i \in cache[w]}
  <2>1. \A w \in Workers : i \in cache[w] <=> whr[i] = "cache" /\ who[i] = w
    BY <1>3, PlaceNames DEF WithWorker
  <2>2. \A v, w \in S : v = w
    BY <2>1
  <2>3. S = {} <=> whr[i] # "cache"
    BY <1>7, <2>1
  <2>4. Cached(i) = Cardinality(S)
    BY DEF Cached
  <2> HIDE DEF S
  <2>. QED BY <2>2, <2>3, <2>4, AtMostOne
<1>13. OnDesk(i) = IF whr[i] = "desk" THEN 1 ELSE 0
  <2> DEFINE S == {w \in Workers : /\ serving[w] = task /\ at[w] = "work"
                                   /\ i \in todo[w] \cup bad[w]}
  <2>1. \A w \in Workers :
          at[w] = "work" /\ i \in todo[w] \cup bad[w] <=> whr[i] = "desk" /\ who[i] = w
    BY <1>3, PlaceNames DEF WithWorker
  <2>2. \A v, w \in S : v = w
    BY <2>1
  <2>3. S = {} <=> whr[i] # "desk"
    BY <1>7, <2>1
  <2>4. OnDesk(i) = Cardinality(S)
    BY DEF OnDesk
  <2> HIDE DEF S
  <2>. QED BY <2>2, <2>3, <2>4, AtMostOne
<1>14. whr[i] \in {"order", "desk", "cache", "report", "elsewhere", "queue", "stored", "failures",
                   "dropped", "aggregations"}
  BY DEF Places, WithWorker
<1>. QED BY <1>8, <1>9, <1>10, <1>11, <1>12, <1>13, <1>14, CopiesSum

\* Before that it is in the queue.
LEMMA OneCopyQueued ==
  ASSUME Good, phase = "capture", NEW i \in Items
  PROVE  Copies(i) = In(i, wanted)
<1>1. /\ queue = wanted /\ stored = {} /\ failures = {} /\ dropped = {} /\ aggregations = <<>>
  BY Typing DEF AccountsInv, Ledger
<1>2. task \in Nat
  BY Typing
<1>3. ASSUME NEW w \in Workers
      PROVE  /\ \A k \in 1 .. Len(toSlave[w]) :
                  toSlave[w][k].tag \in Orders => toSlave[w][k].task # task
             /\ \A k \in 1 .. Len(toMaster[w]) :
                  toMaster[w][k].tag \in Carriers => toMaster[w][k].task # task
             /\ serving[w] = task => cache[w] = {} /\ at[w] # "work"
  <2>1. /\ WorkerInv(w) /\ toSlave[w] \in Seq(Message) /\ toMaster[w] \in Seq(Message)
    BY Typing
  <2>2. ASSUME NEW k \in 1 .. Len(toSlave[w]), toSlave[w][k].tag \in Orders
        PROVE  toSlave[w][k].task < task /\ toSlave[w][k].task \in Nat
    <3>1. toSlave[w][k] \in Message
      BY <2>1
    <3>. QED BY <2>1, <2>2, <3>1, Fields DEF WorkerInv, OrdersDated
  <2>3. ASSUME NEW k \in 1 .. Len(toMaster[w]), toMaster[w][k].tag \in Carriers
        PROVE  toMaster[w][k].task < task /\ toMaster[w][k].task \in Nat
    <3>1. toMaster[w][k] \in Message /\ toMaster[w][k].tag # "WORKER_IDENTIFICATION"
      BY <2>1, <2>3, TagSets
    <3>. QED BY <2>1, <3>1, Fields DEF WorkerInv, ReportsDated
  <2>4. serving[w] = task => cache[w] = {} /\ at[w] # "work"
    BY <2>1 DEF WorkerInv, UpToDate
  <2>. QED BY <1>2, <2>2, <2>3, <2>4
<1>4. Queued(i) = 0 /\ Ordered(i) = 0 /\ Reported(i) = 0 /\ Cached(i) = 0 /\ OnDesk(i) = 0
  BY <1>1, <1>3, NobodyHasIt
<1>. QED BY <1>1, <1>4, CopiesSum DEF In

\* Afterwards, if the output was committed, it is settled.
LEMMA OneCopySettled ==
  ASSUME Good, Closed, NEW i \in Items
  PROVE  Copies(i) = In(i, wanted)
<1>1. /\ queue = {} /\ aggregations = <<>>
      /\ stored \cup failures \cup dropped = wanted
      /\ stored \cap failures = {} /\ stored \cap dropped = {} /\ failures \cap dropped = {}
      /\ \A w \in Workers : Gone(w)
  BY Typing DEF AccountsInv, Settled
<1>2. \A w \in Workers :
        /\ \A k \in 1 .. Len(toSlave[w]) :
             toSlave[w][k].tag \in Orders => toSlave[w][k].task # task
        /\ \A k \in 1 .. Len(toMaster[w]) :
             toMaster[w][k].tag \in Carriers => toMaster[w][k].task # task
        /\ serving[w] = task => cache[w] = {} /\ at[w] # "work"
  BY <1>1 DEF Gone, HasAny
<1>3. Queued(i) = 0 /\ Ordered(i) = 0 /\ Reported(i) = 0 /\ Cached(i) = 0 /\ OnDesk(i) = 0
  BY <1>1, <1>2, NobodyHasIt
<1>4. In(i, queue) = 0 /\ In(i, stored) + In(i, failures) + In(i, dropped) = In(i, wanted)
  BY <1>1 DEF In
<1>5. /\ In(i, stored) \in Nat /\ In(i, failures) \in Nat /\ In(i, dropped) \in Nat
  BY DEF In
<1>. QED BY <1>3, <1>4, <1>5, CopiesSum

\* No result is lost between a slave's cache and the main container, and
\* none gets there twice.
THEOREM ExactlyOneCopy ==
  ASSUME ~BackendThrows
  PROVE  Spec => []OneCopy
<1>1. Init => Good
  BY ProtocolStart, AccountsStart DEF Good
<1>2. Good /\ [Next]_vars => Good'
  BY ProtocolStep, AccountsStep DEF Good
<1>3. Good => OneCopy
  <2>1. SUFFICES ASSUME Good, task > 0, raised = "none",
                        phase \in {"capture", "poll", "drain"} \/ result[task] = "committed",
                        NEW i \in Items
                 PROVE  Copies(i) = In(i, wanted)
    BY DEF OneCopy
  <2>2. phase \in {"next", "capture", "poll", "drain", "loads", "over"}
    <3>1. ProtocolInv
      BY <2>1 DEF Good
    <3>2. MasterTyped
      BY <3>1, Types
    <3>. QED BY <3>2 DEF MasterTyped
  <2>3. CASE phase = "capture"
    BY <2>1, <2>3, OneCopyQueued
  <2>4. CASE phase \in {"poll", "drain"}
    BY <2>1, <2>4, OneCopyPolling DEF Live
  <2>5. CASE phase \in {"next", "loads", "over"}
    BY <2>1, <2>5, OneCopySettled DEF Closed
  <2>. QED BY <2>2, <2>3, <2>4, <2>5
<1>. QED BY <1>1, <1>2, <1>3, PTL DEF Spec
=============================================================================
