-------------------------- MODULE RepositoryProofs --------------------------
(***************************************************************************)
(* Proofs that transactions on a repository keep their promises for any    *)
(* processes, content groups and commands, whatever is interleaved and     *)
(* whoever is killed.                                                      *)
(***************************************************************************)
EXTENDS Repository, SequenceTheorems, FiniteSetTheorems,
        WellFoundedInduction, TLAPS

-----------------------------------------------------------------------------
(* Types                                                                   *)

\* A command on any groups, or one step of a task on its group.
TaskKinds == Kinds \ {"delete", "tag"}
Asked == {c \in Command : c.kind \in {"delete", "tag"}}
           \cup {On(k, g) : k \in TaskKinds, g \in Groups}
Records == {Emplace(d) : d \in Docs} \cup {Move(g) : g \in Groups}
Change == (Kinds \cup {"insert", "deregister"}) \X Groups
Control == Holding \cup {"idle", "poll", "make", "dead"}

ControlTypes ==
  /\ pc \in [Procs -> Control]
  /\ agenda \in [Procs -> Seq(Asked)]
  /\ todo \in [Procs -> Seq(Groups)]

FileTypes ==
  /\ file = [d \in Docs |-> file[d]] /\ temp = [d \in Docs |-> temp[d]]
  /\ \A g \in Groups : file[g] = None \/ file[g] \subseteq Procs
  /\ \A g \in Groups : temp[g] = None \/ temp[g] \subseteq Procs
  /\ file[Task] \in Seq(Groups)
  /\ temp[Task] = None \/ temp[Task] \in Seq(Groups)
  /\ dir \in [Groups -> {"none", "output", "failure", "trash"}]

SqlTypes ==
  /\ rows \subseteq Groups /\ reserved \subseteq Groups
  /\ registered \subseteq Groups
  /\ writing \in Procs \cup {None} /\ reading \subseteq Procs

TxTypes ==
  /\ transactions \in [Procs -> 0 .. 1] /\ attempts \in [Procs -> 0 .. Attempts]
  /\ magic \in [Procs -> Nat] /\ pos \in [Procs -> Nat]
  /\ journal \in [Procs -> Seq(Records)]
  /\ pending \in [Procs -> SUBSET Change]

ClockTypes ==
  /\ lockfile \in Nat \cup {None} /\ clock \in Nat
  /\ commands \in 0 .. MaxCommands /\ crashes \in 0 .. MaxCrashes
  /\ intruded \in BOOLEAN /\ torn \in BOOLEAN
  /\ timedOut \subseteq Procs /\ refused \subseteq Procs

\* A transaction that is under way is counted, and serves a command.
Counted ==
  \A p \in Procs :
    /\ pc[p] \notin {"idle", "dead", "unlock"} => transactions[p] = 1
    /\ pc[p] \notin {"idle", "dead"} => agenda[p] # <<>>
    /\ pc[p] = "dead" => agenda[p] = <<>>

Types == ControlTypes /\ FileTypes /\ SqlTypes /\ TxTypes /\ ClockTypes /\ Counted

\* The changes inside an SQLite transaction are those of its command.
OwnChanges ==
  \A p \in Procs : \A c \in pending[p] :
    Inside(p) /\ \E g \in Groups : c \in Changes(p, g)

\* A row is inserted only after the document of its group is in place: the
\* document is in the journal, and the journal is applied before COMMIT.
DocumentFirst ==
  \A p \in Procs :
    /\ \A g \in Groups :
         <<"insert", g>> \in pending[p] =>
           \E i \in DOMAIN journal[p] : journal[p][i] = Emplace(g)
    /\ \A i \in DOMAIN journal[p] :
         i < pos[p] => \A d \in Docs : journal[p][i] = Emplace(d) => file[d] # None
    /\ pc[p] = "sql" => pos[p] > Len(journal[p])
    /\ pc[p] \notin {"journal", "sql", "unlock", "unwind"} => pos[p] = 1

Documented == RowsDocumented /\ OwnChanges /\ DocumentFirst

\* What is put on an agenda are commands that can be asked.
LEMMA OnType ==
  ASSUME NEW k \in TaskKinds, NEW g \in Groups
  PROVE  /\ On(k, g) \in Asked /\ On(k, g).kind = k
         /\ On(k, g).groups = <<g>> /\ On(k, g).groups[1] = g
BY DEF On, Asked

\* The command a process is at, and the rest of its agenda.
LEMMA CurrentType ==
  ASSUME ControlTypes, NEW p \in Procs, agenda[p] # <<>>
  PROVE  /\ Current(p) \in Asked /\ Kind(p) \in Kinds
         /\ Current(p).groups \in Seq(Groups)
         /\ Kind(p) \in TaskKinds =>
              Current(p).groups[1] \in Groups
              /\ Current(p).groups = <<Current(p).groups[1]>>
         /\ Tail(agenda[p]) \in Seq(Asked)
<1>1. agenda[p] \in Seq(Asked) /\ Len(agenda[p]) >= 1
  BY DEF ControlTypes
<1>2. Current(p) \in Asked
  BY <1>1 DEF Current
<1>3. Tail(agenda[p]) \in Seq(Asked)
  BY <1>1, HeadTailProperties
<1>4. CASE Current(p) \in Command /\ Current(p).kind \in {"delete", "tag"}
  BY <1>2, <1>3, <1>4 DEF Command, Kind, TaskKinds, Kinds
<1>5. CASE \E k \in TaskKinds, g \in Groups : Current(p) = On(k, g)
  BY <1>2, <1>3, <1>5 DEF On, Kind, TaskKinds
<1>. QED BY <1>2, <1>4, <1>5 DEF Asked

\* What the destructors leave.
LEMMA DestroyTypes ==
  ASSUME ControlTypes, TxTypes, NEW p \in Procs, Destroy(p)
  PROVE  /\ todo' \in [Procs -> Seq(Groups)]
         /\ attempts' \in [Procs -> 0 .. Attempts]
         /\ magic' \in [Procs -> Nat] /\ pos' \in [Procs -> Nat]
         /\ journal' \in [Procs -> Seq(Records)]
         /\ pending' \in [Procs -> SUBSET Change]
<1>1. <<>> \in Seq(Groups) /\ <<>> \in Seq(Records)
  OBVIOUS
<1>2. 0 \in 0 .. Attempts
  BY LimitsAssumption
<1>3. todo' \in [Procs -> Seq(Groups)] /\ journal' \in [Procs -> Seq(Records)]
  BY <1>1 DEF ControlTypes, TxTypes, Destroy
<1>4. /\ attempts' \in [Procs -> 0 .. Attempts]
      /\ magic' \in [Procs -> Nat] /\ pos' \in [Procs -> Nat]
  BY <1>2 DEF TxTypes, Destroy
<1>5. pending' \in [Procs -> SUBSET Change]
  BY DEF TxTypes, Destroy
<1>. QED BY <1>3, <1>4, <1>5

\* An exception leaves a process idle, perhaps with a writer to abort, or
\* ends it.
LEMMA FailsTypes ==
  ASSUME ControlTypes, NEW p \in Procs, agenda[p] # <<>>, Fails(p)
  PROVE  /\ pc' \in [Procs -> Control] /\ agenda' \in [Procs -> Seq(Asked)]
         /\ pc'[p] \in {"idle", "dead"}
         /\ pc'[p] = "dead" => agenda'[p] = <<>>
         /\ \A q \in Procs \ {p} : pc'[q] = pc[q] /\ agenda'[q] = agenda[q]
<1>1. Kind(p) \in {"register", "close", "recover"} =>
        <<On("abort", Current(p).groups[1])>> \in Seq(Asked)
  <2>1. HAVE Kind(p) \in {"register", "close", "recover"}
  <2>2. Current(p).groups[1] \in Groups
    BY <2>1, CurrentType DEF TaskKinds, Kinds
  <2>3. On("abort", Current(p).groups[1]) \in Asked
    BY <2>2, OnType DEF TaskKinds, Kinds
  <2>. QED BY <2>3
<1>2. <<>> \in Seq(Asked)
  OBVIOUS
<1>3. agenda' \in [Procs -> Seq(Asked)]
  BY <1>1, <1>2 DEF Fails, ControlTypes
<1>4. pc' \in [Procs -> Control] /\ pc'[p] \in {"idle", "dead"}
  BY DEF Fails, ControlTypes, Control
<1>5. pc'[p] = "dead" => agenda'[p] = <<>>
  BY DEF Fails, ControlTypes
<1>6. \A q \in Procs \ {p} : pc'[q] = pc[q] /\ agenda'[q] = agenda[q]
  BY DEF Fails, ControlTypes
<1>. QED BY <1>3, <1>4, <1>5, <1>6

\* SQLite's locks are those of processes.
LEMMA DisconnectTypes ==
  ASSUME SqlTypes, NEW p \in Procs, Disconnect(p)
  PROVE  writing' \in Procs \cup {None} /\ reading' \subseteq Procs
BY DEF SqlTypes, Disconnect

\* Rollback of the journal leaves temporary files or nothing.
LEMMA DropTempsTypes ==
  ASSUME FileTypes, NEW p \in Procs, DropTemps(p)
  PROVE  /\ temp' = [d \in Docs |-> temp'[d]]
         /\ \A g \in Groups : temp'[g] = None \/ temp'[g] \subseteq Procs
         /\ temp'[Task] = None \/ temp'[Task] \in Seq(Groups)
BY DEF FileTypes, DropTemps, Docs

\* A transaction that is counted can be released once.
LEMMA ReleaseTypes ==
  ASSUME TxTypes, NEW p \in Procs, transactions[p] = 1
  PROVE  [transactions EXCEPT ![p] = Release(p)] \in [Procs -> 0 .. 1]
BY DEF TxTypes, Release

\* The changes of a command, and the records of its journal.
LEMMA WorkTypes ==
  ASSUME Types, NEW p \in Procs, pc[p] = "body", todo[p] # <<>>
  PROVE  /\ todo[p][1] \in Groups
         /\ [todo EXCEPT ![p] = Tail(@)] \in [Procs -> Seq(Groups)]
         /\ \A g \in Groups : Changes(p, g) \subseteq Change
         /\ [pending EXCEPT ![p] = @ \cup Changes(p, todo[p][1])]
              \in [Procs -> SUBSET Change]
<1>1. todo[p] \in Seq(Groups) /\ Len(todo[p]) >= 1
  BY DEF Types, ControlTypes
<1>2. todo[p][1] \in Groups /\ Tail(todo[p]) \in Seq(Groups)
  BY <1>1, HeadTailProperties
<1>3. [todo EXCEPT ![p] = Tail(@)] \in [Procs -> Seq(Groups)]
  BY <1>2 DEF Types, ControlTypes
<1>4. Kind(p) \in Kinds
  BY CurrentType DEF Types, Counted
<1>5. \A g \in Groups : Changes(p, g) \subseteq Change
  BY <1>4 DEF Changes, Change
<1>6. [pending EXCEPT ![p] = @ \cup Changes(p, todo[p][1])]
        \in [Procs -> SUBSET Change]
  BY <1>2, <1>5 DEF Types, TxTypes
<1>. QED BY <1>2, <1>3, <1>5, <1>6

\* A record of a journal names a document or a group.
LEMMA RecordTypes ==
  ASSUME NEW g \in Groups
  PROVE  /\ Emplace(g) \in Records /\ Emplace(Task) \in Records
         /\ Move(g) \in Records /\ Deposits(g) \in Seq(Records)
         /\ <<Emplace(Task), Move(g)>> \in Seq(Records)
BY DEF Records, Docs, Deposits

\* The documents of tasks and groups have different names.
LEMMA DocNames == Task \in Docs /\ Groups \subseteq Docs /\ Task \notin Groups
BY NamesAssumption DEF Docs

\* Taking a group off the list leaves a list.
LEMMA WithoutType ==
  ASSUME NEW s \in Seq(Groups), NEW g
  PROVE  Without(s, g) \in Seq(Groups)
<1>. DEFINE found == {i \in DOMAIN s : s[i] = g}
<1>1. CASE found = {}
  BY <1>1 DEF Without
<1>2. CASE found # {}
  <2>1. found \in SUBSET Nat /\ found # {}
    BY <1>2
  <2>2. PICK m \in found : \A j \in found : m <= j
    <3>1. PICK n \in found : \A j \in found : <<j, n>> \notin OpToRel(<, Nat)
      BY <2>1, NatLessThanWellFounded, WFMin
    <3>2. \A j \in found : ~(j < n)
      BY <3>1, <2>1 DEF OpToRel
    <3>. QED BY <3>2, <2>1
  <2>. DEFINE k == CHOOSE i \in found : \A j \in found : i <= j
  <2>3. k \in found
    BY <2>2
  <2>4. k \in 1 .. Len(s)
    BY <2>3
  <2>. HIDE DEF k
  <2>5. SubSeq(s, 1, k - 1) \in Seq(Groups) /\ SubSeq(s, k + 1, Len(s)) \in Seq(Groups)
    BY <2>4, SubSeqProperties
  <2>6. SubSeq(s, 1, k - 1) \o SubSeq(s, k + 1, Len(s)) \in Seq(Groups)
    BY <2>5, ConcatProperties
  <2>. QED BY <2>6, <1>2 DEF Without, k
<1>. QED BY <1>1, <1>2

\* Start keeps the types and the count of transactions.
LEMMA StartTypes ==
  ASSUME Types, NEW p \in Procs, Start(p)
  PROVE  Types'
<1>. USE DEF Start, docVars, sqlVars, txVars, history
<1>1. ControlTypes'
  BY CurrentType DEF Types, ControlTypes, Control
<1>2. FileTypes'
  BY DEF Types, FileTypes
<1>3. SqlTypes'
  BY DEF Types, SqlTypes
<1>4. TxTypes'
  <2>1. Attempts \in 0 .. Attempts
    BY LimitsAssumption
  <2>. QED BY <2>1 DEF Types, TxTypes
<1>5. ClockTypes'
  BY DEF Types, ClockTypes
<1>6. Counted'
  BY DEF Types, Counted, ControlTypes, TxTypes
<1>. QED BY <1>1, <1>2, <1>3, <1>4, <1>5, <1>6 DEF Types

\* NoContainer keeps the types and the count of transactions.
LEMMA NoContainerTypes ==
  ASSUME Types, NEW p \in Procs, NoContainer(p)
  PROVE  Types'
<1>. USE DEF NoContainer, docVars, sqlVars, txVars, history
<1>1. ControlTypes'
  <2>1. agenda[p] # <<>> /\ Fails(p)
    OBVIOUS
  <2>. QED BY <2>1, FailsTypes DEF Types, ControlTypes
<1>2. FileTypes'
  BY DEF Types, FileTypes
<1>3. SqlTypes'
  BY DEF Types, SqlTypes
<1>4. TxTypes'
  BY DEF Types, TxTypes
<1>5. ClockTypes'
  BY DEF Types, ClockTypes
<1>6. Counted'
  BY DEF Types, Counted, Fails
<1>. QED BY <1>1, <1>2, <1>3, <1>4, <1>5, <1>6 DEF Types

\* Underway keeps the types and the count of transactions.
LEMMA UnderwayTypes ==
  ASSUME Types, NEW p \in Procs, Underway(p)
  PROVE  Types'
<1>. USE DEF Underway, docVars, sqlVars, txVars, history
<1>1. ControlTypes'
  <2>1. agenda[p] # <<>> /\ Fails(p)
    OBVIOUS
  <2>. QED BY <2>1, FailsTypes DEF Types, ControlTypes
<1>2. FileTypes'
  BY DEF Types, FileTypes
<1>3. SqlTypes'
  BY DEF Types, SqlTypes
<1>4. TxTypes'
  BY DEF Types, TxTypes
<1>5. ClockTypes'
  BY DEF Types, ClockTypes
<1>6. Counted'
  BY DEF Types, Counted, ControlTypes, TxTypes, Fails, Release
<1>. QED BY <1>1, <1>2, <1>3, <1>4, <1>5, <1>6 DEF Types

\* LockFree keeps the types and the count of transactions.
LEMMA LockFreeTypes ==
  ASSUME Types, NEW p \in Procs, LockFree(p)
  PROVE  Types'
<1>. USE DEF LockFree, docVars, sqlVars, txVars, history
<1>1. ControlTypes'
  BY DEF Types, ControlTypes, Control, Holding
<1>2. FileTypes'
  BY DEF Types, FileTypes
<1>3. SqlTypes'
  BY DEF Types, SqlTypes
<1>4. TxTypes'
  BY DEF Types, TxTypes
<1>5. ClockTypes'
  BY DEF Types, ClockTypes
<1>6. Counted'
  BY DEF Types, Counted
<1>. QED BY <1>1, <1>2, <1>3, <1>4, <1>5, <1>6 DEF Types

\* LockHeld keeps the types and the count of transactions.
LEMMA LockHeldTypes ==
  ASSUME Types, NEW p \in Procs, LockHeld(p)
  PROVE  Types'
<1>. USE DEF LockHeld, docVars, sqlVars, txVars, history
<1>1. ControlTypes'
  BY DEF Types, ControlTypes
<1>2. FileTypes'
  BY DEF Types, FileTypes
<1>3. SqlTypes'
  BY DEF Types, SqlTypes
<1>4. TxTypes'
  <2>1. AttemptsLeft(p) \in 0 .. Attempts
    BY LimitsAssumption DEF Types, TxTypes, AttemptsLeft
  <2>. QED BY <2>1 DEF Types, TxTypes
<1>5. ClockTypes'
  BY DEF Types, ClockTypes
<1>6. Counted'
  BY DEF Types, Counted
<1>. QED BY <1>1, <1>2, <1>3, <1>4, <1>5, <1>6 DEF Types

\* NoLock keeps the types and the count of transactions.
LEMMA NoLockTypes ==
  ASSUME Types, NEW p \in Procs, NoLock(p)
  PROVE  Types'
<1>. USE DEF NoLock, docVars, sqlVars, txVars, history
<1>1. ControlTypes'
  <2>1. agenda[p] # <<>> /\ Fails(p) /\ Destroy(p)
    BY DEF Types, Counted
  <2>. QED BY <2>1, FailsTypes, DestroyTypes DEF Types, ControlTypes
<1>2. FileTypes'
  BY DEF Types, FileTypes
<1>3. SqlTypes'
  BY DEF Types, SqlTypes
<1>4. TxTypes'
  <2>1. Destroy(p) /\ transactions' = transactions
    OBVIOUS
  <2>. QED BY <2>1, DestroyTypes DEF Types, TxTypes
<1>5. ClockTypes'
  BY DEF Types, ClockTypes
<1>6. Counted'
  BY DEF Types, Counted, ControlTypes, TxTypes, Fails, Release
<1>. QED BY <1>1, <1>2, <1>3, <1>4, <1>5, <1>6 DEF Types

\* MakeLock keeps the types and the count of transactions.
LEMMA MakeLockTypes ==
  ASSUME Types, NEW p \in Procs, MakeLock(p)
  PROVE  Types'
<1>. USE DEF MakeLock, docVars, sqlVars, txVars, history
<1>1. ControlTypes'
  BY DEF Types, ControlTypes, Control, Holding
<1>2. FileTypes'
  BY DEF Types, FileTypes
<1>3. SqlTypes'
  BY DEF Types, SqlTypes
<1>4. TxTypes'
  <2>1. clock \in Nat
    BY DEF Types, ClockTypes
  <2>. QED BY <2>1 DEF Types, TxTypes
<1>5. ClockTypes'
  BY DEF Types, ClockTypes
<1>6. Counted'
  BY DEF Types, Counted
<1>. QED BY <1>1, <1>2, <1>3, <1>4, <1>5, <1>6 DEF Types

\* Enter keeps the types and the count of transactions.
LEMMA EnterTypes ==
  ASSUME Types, NEW p \in Procs, Enter(p)
  PROVE  Types'
<1>. USE DEF Enter, docVars, sqlVars, txVars, history
<1>1. ControlTypes'
  BY DEF Types, ControlTypes, NextGroup, Written
<1>2. FileTypes'
  BY DEF Types, FileTypes, NextGroup
<1>3. SqlTypes'
  BY DEF Types, SqlTypes, NextGroup, Written
<1>4. TxTypes'
  <2>1. pending' = [pending EXCEPT ![p] = @ \cup Changes(p, todo[p][1])]
    BY DEF Written
  <2>2. pending' \in [Procs -> SUBSET Change]
    BY <2>1, WorkTypes DEF NextGroup
  <2>. QED BY <2>2 DEF Types, TxTypes, NextGroup
<1>5. ClockTypes'
  BY DEF Types, ClockTypes, NextGroup
<1>6. Counted'
  BY DEF Types, Counted, NextGroup, Written
<1>. QED BY <1>1, <1>2, <1>3, <1>4, <1>5, <1>6 DEF Types

\* Close keeps the types and the count of transactions.
LEMMA CloseTypes ==
  ASSUME Types, NEW p \in Procs, Close(p)
  PROVE  Types'
<1>. USE DEF Close, docVars, sqlVars, txVars, history
<1>1. ControlTypes'
  BY DEF Types, ControlTypes, NextGroup, Written
<1>2. FileTypes'
  <2>. DEFINE g == todo[p][1]
  <2>1. g \in Groups
    BY WorkTypes DEF NextGroup
  <2>2. temp' = [temp EXCEPT ![g] = {}, ![Task] = Append(file[Task], g)]
    OBVIOUS
  <2>3. Append(file[Task], g) \in Seq(Groups)
    BY <2>1 DEF Types, FileTypes
  <2>4. UNCHANGED <<file, dir>>
    BY DEF NextGroup
  <2>. HIDE DEF g
  <2>5. temp' = [d \in Docs |-> temp'[d]]
    BY <2>2 DEF Types, FileTypes
  <2>6. \A h \in Groups : temp'[h] = None \/ temp'[h] \subseteq Procs
    BY <2>1, <2>2, DocNames DEF Types, FileTypes
  <2>7. temp'[Task] \in Seq(Groups)
    BY <2>2, <2>3, DocNames DEF Types, FileTypes
  <2>. QED BY <2>4, <2>5, <2>6, <2>7 DEF Types, FileTypes
<1>3. SqlTypes'
  BY DEF Types, SqlTypes, NextGroup, Written
<1>4. TxTypes'
  <2>. DEFINE g == todo[p][1]
  <2>1. g \in Groups /\ pending' \in [Procs -> SUBSET Change]
    BY WorkTypes DEF NextGroup, Written
  <2>2. journal[p] \o Deposits(g) \in Seq(Records)
    BY <2>1, RecordTypes, ConcatProperties DEF Types, TxTypes
  <2>3. journal' = [journal EXCEPT ![p] = @ \o Deposits(g)]
    OBVIOUS
  <2>4. journal' \in [Procs -> Seq(Records)]
    BY <2>2, <2>3 DEF Types, TxTypes
  <2>. QED BY <2>1, <2>4 DEF Types, TxTypes, NextGroup
<1>5. ClockTypes'
  BY DEF Types, ClockTypes, NextGroup
<1>6. Counted'
  BY DEF Types, Counted, NextGroup, Written
<1>. QED BY <1>1, <1>2, <1>3, <1>4, <1>5, <1>6 DEF Types

\* Abort keeps the types and the count of transactions.
LEMMA AbortTypes ==
  ASSUME Types, NEW p \in Procs, Abort(p)
  PROVE  Types'
<1>. USE DEF Abort, docVars, sqlVars, txVars, history
<1>1. ControlTypes'
  <2>1. todo' \in [Procs -> Seq(Groups)]
    <3>1. CASE Written(p, todo[p][1])
      BY <3>1, WorkTypes DEF Types, ControlTypes, NextGroup, Written
    <3>2. CASE Refused(p)
      BY <3>2 DEF Types, ControlTypes, Refused
    <3>. QED BY <3>1, <3>2
  <2>2. pc' \in [Procs -> Control]
    BY DEF Types, ControlTypes, Control, Holding, Written, Refused
  <2>3. agenda' = agenda
    BY DEF NextGroup
  <2>. QED BY <2>1, <2>2, <2>3 DEF Types, ControlTypes
<1>2. FileTypes'
  BY DEF Types, FileTypes, NextGroup
<1>3. SqlTypes'
  BY DEF Types, SqlTypes, NextGroup, Written, Refused
<1>4. TxTypes'
  <2>1. pending' \in [Procs -> SUBSET Change]
    <3>1. CASE Written(p, todo[p][1])
      BY <3>1, WorkTypes DEF Types, TxTypes, NextGroup, Written
    <3>2. CASE Refused(p)
      BY <3>2 DEF Types, TxTypes, Refused
    <3>. QED BY <3>1, <3>2
  <2>. QED BY <2>1 DEF Types, TxTypes, NextGroup
<1>5. ClockTypes'
  BY DEF Types, ClockTypes, NextGroup
<1>6. Counted'
  <2>1. /\ pc' = pc \/ pc' = [pc EXCEPT ![p] = "unwind"]
        /\ UNCHANGED <<agenda, transactions>>
    BY DEF NextGroup, Written, Refused
  <2>. QED BY <2>1 DEF NextGroup, Types, ControlTypes, Counted
<1>. QED BY <1>1, <1>2, <1>3, <1>4, <1>5, <1>6 DEF Types

\* Delete keeps the types and the count of transactions.
LEMMA DeleteTypes ==
  ASSUME Types, NEW p \in Procs, Delete(p)
  PROVE  Types'
<1>. USE DEF Delete, docVars, sqlVars, txVars, history
<1>1. ControlTypes'
  <2>1. todo' \in [Procs -> Seq(Groups)]
    <3>1. CASE Written(p, todo[p][1])
      BY <3>1, WorkTypes DEF Types, ControlTypes, NextGroup, Written
    <3>2. CASE Refused(p)
      BY <3>2 DEF Types, ControlTypes, Refused
    <3>. QED BY <3>1, <3>2
  <2>2. pc' \in [Procs -> Control]
    BY DEF Types, ControlTypes, Control, Holding, Written, Refused
  <2>3. agenda' = agenda
    BY DEF NextGroup
  <2>. QED BY <2>1, <2>2, <2>3 DEF Types, ControlTypes
<1>2. FileTypes'
  <2>. DEFINE l == Without(file[Task], todo[p][1])
  <2>1. l \in Seq(Groups)
    BY WithoutType DEF Types, FileTypes
  <2>2. temp' = [temp EXCEPT ![Task] = l] /\ UNCHANGED <<file, dir>>
    BY DEF NextGroup
  <2>. HIDE DEF l
  <2>3. temp' = [d \in Docs |-> temp'[d]]
    BY <2>2 DEF Types, FileTypes
  <2>4. \A h \in Groups : temp'[h] = None \/ temp'[h] \subseteq Procs
    BY <2>2, DocNames DEF Types, FileTypes
  <2>5. temp'[Task] \in Seq(Groups)
    BY <2>1, <2>2, DocNames DEF Types, FileTypes
  <2>. QED BY <2>2, <2>3, <2>4, <2>5 DEF Types, FileTypes
<1>3. SqlTypes'
  BY DEF Types, SqlTypes, NextGroup, Written, Refused
<1>4. TxTypes'
  <2>. DEFINE g == todo[p][1]
  <2>1. g \in Groups
    BY WorkTypes DEF NextGroup
  <2>2. pending' \in [Procs -> SUBSET Change]
    <3>1. CASE Written(p, todo[p][1])
      BY <3>1, WorkTypes DEF Types, TxTypes, NextGroup, Written
    <3>2. CASE Refused(p)
      BY <3>2 DEF Types, TxTypes, Refused
    <3>. QED BY <3>1, <3>2
  <2>3. /\ journal[p] \o <<Emplace(Task), Move(g)>> \in Seq(Records)
        /\ Append(journal[p], Emplace(Task)) \in Seq(Records)
    BY <2>1, RecordTypes, ConcatProperties DEF Types, TxTypes
  <2>4. \/ journal' = [journal EXCEPT ![p] = @ \o <<Emplace(Task), Move(g)>>]
        \/ journal' = [journal EXCEPT ![p] = Append(@, Emplace(Task))]
    OBVIOUS
  <2>5. journal' \in [Procs -> Seq(Records)]
    BY <2>3, <2>4 DEF Types, TxTypes
  <2>. QED BY <2>2, <2>5 DEF Types, TxTypes, NextGroup
<1>5. ClockTypes'
  BY DEF Types, ClockTypes, NextGroup
<1>6. Counted'
  <2>1. /\ pc' = pc \/ pc' = [pc EXCEPT ![p] = "unwind"]
        /\ UNCHANGED <<agenda, transactions>>
    BY DEF NextGroup, Written, Refused
  <2>. QED BY <2>1 DEF NextGroup, Types, ControlTypes, Counted
<1>. QED BY <1>1, <1>2, <1>3, <1>4, <1>5, <1>6 DEF Types

\* Tag keeps the types and the count of transactions.
LEMMA TagTypes ==
  ASSUME Types, Documented, NEW p \in Procs, Tag(p)
  PROVE  Types'
<1>. USE DEF Tag, docVars, sqlVars, txVars, history
<1>1. ControlTypes'
  BY DEF Types, ControlTypes, NextGroup
<1>2. FileTypes'
  <2>. DEFINE g == todo[p][1]
  <2>1. g \in Groups
    BY WorkTypes DEF NextGroup
  <2>2. temp' = [temp EXCEPT ![g] = Retagged(p, g)] /\ UNCHANGED <<file, dir>>
    BY DEF NextGroup
  <2>3. Retagged(p, g) \in SUBSET Procs
    <3>1. g \in View(p) /\ Kind(p) = "tag"
      BY DEF Legal
    <3>2. <<"insert", g>> \notin pending[p]
      BY <3>1 DEF Documented, OwnChanges, Changes
    <3>3. g \in rows
      BY <3>1, <3>2 DEF View
    <3>4. file[g] \subseteq Procs
      BY <2>1, <3>3 DEF Types, FileTypes, Documented, RowsDocumented
    <3>. QED BY <3>4 DEF Retagged
  <2>. QED BY <2>1, <2>2, <2>3, DocNames DEF Types, FileTypes
<1>3. SqlTypes'
  BY DEF Types, SqlTypes, NextGroup
<1>4. TxTypes'
  <2>. DEFINE g == todo[p][1]
  <2>1. g \in Groups
    BY WorkTypes DEF NextGroup
  <2>2. Append(journal[p], Emplace(g)) \in Seq(Records)
    BY <2>1, RecordTypes DEF Types, TxTypes
  <2>3. journal' = [journal EXCEPT ![p] = Append(@, Emplace(g))]
    OBVIOUS
  <2>. QED BY <2>2, <2>3 DEF Types, TxTypes, NextGroup
<1>5. ClockTypes'
  BY DEF Types, ClockTypes, NextGroup
<1>6. Counted'
  BY DEF Types, Counted, NextGroup
<1>. QED BY <1>1, <1>2, <1>3, <1>4, <1>5, <1>6 DEF Types

\* BodyThrows keeps the types and the count of transactions.
LEMMA BodyThrowsTypes ==
  ASSUME Types, NEW p \in Procs, BodyThrows(p)
  PROVE  Types'
<1>. USE DEF BodyThrows, docVars, sqlVars, txVars, history
<1>1. ControlTypes'
  BY DEF Types, ControlTypes, Control, Holding, Refused, NextGroup
<1>2. FileTypes'
  BY DEF Types, FileTypes, NextGroup
<1>3. SqlTypes'
  BY DEF Types, SqlTypes, NextGroup, Refused
<1>4. TxTypes'
  BY DEF Types, TxTypes, NextGroup, Refused
<1>5. ClockTypes'
  BY DEF Types, ClockTypes, NextGroup
<1>6. Counted'
  BY DEF Types, Counted, NextGroup, Refused
<1>. QED BY <1>1, <1>2, <1>3, <1>4, <1>5, <1>6 DEF Types

\* LockChecked keeps the types and the count of transactions.
LEMMA LockCheckedTypes ==
  ASSUME Types, NEW p \in Procs, LockChecked(p)
  PROVE  Types'
<1>. USE DEF LockChecked, docVars, sqlVars, txVars, history
<1>1. ControlTypes'
  BY DEF Types, ControlTypes, Control, Holding
<1>2. FileTypes'
  BY DEF Types, FileTypes
<1>3. SqlTypes'
  BY DEF Types, SqlTypes
<1>4. TxTypes'
  BY DEF Types, TxTypes
<1>5. ClockTypes'
  BY DEF Types, ClockTypes
<1>6. Counted'
  BY DEF Types, Counted
<1>. QED BY <1>1, <1>2, <1>3, <1>4, <1>5, <1>6 DEF Types

\* LockLost keeps the types and the count of transactions.
LEMMA LockLostTypes ==
  ASSUME Types, NEW p \in Procs, LockLost(p)
  PROVE  Types'
<1>. USE DEF LockLost, docVars, sqlVars, txVars, history
<1>1. ControlTypes'
  <2>1. agenda[p] # <<>> /\ Fails(p) /\ Destroy(p)
    BY DEF Types, Counted
  <2>. QED BY <2>1, FailsTypes, DestroyTypes DEF Types, ControlTypes
<1>2. FileTypes'
  <2>1. DropTemps(p)
    OBVIOUS
  <2>. QED BY <2>1, DropTempsTypes DEF Types, FileTypes
<1>3. SqlTypes'
  <2>1. Disconnect(p)
    OBVIOUS
  <2>. QED BY <2>1, DisconnectTypes DEF Types, SqlTypes
<1>4. TxTypes'
  <2>1. transactions[p] = 1 /\ Destroy(p)
    BY DEF Types, Counted
  <2>2. transactions' \in [Procs -> 0 .. 1]
    BY <2>1, ReleaseTypes DEF Types
  <2>. QED BY <2>1, <2>2, DestroyTypes DEF Types, TxTypes
<1>5. ClockTypes'
  BY DEF Types, ClockTypes
<1>6. Counted'
  BY DEF Types, Counted, ControlTypes, TxTypes, Fails, Release
<1>. QED BY <1>1, <1>2, <1>3, <1>4, <1>5, <1>6 DEF Types

\* Apply keeps the types and the count of transactions.
LEMMA ApplyTypes ==
  ASSUME Types, NEW p \in Procs, Apply(p)
  PROVE  Types'
<1>. USE DEF Apply, docVars, sqlVars, txVars, history
<1>1. ControlTypes'
  BY DEF Types, ControlTypes
<1>2. FileTypes'
  <2>. DEFINE r == journal[p][pos[p]]
  <2>1. CASE /\ r[1] = "emplace" /\ temp[r[2]] # None
             /\ file' = [file EXCEPT ![r[2]] = temp[r[2]]]
             /\ temp' = [temp EXCEPT ![r[2]] = None]
             /\ UNCHANGED dir
    BY <2>1, DocNames DEF Types, FileTypes
  <2>2. CASE /\ r[1] = "move" /\ dir[r[2]] = "output"
             /\ dir' = [dir EXCEPT ![r[2]] = "trash"]
             /\ UNCHANGED <<file, temp>>
    BY <2>2 DEF Types, FileTypes
  <2>. QED BY <2>1, <2>2
<1>3. SqlTypes'
  BY DEF Types, SqlTypes
<1>4. TxTypes'
  BY DEF Types, TxTypes
<1>5. ClockTypes'
  BY DEF Types, ClockTypes
<1>6. Counted'
  BY DEF Types, Counted
<1>. QED BY <1>1, <1>2, <1>3, <1>4, <1>5, <1>6 DEF Types

\* ApplyThrows keeps the types and the count of transactions.
LEMMA ApplyThrowsTypes ==
  ASSUME Types, NEW p \in Procs, ApplyThrows(p)
  PROVE  Types'
<1>. USE DEF ApplyThrows, docVars, sqlVars, txVars, history
<1>1. ControlTypes'
  BY DEF Types, ControlTypes, Control, Holding
<1>2. FileTypes'
  BY DEF Types, FileTypes
<1>3. SqlTypes'
  BY DEF Types, SqlTypes
<1>4. TxTypes'
  BY DEF Types, TxTypes
<1>5. ClockTypes'
  BY DEF Types, ClockTypes
<1>6. Counted'
  BY DEF Types, Counted
<1>. QED BY <1>1, <1>2, <1>3, <1>4, <1>5, <1>6 DEF Types

\* Applied keeps the types and the count of transactions.
LEMMA AppliedTypes ==
  ASSUME Types, NEW p \in Procs, Applied(p)
  PROVE  Types'
<1>. USE DEF Applied, docVars, sqlVars, txVars, history
<1>1. ControlTypes'
  BY DEF Types, ControlTypes, Control, Holding
<1>2. FileTypes'
  BY DEF Types, FileTypes
<1>3. SqlTypes'
  BY DEF Types, SqlTypes
<1>4. TxTypes'
  BY DEF Types, TxTypes
<1>5. ClockTypes'
  BY DEF Types, ClockTypes
<1>6. Counted'
  BY DEF Types, Counted
<1>. QED BY <1>1, <1>2, <1>3, <1>4, <1>5, <1>6 DEF Types

\* CommitSql keeps the types and the count of transactions.
LEMMA CommitSqlTypes ==
  ASSUME Types, NEW p \in Procs, CommitSql(p)
  PROVE  Types'
<1>. USE DEF CommitSql, docVars, sqlVars, txVars, history
<1>1. ControlTypes'
  BY DEF Types, ControlTypes, Control, Holding
<1>2. FileTypes'
  BY DEF Types, FileTypes
<1>3. SqlTypes'
  <2>1. Disconnect(p)
    OBVIOUS
  <2>2. \A c : With(c, p) \subseteq Groups
    BY DEF With
  <2>3. rows' \subseteq Groups /\ reserved' \subseteq Groups /\ registered' \subseteq Groups
    BY <2>2 DEF Types, SqlTypes
  <2>. QED BY <2>1, <2>3, DisconnectTypes DEF Types, SqlTypes
<1>4. TxTypes'
  <2>1. transactions[p] = 1
    BY DEF Types, Counted
  <2>2. transactions' \in [Procs -> 0 .. 1]
    BY <2>1, ReleaseTypes DEF Types
  <2>. QED BY <2>2 DEF Types, TxTypes
<1>5. ClockTypes'
  BY DEF Types, ClockTypes
<1>6. Counted'
  BY DEF Types, Counted, ControlTypes
<1>. QED BY <1>1, <1>2, <1>3, <1>4, <1>5, <1>6 DEF Types

\* CommitBusy keeps the types and the count of transactions.
LEMMA CommitBusyTypes ==
  ASSUME Types, NEW p \in Procs, CommitBusy(p)
  PROVE  Types'
<1>. USE DEF CommitBusy, docVars, sqlVars, txVars, history
<1>1. ControlTypes'
  BY DEF Types, ControlTypes, Control, Holding
<1>2. FileTypes'
  BY DEF Types, FileTypes
<1>3. SqlTypes'
  BY DEF Types, SqlTypes
<1>4. TxTypes'
  BY DEF Types, TxTypes
<1>5. ClockTypes'
  BY DEF Types, ClockTypes
<1>6. Counted'
  BY DEF Types, Counted
<1>. QED BY <1>1, <1>2, <1>3, <1>4, <1>5, <1>6 DEF Types

\* Unlock keeps the types and the count of transactions.
LEMMA UnlockTypes ==
  ASSUME Types, NEW p \in Procs, Unlock(p)
  PROVE  Types'
<1>. USE DEF Unlock, docVars, sqlVars, txVars, history
<1>1. ControlTypes'
  <2>1. agenda[p] # <<>> /\ Destroy(p)
    BY DEF Types, Counted
  <2>2. agenda' \in [Procs -> Seq(Asked)]
    BY <2>1, CurrentType DEF Types, ControlTypes
  <2>3. pc' \in [Procs -> Control]
    BY DEF Types, ControlTypes, Control
  <2>. QED BY <2>1, <2>2, <2>3, DestroyTypes DEF Types, ControlTypes
<1>2. FileTypes'
  BY DEF Types, FileTypes
<1>3. SqlTypes'
  BY DEF Types, SqlTypes
<1>4. TxTypes'
  <2>1. Destroy(p) /\ transactions' = transactions
    OBVIOUS
  <2>. QED BY <2>1, DestroyTypes DEF Types, TxTypes
<1>5. ClockTypes'
  BY DEF Types, ClockTypes
<1>6. Counted'
  BY DEF Types, Counted, ControlTypes
<1>. QED BY <1>1, <1>2, <1>3, <1>4, <1>5, <1>6 DEF Types

\* Unwind keeps the types and the count of transactions.
LEMMA UnwindTypes ==
  ASSUME Types, NEW p \in Procs, Unwind(p)
  PROVE  Types'
<1>. USE DEF Unwind, docVars, sqlVars, txVars, history
<1>1. ControlTypes'
  <2>1. agenda[p] # <<>> /\ Fails(p) /\ Destroy(p)
    BY DEF Types, Counted
  <2>. QED BY <2>1, FailsTypes, DestroyTypes DEF Types, ControlTypes
<1>2. FileTypes'
  <2>1. DropTemps(p)
    OBVIOUS
  <2>. QED BY <2>1, DropTempsTypes DEF Types, FileTypes
<1>3. SqlTypes'
  <2>1. Disconnect(p)
    OBVIOUS
  <2>. QED BY <2>1, DisconnectTypes DEF Types, SqlTypes
<1>4. TxTypes'
  <2>1. transactions[p] = 1 /\ Destroy(p)
    BY DEF Types, Counted
  <2>2. transactions' \in [Procs -> 0 .. 1]
    BY <2>1, ReleaseTypes DEF Types
  <2>. QED BY <2>1, <2>2, DestroyTypes DEF Types, TxTypes
<1>5. ClockTypes'
  <2>1. AfterRollback(p) \in Nat \cup {None} /\ Half(p) \in BOOLEAN
    BY DEF Types, ClockTypes, AfterRollback, Half
  <2>2. torn' \in BOOLEAN
    BY <2>1 DEF Types, ClockTypes
  <2>. QED BY <2>1, <2>2 DEF Types, ClockTypes
<1>6. Counted'
  BY DEF Types, Counted, ControlTypes, TxTypes, Fails, Release
<1>. QED BY <1>1, <1>2, <1>3, <1>4, <1>5, <1>6 DEF Types

\* Crash keeps the types and the count of transactions.
LEMMA CrashTypes ==
  ASSUME Types, NEW p \in Procs, Crash(p)
  PROVE  Types'
<1>. USE DEF Crash, docVars, sqlVars, txVars, history
<1>1. ControlTypes'
  <2>1. <<>> \in Seq(Asked)
    OBVIOUS
  <2>2. pc' \in [Procs -> Control] /\ agenda' \in [Procs -> Seq(Asked)]
    BY <2>1 DEF Types, ControlTypes, Control
  <2>3. Destroy(p)
    OBVIOUS
  <2>. QED BY <2>2, <2>3, DestroyTypes DEF Types, ControlTypes
<1>2. FileTypes'
  BY DEF Types, FileTypes
<1>3. SqlTypes'
  <2>1. Disconnect(p)
    OBVIOUS
  <2>. QED BY <2>1, DisconnectTypes DEF Types, SqlTypes
<1>4. TxTypes'
  <2>1. Destroy(p) /\ transactions' = transactions
    OBVIOUS
  <2>. QED BY <2>1, DestroyTypes DEF Types, TxTypes
<1>5. ClockTypes'
  <2>1. Half(p) \in BOOLEAN
    BY DEF Half
  <2>2. torn' \in BOOLEAN
    BY DEF Types, ClockTypes
  <2>3. crashes' \in 0 .. MaxCrashes
    BY LimitsAssumption DEF Types, ClockTypes
  <2>. QED BY <2>2, <2>3 DEF Types, ClockTypes
<1>6. Counted'
  BY DEF Types, Counted, ControlTypes
<1>. QED BY <1>1, <1>2, <1>3, <1>4, <1>5, <1>6 DEF Types

\* Ask keeps the types and the count of transactions.
LEMMA AskTypes ==
  ASSUME Types, NEW p \in Procs, NEW c \in Commands, Ask(p, c)
  PROVE  Types'
<1>. USE DEF Ask, docVars, sqlVars, txVars, history
<1>1. c \in Asked
  BY CommandsAssumption DEF Asked
<1>2. <<c>> \in Seq(Asked) /\ <<c>> # <<>>
  BY <1>1
<1>3. agenda' \in [Procs -> Seq(Asked)]
  BY <1>2 DEF Types, ControlTypes
<1>4. ControlTypes' /\ Counted'
  BY <1>2, <1>3 DEF Types, ControlTypes, Counted
<1>5. FileTypes' /\ SqlTypes' /\ TxTypes'
  BY DEF Types, FileTypes, SqlTypes, TxTypes
<1>6. ClockTypes'
  BY LimitsAssumption DEF Types, ClockTypes
<1>. QED BY <1>4, <1>5, <1>6 DEF Types

\* NewTask keeps the types and the count of transactions.
LEMMA NewTaskTypes ==
  ASSUME Types, NEW p \in Procs, NEW g \in Groups,
         NEW end \in {"close", "abort"}, NewTask(p, g, end)
  PROVE  Types'
<1>. USE DEF NewTask, docVars, sqlVars, txVars, history
<1>1. On("reserve", g) \in Asked /\ On("register", g) \in Asked /\ On(end, g) \in Asked
  BY OnType DEF TaskKinds, Kinds
<1>. DEFINE a == <<On("reserve", g), On("register", g), On(end, g)>>
<1>2. a \in Seq(Asked) /\ a # <<>>
  BY <1>1
<1>3. agenda' = [agenda EXCEPT ![p] = a]
  OBVIOUS
<1>. HIDE DEF a
<1>4. ControlTypes' /\ Counted'
  BY <1>2, <1>3 DEF Types, ControlTypes, Counted
<1>5. FileTypes' /\ SqlTypes' /\ TxTypes'
  BY DEF Types, FileTypes, SqlTypes, TxTypes
<1>6. ClockTypes'
  BY LimitsAssumption DEF Types, ClockTypes
<1>. QED BY <1>4, <1>5, <1>6 DEF Types

\* Recover keeps the types and the count of transactions.
LEMMA RecoverTypes ==
  ASSUME Types, NEW p \in Procs,
         NEW list \in [1 .. Cardinality(registered) -> registered],
         Recover(p, list)
  PROVE  Types'
<1>. USE DEF Recover, docVars, sqlVars, txVars, history
<1>1. IsFiniteSet(registered) /\ Cardinality(registered) \in Nat
  BY GroupsAssumption, FS_Subset, FS_CardinalityType DEF Types, SqlTypes
<1>. DEFINE a == [i \in DOMAIN list |-> On("recover", list[i])]
<1>2. \A i \in DOMAIN list : On("recover", list[i]) \in Asked
  BY OnType DEF TaskKinds, Kinds, Types, SqlTypes
<1>3. a \in Seq(Asked)
  BY <1>1, <1>2
<1>4. agenda' = [agenda EXCEPT ![p] = a] /\ pc[p] = "idle"
  OBVIOUS
<1>. HIDE DEF a
<1>5. ControlTypes' /\ Counted'
  BY <1>3, <1>4 DEF Types, ControlTypes, Counted
<1>6. FileTypes' /\ SqlTypes' /\ TxTypes'
  BY DEF Types, FileTypes, SqlTypes, TxTypes
<1>7. ClockTypes'
  BY LimitsAssumption DEF Types, ClockTypes
<1>. QED BY <1>5, <1>6, <1>7 DEF Types

\* Tick keeps the types and the count of transactions.
LEMMA TickTypes ==
  ASSUME Types, Tick
  PROVE  Types'
<1>. USE DEF Tick, docVars, sqlVars, txVars, history
<1>1. ClockTypes'
  BY DEF Types, ClockTypes
<1>2. ControlTypes' /\ FileTypes' /\ SqlTypes' /\ TxTypes' /\ Counted'
  BY DEF Types, ControlTypes, FileTypes, SqlTypes, TxTypes, Counted
<1>. QED BY <1>1, <1>2 DEF Types

\* Stutter keeps the types and the count of transactions.
LEMMA StutterTypes ==
  ASSUME Types, UNCHANGED vars
  PROVE  Types'
<1>. USE DEF vars, docVars, sqlVars, txVars, history
<1>1. ControlTypes' /\ FileTypes' /\ SqlTypes'
  BY DEF Types, ControlTypes, FileTypes, SqlTypes
<1>2. TxTypes' /\ ClockTypes' /\ Counted'
  BY DEF Types, TxTypes, ClockTypes, Counted
<1>. QED BY <1>1, <1>2 DEF Types

\* The initial state has the types, with no transaction counted.
LEMMA InitTypes == Init => Types
<1>. SUFFICES ASSUME Init PROVE Types
  OBVIOUS
<1>. USE DEF Init
<1>1. ControlTypes /\ Counted
  BY DEF ControlTypes, Control, Counted
<1>2. FileTypes
  <2>1. IsFiniteSet(Stored) /\ Cardinality(Stored) \in Nat
    BY GroupsAssumption, FS_Subset, FS_CardinalityType
  <2>. DEFINE n == Cardinality(Stored)
              Lists(s) == \A g \in Stored : \E i \in DOMAIN s : s[i] = g
              l == CHOOSE s \in [1 .. n -> Stored] : Lists(s)
  <2>2. PICK s \in Bijection(1 .. n, Stored) : TRUE
    BY <2>1, FS_CardinalityType DEF ExistsBijection
  <2>3. s \in [1 .. n -> Stored] /\ Lists(s)
    BY <2>2 DEF Bijection, Injection, Surjection
  <2>4. l \in [1 .. n -> Stored]
    BY <2>3
  <2>5. file[Task] = l
    BY DocNames
  <2>6. file[Task] \in Seq(Groups)
    <3>. HIDE DEF l
    <3>1. l \in [1 .. n -> Groups]
      BY <2>4, GroupsAssumption
    <3>2. n \in Nat
      BY <2>1
    <3>. HIDE DEF n
    <3>3. l \in Seq(Groups)
      BY <3>1, <3>2
    <3>. QED BY <3>3, <2>5
  <2>7. \A g \in Groups : file[g] = None \/ file[g] \subseteq Procs
    BY DocNames
  <2>8. /\ file = [d \in Docs |-> file[d]] /\ temp = [d \in Docs |-> temp[d]]
        /\ \A g \in Groups : temp[g] = None
        /\ temp[Task] = None
    BY DocNames
  <2>. QED BY <2>6, <2>7, <2>8 DEF FileTypes
<1>3. SqlTypes
  BY GroupsAssumption DEF SqlTypes
<1>4. TxTypes
  BY LimitsAssumption DEF TxTypes
<1>5. ClockTypes
  <2>1. /\ lockfile \in Nat \cup {None} /\ clock \in Nat
        /\ commands \in 0 .. MaxCommands /\ crashes \in 0 .. MaxCrashes
    BY LimitsAssumption
  <2>2. /\ intruded \in BOOLEAN /\ torn \in BOOLEAN
        /\ timedOut \subseteq Procs /\ refused \subseteq Procs
    OBVIOUS
  <2>. QED BY <2>1, <2>2 DEF ClockTypes
<1>. QED BY <1>1, <1>2, <1>3, <1>4, <1>5 DEF Types

\* No step leaves the types, or counts a transaction it should not.
LEMMA StepTypes ==
  ASSUME Types, Documented, [Next]_vars
  PROVE  Types'
<1>1. ASSUME NEW p \in Procs, Step(p) PROVE Types'
  BY <1>1, StartTypes, NoContainerTypes, UnderwayTypes, LockFreeTypes,
     LockHeldTypes, NoLockTypes, MakeLockTypes, EnterTypes, CloseTypes,
     AbortTypes, DeleteTypes, TagTypes, BodyThrowsTypes, LockCheckedTypes,
     LockLostTypes, ApplyTypes, ApplyThrowsTypes, AppliedTypes, CommitSqlTypes,
     CommitBusyTypes, UnlockTypes, UnwindTypes DEF Step
<1>2. ASSUME NEW p \in Procs, User(p) PROVE Types'
  BY <1>2, AskTypes, NewTaskTypes, RecoverTypes DEF User
<1>. QED BY <1>1, <1>2, CrashTypes, TickTypes, StutterTypes DEF Next, Rest

-----------------------------------------------------------------------------
(* What is in the database has its document                                *)

\* The body of a transaction adds changes of its own command.
LEMMA OwnChangesKept ==
  ASSUME Types, OwnChanges, NEW p \in Procs, pc[p] = "body", todo[p] # <<>>,
         agenda' = agenda,
         pc' = pc \/ pc' = [pc EXCEPT ![p] = "unwind"],
         \/ pending' = pending
         \/ pending' = [pending EXCEPT ![p] = @ \cup Changes(p, todo[p][1])]
  PROVE  OwnChanges'
<1>1. \A q \in Procs, g \in Groups : Changes(q, g)' = Changes(q, g)
  BY DEF Changes, Kind, Current
<1>2. todo[p][1] \in Groups
  BY WorkTypes
<1>3. \A q \in Procs : Inside(q) => Inside(q)'
  BY DEF Types, ControlTypes, Inside, Holding
<1>4. Inside(p)
  BY DEF Inside, Holding
<1>5. \A q \in Procs : \A c \in pending'[q] :
        c \in pending[q] \/ (q = p /\ c \in Changes(p, todo[p][1]))
  BY DEF Types, TxTypes
<1>. QED BY <1>1, <1>2, <1>3, <1>4, <1>5 DEF OwnChanges

\* The body adds records to its journal, and inserts rows whose documents are
\* among them.
LEMMA DocumentFirstKept ==
  ASSUME Types, DocumentFirst, NEW p \in Procs, pc[p] = "body",
         UNCHANGED <<file, pos>>,
         pc' = pc \/ pc' = [pc EXCEPT ![p] = "unwind"],
         journal' \in [Procs -> Seq(Records)],
         \A q \in Procs \ {p} : journal'[q] = journal[q],
         Len(journal[p]) <= Len(journal'[p]),
         \A i \in DOMAIN journal[p] : journal'[p][i] = journal[p][i],
         \A q \in Procs, g \in Groups :
           <<"insert", g>> \in pending'[q] =>
             \/ <<"insert", g>> \in pending[q]
             \/ \E i \in DOMAIN journal'[q] : journal'[q][i] = Emplace(g)
  PROVE  DocumentFirst'
<1>1. journal[p] \in Seq(Records) /\ journal'[p] \in Seq(Records) /\ pos[p] = 1
  BY DEF Types, TxTypes, DocumentFirst
<1>2. DOMAIN journal[p] \subseteq DOMAIN journal'[p]
  BY <1>1
<1>3. ASSUME NEW q \in Procs, NEW g \in Groups, <<"insert", g>> \in pending'[q]
      PROVE  \E i \in DOMAIN journal'[q] : journal'[q][i] = Emplace(g)
  BY <1>2, <1>3 DEF DocumentFirst
<1>4. \A i \in DOMAIN journal'[p] : ~(i < pos'[p])
  BY <1>1
<1>5. ASSUME NEW q \in Procs, NEW i \in DOMAIN journal'[q], i < pos'[q],
             NEW d \in Docs, journal'[q][i] = Emplace(d)
      PROVE  file'[d] # None
  <2>1. q # p /\ journal'[q] = journal[q]
    BY <1>4, <1>5
  <2>. QED BY <1>5, <2>1 DEF DocumentFirst
<1>6. \A q \in Procs : pc'[q] = "sql" => pos'[q] > Len(journal'[q])
  BY DEF Types, ControlTypes, DocumentFirst
<1>7. \A q \in Procs :
        pc'[q] \notin {"journal", "sql", "unlock", "unwind"} => pos'[q] = 1
  BY DEF Types, ControlTypes, DocumentFirst
<1>. QED BY <1>3, <1>5, <1>6, <1>7 DEF DocumentFirst

\* Records are added at the end.
LEMMA JournalGrows ==
  ASSUME Types, NEW p \in Procs, NEW add \in Seq(Records),
         journal' = [journal EXCEPT ![p] = @ \o add]
  PROVE  /\ journal' \in [Procs -> Seq(Records)]
         /\ \A q \in Procs \ {p} : journal'[q] = journal[q]
         /\ Len(journal[p]) <= Len(journal'[p])
         /\ \A i \in DOMAIN journal[p] : journal'[p][i] = journal[p][i]
         /\ \A j \in DOMAIN add : \E i \in DOMAIN journal'[p] : journal'[p][i] = add[j]
<1>1. journal \in [Procs -> Seq(Records)] /\ journal[p] \in Seq(Records)
  BY DEF Types, TxTypes
<1>2. journal'[p] = journal[p] \o add /\ \A q \in Procs \ {p} : journal'[q] = journal[q]
  BY <1>1
<1>. DEFINE s == journal[p]  t == s \o add
<1>3. /\ t \in Seq(Records) /\ Len(t) = Len(s) + Len(add)
      /\ \A i \in 1 .. Len(s) + Len(add) :
           t[i] = IF i <= Len(s) THEN s[i] ELSE add[i - Len(s)]
  BY <1>1, ConcatProperties
<1>4. journal' \in [Procs -> Seq(Records)]
  BY <1>1, <1>3
<1>. HIDE DEF s, t
<1>5. Len(s) \in Nat /\ Len(add) \in Nat /\ DOMAIN t = 1 .. Len(t)
      /\ DOMAIN s = 1 .. Len(s) /\ DOMAIN add = 1 .. Len(add)
  BY <1>1, <1>3 DEF s
<1>6. Len(s) <= Len(t) /\ \A i \in DOMAIN s : t[i] = s[i]
  BY <1>3, <1>5
<1>7. ASSUME NEW j \in DOMAIN add PROVE \E i \in DOMAIN t : t[i] = add[j]
  <2>1. j + Len(s) \in DOMAIN t /\ ~(j + Len(s) <= Len(s)) /\ (j + Len(s)) - Len(s) = j
    BY <1>3, <1>5
  <2>2. t[j + Len(s)] = add[j]
    BY <1>3, <1>5, <2>1
  <2>. QED BY <2>1, <2>2
<1>. QED BY <1>2, <1>4, <1>6, <1>7 DEF s, t

\* Start keeps a document behind every row, now or in the journal.
LEMMA StartDocumented ==
  ASSUME Types, Documented, NEW p \in Procs, Start(p)
  PROVE  Documented'
<1>. USE DEF Start, docVars, sqlVars, txVars, history
<1>1. RowsDocumented'
  BY DEF Documented, RowsDocumented
<1>2. OwnChanges'
  BY DEF Documented, OwnChanges, Inside, Holding, Changes, Kind, Current
<1>3. DocumentFirst'
  BY DEF Documented, DocumentFirst
<1>. QED BY <1>1, <1>2, <1>3 DEF Documented

\* NoContainer keeps a document behind every row, now or in the journal.
LEMMA NoContainerDocumented ==
  ASSUME Types, Documented, NEW p \in Procs, NoContainer(p)
  PROVE  Documented'
<1>. USE DEF NoContainer, docVars, sqlVars, txVars, history
<1>1. RowsDocumented'
  BY DEF Documented, RowsDocumented
<1>2. OwnChanges'
  BY DEF Types, ControlTypes, TxTypes, Documented, OwnChanges, Inside, Holding, Changes, Kind, Current, Destroy, Fails
<1>3. DocumentFirst'
  BY DEF Types, ControlTypes, TxTypes, Documented, DocumentFirst, Destroy, Fails
<1>. QED BY <1>1, <1>2, <1>3 DEF Documented

\* Underway keeps a document behind every row, now or in the journal.
LEMMA UnderwayDocumented ==
  ASSUME Types, Documented, NEW p \in Procs, Underway(p)
  PROVE  Documented'
<1>. USE DEF Underway, docVars, sqlVars, txVars, history
<1>1. RowsDocumented'
  BY DEF Documented, RowsDocumented
<1>2. OwnChanges'
  BY DEF Types, ControlTypes, TxTypes, Documented, OwnChanges, Inside, Holding, Changes, Kind, Current, Destroy, Fails
<1>3. DocumentFirst'
  BY DEF Types, ControlTypes, TxTypes, Documented, DocumentFirst, Destroy, Fails
<1>. QED BY <1>1, <1>2, <1>3 DEF Documented

\* LockFree keeps a document behind every row, now or in the journal.
LEMMA LockFreeDocumented ==
  ASSUME Types, Documented, NEW p \in Procs, LockFree(p)
  PROVE  Documented'
<1>. USE DEF LockFree, docVars, sqlVars, txVars, history
<1>1. RowsDocumented'
  BY DEF Documented, RowsDocumented
<1>2. OwnChanges'
  BY DEF Documented, OwnChanges, Inside, Holding, Changes, Kind, Current
<1>3. DocumentFirst'
  BY DEF Documented, DocumentFirst
<1>. QED BY <1>1, <1>2, <1>3 DEF Documented

\* LockHeld keeps a document behind every row, now or in the journal.
LEMMA LockHeldDocumented ==
  ASSUME Types, Documented, NEW p \in Procs, LockHeld(p)
  PROVE  Documented'
<1>. USE DEF LockHeld, docVars, sqlVars, txVars, history
<1>1. RowsDocumented'
  BY DEF Documented, RowsDocumented
<1>2. OwnChanges'
  BY DEF Documented, OwnChanges, Inside, Holding, Changes, Kind, Current
<1>3. DocumentFirst'
  BY DEF Documented, DocumentFirst
<1>. QED BY <1>1, <1>2, <1>3 DEF Documented

\* NoLock keeps a document behind every row, now or in the journal.
LEMMA NoLockDocumented ==
  ASSUME Types, Documented, NEW p \in Procs, NoLock(p)
  PROVE  Documented'
<1>. USE DEF NoLock, docVars, sqlVars, txVars, history
<1>1. RowsDocumented'
  BY DEF Documented, RowsDocumented
<1>2. OwnChanges'
  BY DEF Types, ControlTypes, TxTypes, Documented, OwnChanges, Inside, Holding, Changes, Kind, Current, Destroy, Fails
<1>3. DocumentFirst'
  BY DEF Types, ControlTypes, TxTypes, Documented, DocumentFirst, Destroy, Fails
<1>. QED BY <1>1, <1>2, <1>3 DEF Documented

\* MakeLock keeps a document behind every row, now or in the journal.
LEMMA MakeLockDocumented ==
  ASSUME Types, Documented, NEW p \in Procs, MakeLock(p)
  PROVE  Documented'
<1>. USE DEF MakeLock, docVars, sqlVars, txVars, history
<1>1. RowsDocumented'
  BY DEF Documented, RowsDocumented
<1>2. OwnChanges'
  BY DEF Documented, OwnChanges, Inside, Holding, Changes, Kind, Current
<1>3. DocumentFirst'
  BY DEF Documented, DocumentFirst
<1>. QED BY <1>1, <1>2, <1>3 DEF Documented

\* Enter keeps a document behind every row, now or in the journal.
LEMMA EnterDocumented ==
  ASSUME Types, Documented, NEW p \in Procs, Enter(p)
  PROVE  Documented'
<1>. USE DEF Enter, docVars, sqlVars, txVars, history
<1>1. RowsDocumented'
  BY DEF Documented, RowsDocumented, NextGroup
<1>2. OwnChanges'
  <2>1. agenda' = agenda /\ pc[p] = "body" /\ todo[p] # <<>>
    BY DEF NextGroup
  <2>2. /\ pc' = pc \/ pc' = [pc EXCEPT ![p] = "unwind"]
        /\ \/ pending' = pending
           \/ pending' = [pending EXCEPT ![p] = @ \cup Changes(p, todo[p][1])]
    BY DEF Written, Refused
  <2>. QED BY <2>1, <2>2, OwnChangesKept DEF Documented
<1>3. DocumentFirst'
  <2>. DEFINE g == todo[p][1]
  <2>1. /\ UNCHANGED <<file, pos, journal, pc>> /\ pc[p] = "body"
        /\ journal' \in [Procs -> Seq(Records)] /\ journal[p] \in Seq(Records)
    BY DEF NextGroup, Written, Types, TxTypes
  <2>2. \A q \in Procs, h \in Groups :
          <<"insert", h>> \in pending'[q] => <<"insert", h>> \in pending[q]
    BY DEF Written, Changes, Types, TxTypes
  <2>3. Len(journal[p]) <= Len(journal'[p])
    BY <2>1
  <2>. QED BY <2>1, <2>2, <2>3, DocumentFirstKept DEF Documented
<1>. QED BY <1>1, <1>2, <1>3 DEF Documented

\* Close keeps a document behind every row, now or in the journal.
LEMMA CloseDocumented ==
  ASSUME Types, Documented, NEW p \in Procs, Close(p)
  PROVE  Documented'
<1>. USE DEF Close, docVars, sqlVars, txVars, history
<1>1. RowsDocumented'
  BY DEF Documented, RowsDocumented, NextGroup
<1>2. OwnChanges'
  BY DEF Types, ControlTypes, TxTypes, Documented, OwnChanges, Inside, Holding, Changes, Kind, Current, NextGroup, Written, Refused
<1>3. DocumentFirst'
  <2>. DEFINE g == todo[p][1]
  <2>1. UNCHANGED <<file, pos, pc>> /\ pc[p] = "body"
    BY DEF NextGroup, Written
  <2>2. PICK add \in Seq(Records) :
          /\ journal' = [journal EXCEPT ![p] = @ \o add]
          /\ 1 \in DOMAIN add /\ add[1] = Emplace(g)
    <3>1. g \in Groups
      BY WorkTypes DEF NextGroup
    <3>2. Deposits(g) \in Seq(Records)
      BY <3>1, RecordTypes
    <3>3. 1 \in DOMAIN Deposits(g) /\ Deposits(g)[1] = Emplace(g)
      BY DEF Deposits
    <3>. QED BY <3>2, <3>3
  <2>3. \E i \in DOMAIN journal'[p] : journal'[p][i] = Emplace(g)
    <3>1. \A j \in DOMAIN add :
            \E i \in DOMAIN journal'[p] : journal'[p][i] = add[j]
      BY <2>2, JournalGrows
    <3>. QED BY <2>2, <3>1
  <2>4. \A q \in Procs, h \in Groups :
          <<"insert", h>> \in pending'[q] =>
            <<"insert", h>> \in pending[q] \/ (q = p /\ h = g)
    BY DEF Written, Changes, Types, TxTypes
  <2>5. /\ journal' \in [Procs -> Seq(Records)]
        /\ \A q \in Procs \ {p} : journal'[q] = journal[q]
        /\ Len(journal[p]) <= Len(journal'[p])
        /\ \A i \in DOMAIN journal[p] : journal'[p][i] = journal[p][i]
    BY <2>2, JournalGrows
  <2>6. \A q \in Procs, h \in Groups :
          <<"insert", h>> \in pending'[q] =>
            \/ <<"insert", h>> \in pending[q]
            \/ \E i \in DOMAIN journal'[q] : journal'[q][i] = Emplace(h)
    BY <2>3, <2>4
  <2>. QED BY <2>1, <2>5, <2>6, DocumentFirstKept DEF Documented
<1>. QED BY <1>1, <1>2, <1>3 DEF Documented

\* Abort keeps a document behind every row, now or in the journal.
LEMMA AbortDocumented ==
  ASSUME Types, Documented, NEW p \in Procs, Abort(p)
  PROVE  Documented'
<1>. USE DEF Abort, docVars, sqlVars, txVars, history
<1>1. RowsDocumented'
  BY DEF Documented, RowsDocumented, NextGroup
<1>2. OwnChanges'
  <2>1. agenda' = agenda /\ pc[p] = "body" /\ todo[p] # <<>>
    BY DEF NextGroup
  <2>2. /\ pc' = pc \/ pc' = [pc EXCEPT ![p] = "unwind"]
        /\ \/ pending' = pending
           \/ pending' = [pending EXCEPT ![p] = @ \cup Changes(p, todo[p][1])]
    BY DEF Written, Refused
  <2>. QED BY <2>1, <2>2, OwnChangesKept DEF Documented
<1>3. DocumentFirst'
  <2>. DEFINE g == todo[p][1]
  <2>1. /\ UNCHANGED <<file, pos, journal>> /\ pc[p] = "body"
        /\ pc' = pc \/ pc' = [pc EXCEPT ![p] = "unwind"]
        /\ journal' \in [Procs -> Seq(Records)] /\ journal[p] \in Seq(Records)
    BY DEF NextGroup, Written, Refused, Types, TxTypes
  <2>2. \A q \in Procs, h \in Groups :
          <<"insert", h>> \in pending'[q] => <<"insert", h>> \in pending[q]
    <3>1. CASE Written(p, todo[p][1])
      BY <3>1 DEF Written, Changes, Types, TxTypes
    <3>2. CASE Refused(p)
      BY <3>2 DEF Refused
    <3>. QED BY <3>1, <3>2
  <2>3. Len(journal[p]) <= Len(journal'[p])
    BY <2>1
  <2>. QED BY <2>1, <2>2, <2>3, DocumentFirstKept DEF Documented
<1>. QED BY <1>1, <1>2, <1>3 DEF Documented

\* Delete keeps a document behind every row, now or in the journal.
LEMMA DeleteDocumented ==
  ASSUME Types, Documented, NEW p \in Procs, Delete(p)
  PROVE  Documented'
<1>. USE DEF Delete, docVars, sqlVars, txVars, history
<1>1. RowsDocumented'
  BY DEF Documented, RowsDocumented, NextGroup
<1>2. OwnChanges'
  <2>1. agenda' = agenda /\ pc[p] = "body" /\ todo[p] # <<>>
    BY DEF NextGroup
  <2>2. /\ pc' = pc \/ pc' = [pc EXCEPT ![p] = "unwind"]
        /\ \/ pending' = pending
           \/ pending' = [pending EXCEPT ![p] = @ \cup Changes(p, todo[p][1])]
    BY DEF Written, Refused
  <2>. QED BY <2>1, <2>2, OwnChangesKept DEF Documented
<1>3. DocumentFirst'
  <2>. DEFINE g == todo[p][1]
  <2>1. /\ UNCHANGED <<file, pos>> /\ pc[p] = "body"
        /\ pc' = pc \/ pc' = [pc EXCEPT ![p] = "unwind"]
    BY DEF NextGroup, Written, Refused
  <2>2. PICK add \in Seq(Records) : journal' = [journal EXCEPT ![p] = @ \o add]
    <3>1. g \in Groups /\ journal[p] \in Seq(Records)
      BY WorkTypes DEF NextGroup, Types, TxTypes
    <3>2. /\ <<Emplace(Task), Move(g)>> \in Seq(Records)
          /\ <<Emplace(Task)>> \in Seq(Records)
          /\ Append(journal[p], Emplace(Task)) = journal[p] \o <<Emplace(Task)>>
      BY <3>1, RecordTypes, AppendIsConcat
    <3>. QED BY <3>2
  <2>3. \A q \in Procs, h \in Groups :
          <<"insert", h>> \in pending'[q] => <<"insert", h>> \in pending[q]
    <3>1. CASE Written(p, todo[p][1])
      BY <3>1 DEF Written, Changes, Types, TxTypes
    <3>2. CASE Refused(p)
      BY <3>2 DEF Refused
    <3>. QED BY <3>1, <3>2
  <2>. QED BY <2>1, <2>2, <2>3, JournalGrows, DocumentFirstKept DEF Documented
<1>. QED BY <1>1, <1>2, <1>3 DEF Documented

\* Tag keeps a document behind every row, now or in the journal.
LEMMA TagDocumented ==
  ASSUME Types, Documented, NEW p \in Procs, Tag(p)
  PROVE  Documented'
<1>. USE DEF Tag, docVars, sqlVars, txVars, history
<1>1. RowsDocumented'
  BY DEF Documented, RowsDocumented, NextGroup
<1>2. OwnChanges'
  BY DEF Types, ControlTypes, TxTypes, Documented, OwnChanges, Inside, Holding, Changes, Kind, Current, NextGroup, Written, Refused
<1>3. DocumentFirst'
  <2>. DEFINE g == todo[p][1]
  <2>1. UNCHANGED <<file, pos, pc, pending>> /\ pc[p] = "body"
    BY DEF NextGroup
  <2>2. PICK add \in Seq(Records) : journal' = [journal EXCEPT ![p] = @ \o add]
    <3>1. g \in Groups /\ journal[p] \in Seq(Records)
      BY WorkTypes DEF NextGroup, Types, TxTypes
    <3>2. /\ <<Emplace(g)>> \in Seq(Records)
          /\ Append(journal[p], Emplace(g)) = journal[p] \o <<Emplace(g)>>
      BY <3>1, RecordTypes, AppendIsConcat
    <3>. QED BY <3>2
  <2>. QED BY <2>1, <2>2, JournalGrows, DocumentFirstKept DEF Documented
<1>. QED BY <1>1, <1>2, <1>3 DEF Documented

\* BodyThrows keeps a document behind every row, now or in the journal.
LEMMA BodyThrowsDocumented ==
  ASSUME Types, Documented, NEW p \in Procs, BodyThrows(p)
  PROVE  Documented'
<1>. USE DEF BodyThrows, docVars, sqlVars, txVars, history
<1>1. RowsDocumented'
  BY DEF Documented, RowsDocumented, NextGroup
<1>2. OwnChanges'
  BY DEF Types, ControlTypes, TxTypes, Documented, OwnChanges, Inside, Holding, Changes, Kind, Current, NextGroup, Written, Refused
<1>3. DocumentFirst'
  BY DEF Types, ControlTypes, TxTypes, Documented, DocumentFirst, NextGroup, Written, Refused
<1>. QED BY <1>1, <1>2, <1>3 DEF Documented

\* LockChecked keeps a document behind every row, now or in the journal.
LEMMA LockCheckedDocumented ==
  ASSUME Types, Documented, NEW p \in Procs, LockChecked(p)
  PROVE  Documented'
<1>. USE DEF LockChecked, docVars, sqlVars, txVars, history
<1>1. RowsDocumented'
  BY DEF Documented, RowsDocumented
<1>2. OwnChanges'
  BY DEF Documented, OwnChanges, Inside, Holding, Changes, Kind, Current
<1>3. DocumentFirst'
  BY DEF Documented, DocumentFirst
<1>. QED BY <1>1, <1>2, <1>3 DEF Documented

\* LockLost keeps a document behind every row, now or in the journal.
LEMMA LockLostDocumented ==
  ASSUME Types, Documented, NEW p \in Procs, LockLost(p)
  PROVE  Documented'
<1>. USE DEF LockLost, docVars, sqlVars, txVars, history
<1>1. RowsDocumented'
  BY DEF Documented, RowsDocumented
<1>2. OwnChanges'
  BY DEF Types, ControlTypes, TxTypes, Documented, OwnChanges, Inside, Holding, Changes, Kind, Current, Destroy, Fails
<1>3. DocumentFirst'
  BY DEF Types, ControlTypes, TxTypes, Documented, DocumentFirst, Destroy, Fails
<1>. QED BY <1>1, <1>2, <1>3 DEF Documented

\* Apply keeps a document behind every row, now or in the journal.
LEMMA ApplyDocumented ==
  ASSUME Types, Documented, NEW p \in Procs, Apply(p)
  PROVE  Documented'
<1>. USE DEF Apply, docVars, sqlVars, txVars, history
<1>1. RowsDocumented'
  <2>1. \A d \in Docs : file[d] # None => file'[d] # None
    BY DEF Types, FileTypes
  <2>. QED BY <2>1, DocNames DEF Documented, RowsDocumented, Types, SqlTypes
<1>2. OwnChanges'
  BY DEF Documented, OwnChanges, Inside, Holding, Changes, Kind, Current
<1>3. DocumentFirst'
  <2>. DEFINE r == journal[p][pos[p]]
  <2>1. /\ UNCHANGED <<pc, journal, pending>> /\ pos' = [pos EXCEPT ![p] = @ + 1]
        /\ pc[p] = "journal" /\ pos[p] \in Nat /\ journal[p] \in Seq(Records)
    BY DEF Types, TxTypes
  <2>2. \A d \in Docs : file[d] # None => file'[d] # None
    BY DEF Types, FileTypes
  <2>3. \A d \in Docs : r = Emplace(d) => file'[d] # None
    BY DEF Emplace, Types, FileTypes
  <2>4. ASSUME NEW q \in Procs, NEW i \in DOMAIN journal[q], i < pos'[q],
               NEW d \in Docs, journal[q][i] = Emplace(d)
        PROVE  file'[d] # None
    <3>1. CASE i < pos[q]
      BY <2>2, <2>4, <3>1 DEF Documented, DocumentFirst
    <3>2. CASE ~(i < pos[q])
      <4>1. q = p
        BY <2>1, <2>4, <3>2 DEF Types, TxTypes
      <4>2. i = pos[p]
        BY <2>1, <2>4, <3>2, <4>1 DEF Types, TxTypes
      <4>. QED BY <2>3, <2>4, <4>1, <4>2
    <3>. QED BY <3>1, <3>2
  <2>5. \A q \in Procs :
          /\ pc'[q] = "sql" => pos'[q] > Len(journal'[q])
          /\ pc'[q] \notin {"journal", "sql", "unlock", "unwind"} => pos'[q] = 1
    BY <2>1 DEF Types, TxTypes, Documented, DocumentFirst
  <2>. QED BY <2>1, <2>4, <2>5 DEF Documented, DocumentFirst
<1>. QED BY <1>1, <1>2, <1>3 DEF Documented

\* ApplyThrows keeps a document behind every row, now or in the journal.
LEMMA ApplyThrowsDocumented ==
  ASSUME Types, Documented, NEW p \in Procs, ApplyThrows(p)
  PROVE  Documented'
<1>. USE DEF ApplyThrows, docVars, sqlVars, txVars, history
<1>1. RowsDocumented'
  BY DEF Documented, RowsDocumented
<1>2. OwnChanges'
  BY DEF Documented, OwnChanges, Inside, Holding, Changes, Kind, Current
<1>3. DocumentFirst'
  BY DEF Documented, DocumentFirst
<1>. QED BY <1>1, <1>2, <1>3 DEF Documented

\* Applied keeps a document behind every row, now or in the journal.
LEMMA AppliedDocumented ==
  ASSUME Types, Documented, NEW p \in Procs, Applied(p)
  PROVE  Documented'
<1>. USE DEF Applied, docVars, sqlVars, txVars, history
<1>1. RowsDocumented'
  BY DEF Documented, RowsDocumented
<1>2. OwnChanges'
  BY DEF Documented, OwnChanges, Inside, Holding, Changes, Kind, Current
<1>3. DocumentFirst'
  BY DEF Documented, DocumentFirst
<1>. QED BY <1>1, <1>2, <1>3 DEF Documented

\* CommitSql keeps a document behind every row, now or in the journal.
LEMMA CommitSqlDocumented ==
  ASSUME Types, Documented, NEW p \in Procs, CommitSql(p)
  PROVE  Documented'
<1>. USE DEF CommitSql, docVars, sqlVars, txVars, history
<1>1. RowsDocumented'
  <2>1. \A g \in With("insert", p) : file[g] # None
    <3>1. SUFFICES ASSUME NEW g \in With("insert", p) PROVE file[g] # None
      OBVIOUS
    <3>2. g \in Groups /\ <<"insert", g>> \in pending[p]
      BY <3>1 DEF With
    <3>3. PICK i \in DOMAIN journal[p] : journal[p][i] = Emplace(g)
      BY <3>2 DEF Documented, DocumentFirst
    <3>4. journal[p] \in Seq(Records) /\ pos[p] \in Nat /\ pos[p] > Len(journal[p])
      BY DEF Types, TxTypes, Documented, DocumentFirst
    <3>5. i < pos[p]
      BY <3>3, <3>4
    <3>. QED BY <3>2, <3>3, <3>5, DocNames DEF Documented, DocumentFirst
  <2>2. rows' \subseteq rows \cup With("insert", p) /\ file' = file
    OBVIOUS
  <2>. QED BY <2>1, <2>2 DEF Documented, RowsDocumented
<1>2. OwnChanges'
  BY DEF Documented, OwnChanges, Inside, Holding, Changes, Kind, Current
<1>3. DocumentFirst'
  BY DEF Documented, DocumentFirst
<1>. QED BY <1>1, <1>2, <1>3 DEF Documented

\* CommitBusy keeps a document behind every row, now or in the journal.
LEMMA CommitBusyDocumented ==
  ASSUME Types, Documented, NEW p \in Procs, CommitBusy(p)
  PROVE  Documented'
<1>. USE DEF CommitBusy, docVars, sqlVars, txVars, history
<1>1. RowsDocumented'
  BY DEF Documented, RowsDocumented
<1>2. OwnChanges'
  BY DEF Documented, OwnChanges, Inside, Holding, Changes, Kind, Current
<1>3. DocumentFirst'
  BY DEF Documented, DocumentFirst
<1>. QED BY <1>1, <1>2, <1>3 DEF Documented

\* Unlock keeps a document behind every row, now or in the journal.
LEMMA UnlockDocumented ==
  ASSUME Types, Documented, NEW p \in Procs, Unlock(p)
  PROVE  Documented'
<1>. USE DEF Unlock, docVars, sqlVars, txVars, history
<1>1. RowsDocumented'
  BY DEF Documented, RowsDocumented
<1>2. OwnChanges'
  BY DEF Types, ControlTypes, TxTypes, Documented, OwnChanges, Inside, Holding, Changes, Kind, Current, Destroy, Fails
<1>3. DocumentFirst'
  BY DEF Types, ControlTypes, TxTypes, Documented, DocumentFirst, Destroy, Fails
<1>. QED BY <1>1, <1>2, <1>3 DEF Documented

\* Unwind keeps a document behind every row, now or in the journal.
LEMMA UnwindDocumented ==
  ASSUME Types, Documented, NEW p \in Procs, Unwind(p)
  PROVE  Documented'
<1>. USE DEF Unwind, docVars, sqlVars, txVars, history
<1>1. RowsDocumented'
  BY DEF Documented, RowsDocumented
<1>2. OwnChanges'
  BY DEF Types, ControlTypes, TxTypes, Documented, OwnChanges, Inside, Holding, Changes, Kind, Current, Destroy, Fails
<1>3. DocumentFirst'
  BY DEF Types, ControlTypes, TxTypes, Documented, DocumentFirst, Destroy, Fails
<1>. QED BY <1>1, <1>2, <1>3 DEF Documented

\* Crash keeps a document behind every row, now or in the journal.
LEMMA CrashDocumented ==
  ASSUME Types, Documented, NEW p \in Procs, Crash(p)
  PROVE  Documented'
<1>. USE DEF Crash, docVars, sqlVars, txVars, history
<1>1. RowsDocumented'
  BY DEF Documented, RowsDocumented
<1>2. OwnChanges'
  BY DEF Types, ControlTypes, TxTypes, Documented, OwnChanges, Inside, Holding, Changes, Kind, Current, Destroy, Fails
<1>3. DocumentFirst'
  BY DEF Types, ControlTypes, TxTypes, Documented, DocumentFirst, Destroy, Fails
<1>. QED BY <1>1, <1>2, <1>3 DEF Documented

\* Ask keeps a document behind every row, now or in the journal.
LEMMA AskDocumented ==
  ASSUME Types, Documented, NEW p \in Procs, NEW c \in Commands, Ask(p, c)
  PROVE  Documented'
<1>. USE DEF Ask, docVars, sqlVars, txVars, history
<1>1. RowsDocumented'
  BY DEF Documented, RowsDocumented
<1>2. OwnChanges'
  BY DEF Documented, OwnChanges, Inside, Holding, Changes, Kind, Current
<1>3. DocumentFirst'
  BY DEF Documented, DocumentFirst
<1>. QED BY <1>1, <1>2, <1>3 DEF Documented

\* NewTask keeps a document behind every row, now or in the journal.
LEMMA NewTaskDocumented ==
  ASSUME Types, Documented, NEW p \in Procs, NEW g \in Groups,
         NEW end \in {"close", "abort"}, NewTask(p, g, end)
  PROVE  Documented'
<1>. USE DEF NewTask, docVars, sqlVars, txVars, history
<1>1. RowsDocumented'
  BY DEF Documented, RowsDocumented
<1>2. OwnChanges'
  BY DEF Documented, OwnChanges, Inside, Holding, Changes, Kind, Current
<1>3. DocumentFirst'
  BY DEF Documented, DocumentFirst
<1>. QED BY <1>1, <1>2, <1>3 DEF Documented

\* Recover keeps a document behind every row, now or in the journal.
LEMMA RecoverDocumented ==
  ASSUME Types, Documented, NEW p \in Procs,
         NEW list \in [1 .. Cardinality(registered) -> registered],
         Recover(p, list)
  PROVE  Documented'
<1>. USE DEF Recover, docVars, sqlVars, txVars, history
<1>1. RowsDocumented'
  BY DEF Documented, RowsDocumented
<1>2. OwnChanges'
  BY DEF Documented, OwnChanges, Inside, Holding, Changes, Kind, Current
<1>3. DocumentFirst'
  BY DEF Documented, DocumentFirst
<1>. QED BY <1>1, <1>2, <1>3 DEF Documented

\* No step breaks it.
LEMMA StepDocumented ==
  ASSUME Types, Documented, [Next]_vars
  PROVE  Documented'
<1>1. ASSUME NEW p \in Procs, Step(p) PROVE Documented'
  BY <1>1, StartDocumented, NoContainerDocumented, UnderwayDocumented,
     LockFreeDocumented, LockHeldDocumented, NoLockDocumented,
     MakeLockDocumented, EnterDocumented, CloseDocumented, AbortDocumented,
     DeleteDocumented, TagDocumented, BodyThrowsDocumented,
     LockCheckedDocumented, LockLostDocumented, ApplyDocumented,
     ApplyThrowsDocumented, AppliedDocumented, CommitSqlDocumented,
     CommitBusyDocumented, UnlockDocumented, UnwindDocumented DEF Step
<1>2. ASSUME NEW p \in Procs, User(p) PROVE Documented'
  BY <1>2, AskDocumented, NewTaskDocumented, RecoverDocumented DEF User
<1>3. CASE Tick \/ UNCHANGED vars
  <2>1. UNCHANGED <<file, rows, pc, agenda, pending, journal, pos>>
    BY <1>3 DEF Tick, vars, docVars, sqlVars, txVars
  <2>2. \A q \in Procs, g \in Groups : Changes(q, g)' = Changes(q, g)
    BY <2>1 DEF Changes, Kind, Current
  <2>. QED BY <2>1, <2>2 DEF Documented, RowsDocumented, OwnChanges,
              DocumentFirst, Inside
<1>. QED BY <1>1, <1>2, <1>3, CrashDocumented DEF Next, Rest

\* The groups of the start are documented.
LEMMA InitDocumented == Init => Documented
<1>. SUFFICES ASSUME Init PROVE Documented
  OBVIOUS
<1>1. \A g \in Stored : file[g] # None
  BY GroupsAssumption, DocNames, NamesAssumption DEF Init
<1>2. \A p \in Procs : pending[p] = {} /\ journal[p] = <<>> /\ pos[p] = 1 /\ pc[p] = "idle"
  BY DEF Init
<1>3. RowsDocumented /\ OwnChanges
  BY <1>1, <1>2 DEF Init, RowsDocumented, OwnChanges
<1>4. DocumentFirst
  BY <1>2 DEF DocumentFirst
<1>. QED BY <1>3, <1>4 DEF Documented

-----------------------------------------------------------------------------
(* The lock file                                                           *)

LockedInside == ~intruded => \A p \in Procs : Inside(p) => lockfile # None

\* Whoever wrote the lock file last is still working under it.
LockOwned ==
  lockfile # None /\ crashes = 0 =>
    \E p \in Procs : Inside(p) /\ magic[p] = lockfile

Locking == ExclusiveAccess /\ LockedInside /\ LockOwned

LockUntouched ==
  /\ UNCHANGED <<lockfile, magic, crashes, intruded>>
  /\ \A q \in Procs : Inside(q)' = Inside(q)

\* Most steps neither take nor give back the lock.
LEMMA StepsInsideTouchNoLock ==
  ASSUME Types, NEW p \in Procs
  PROVE  /\ Start(p) \/ NoContainer(p) \/ Underway(p) \/ LockFree(p) => LockUntouched
         /\ LockHeld(p) \/ Enter(p) \/ Close(p) \/ Tag(p) => LockUntouched
         /\ Abort(p) \/ Delete(p) \/ BodyThrows(p) => LockUntouched
         /\ LockChecked(p) \/ Apply(p) \/ ApplyThrows(p) => LockUntouched
         /\ Applied(p) \/ CommitSql(p) \/ CommitBusy(p) => LockUntouched
<1>. USE DEF docVars, sqlVars, txVars, history
<1>1. Start(p) \/ NoContainer(p) \/ Underway(p) \/ LockFree(p) => LockUntouched
  BY DEF Types, ControlTypes, LockUntouched, Inside, Holding, Start,
         NoContainer, Underway, LockFree, Fails
<1>2. LockHeld(p) \/ Enter(p) \/ Close(p) \/ Tag(p) => LockUntouched
  BY DEF LockUntouched, Inside, LockHeld, Enter, Close, Tag, NextGroup, Written
<1>3. Abort(p) \/ Delete(p) \/ BodyThrows(p) => LockUntouched
  <2>1. Abort(p) \/ Delete(p) \/ BodyThrows(p) =>
          /\ UNCHANGED <<lockfile, magic, crashes, intruded>>
          /\ pc[p] = "body" /\ (pc' = pc \/ pc' = [pc EXCEPT ![p] = "unwind"])
    BY DEF Abort, Delete, BodyThrows, NextGroup, Written, Refused
  <2>. QED BY <2>1 DEF Types, ControlTypes, LockUntouched, Inside, Holding
<1>4. LockChecked(p) \/ Apply(p) \/ ApplyThrows(p) => LockUntouched
  BY DEF Types, ControlTypes, LockUntouched, Inside, Holding, LockChecked,
         Apply, ApplyThrows
<1>5. Applied(p) \/ CommitSql(p) \/ CommitBusy(p) => LockUntouched
  BY DEF Types, ControlTypes, LockUntouched, Inside, Holding, Applied,
         CommitSql, CommitBusy
<1>. QED BY <1>1, <1>2, <1>3, <1>4, <1>5

\* No step leaves the lock file of a transaction to another one, unless one
\* intruded.
LEMMA StepLocking ==
  ASSUME Types, Locking, [Next]_vars
  PROVE  Locking'
<1>. USE DEF docVars, sqlVars, txVars, history
<1>1. ASSUME LockUntouched PROVE Locking'
  BY <1>1 DEF LockUntouched, Locking, ExclusiveAccess, LockedInside, LockOwned
<1>2. ASSUME NEW p \in Procs, MakeLock(p) PROVE Locking'
  <2>1. /\ lockfile' \in Nat /\ magic'[p] = lockfile' /\ lockfile' # None
        /\ \A q \in Procs : Inside(q)' <=> q = p \/ Inside(q)
        /\ ~intruded' => ~intruded /\ lockfile = None
    BY <1>2, NamesAssumption
       DEF MakeLock, Types, ControlTypes, TxTypes, ClockTypes, Inside, Holding
  <2>2. ~intruded' => \A q \in Procs : ~Inside(q)
    BY <2>1 DEF Locking, LockedInside
  <2>. QED BY <2>1, <2>2 DEF Locking, ExclusiveAccess, LockedInside, LockOwned
<1>3. ASSUME NEW p \in Procs, NoLock(p) PROVE Locking'
  <2>1. /\ UNCHANGED <<lockfile, crashes, intruded>>
        /\ \A q \in Procs : Inside(q)' = Inside(q)
        /\ \A q \in Procs : Inside(q) => magic'[q] = magic[q]
    BY <1>3 DEF NoLock, Fails, Destroy, Types, ControlTypes, TxTypes, Inside, Holding
  <2>. QED BY <2>1 DEF Locking, ExclusiveAccess, LockedInside, LockOwned
<1>4. ASSUME NEW p \in Procs, LockLost(p) \/ Unwind(p) PROVE Locking'
  <2>1. /\ UNCHANGED <<crashes, intruded>> /\ Inside(p)
        /\ \A q \in Procs : Inside(q)' <=> q # p /\ Inside(q)
        /\ \A q \in Procs \ {p} : magic'[q] = magic[q]
    <3>1. Fails(p) /\ Destroy(p) /\ pc[p] \in Holding /\ UNCHANGED <<crashes, intruded>>
      BY <1>4 DEF LockLost, Unwind, Holding
    <3>. QED BY <3>1 DEF Fails, Destroy, Types, ControlTypes, TxTypes, Inside, Holding
  <2>2. lockfile' = IF Owns(p) THEN None ELSE lockfile
    BY <1>4 DEF LockLost, Unwind, AfterRollback
  <2>3. LockOwned'
    BY <2>1, <2>2 DEF Locking, LockOwned, Owns
  <2>4. ExclusiveAccess' /\ LockedInside'
    BY <2>1 DEF Locking, ExclusiveAccess, LockedInside
  <2>. QED BY <2>3, <2>4 DEF Locking
<1>5. ASSUME NEW p \in Procs, Unlock(p) PROVE Locking'
  <2>1. /\ UNCHANGED <<crashes, intruded>> /\ lockfile' = None /\ Inside(p)
        /\ \A q \in Procs : Inside(q)' <=> q # p /\ Inside(q)
    BY <1>5 DEF Unlock, Types, ControlTypes, Inside, Holding
  <2>. QED BY <2>1 DEF Locking, ExclusiveAccess, LockedInside, LockOwned
<1>6. ASSUME NEW p \in Procs, Crash(p) PROVE Locking'
  <2>1. /\ UNCHANGED <<lockfile, intruded>> /\ crashes' # 0
        /\ \A q \in Procs : Inside(q)' => Inside(q)
    BY <1>6 DEF Crash, Types, ControlTypes, ClockTypes, Inside, Holding
  <2>. QED BY <2>1 DEF Locking, ExclusiveAccess, LockedInside, LockOwned
<1>7. ASSUME NEW p \in Procs,
             NEW list \in [1 .. Cardinality(registered) -> registered],
             Recover(p, list)
      PROVE  Locking'
  <2>1. /\ lockfile' = None
        /\ \A q \in Procs : Inside(q)' = Inside(q)
        /\ ~intruded' => ~intruded /\ \A q \in Procs : agenda[q] = <<>>
    BY <1>7 DEF Recover, Inside, Types, ClockTypes
  <2>2. ~intruded' => \A q \in Procs : ~Inside(q)
    BY <2>1 DEF Types, Counted, Inside, Holding
  <2>. QED BY <2>1, <2>2 DEF Locking, ExclusiveAccess, LockedInside, LockOwned
<1>8. ASSUME NEW p \in Procs, Step(p) PROVE Locking'
  BY <1>1, <1>2, <1>3, <1>4, <1>5, <1>8, StepsInsideTouchNoLock DEF Step
<1>9. ASSUME NEW p \in Procs, User(p) PROVE Locking'
  <2>1. ASSUME NEW c \in Commands, Ask(p, c) PROVE LockUntouched
    BY <2>1 DEF Ask, LockUntouched, Inside
  <2>2. ASSUME NEW g \in Groups, NEW end \in {"close", "abort"}, NewTask(p, g, end)
        PROVE  LockUntouched
    BY <2>2 DEF NewTask, LockUntouched, Inside
  <2>. QED BY <1>1, <1>7, <1>9, <2>1, <2>2 DEF User
<1>10. CASE Tick \/ UNCHANGED vars
  BY <1>1, <1>10 DEF Tick, vars, LockUntouched, Inside
<1>. QED BY <1>6, <1>8, <1>9, <1>10 DEF Next, Rest

\* Nobody is inside a transaction at the start.
LEMMA InitLocking == Init => Locking
BY DEF Init, Locking, ExclusiveAccess, LockedInside, LockOwned, Inside, Holding

-----------------------------------------------------------------------------
(* The count of transactions                                               *)

\* A process without a transaction that still counts one gave up waiting.
Refusals ==
  /\ RefusedOnlyAfterTimeout
  /\ \A p \in Procs : pc[p] = "idle" /\ transactions[p] # 0 => p \in timedOut
  /\ \A p \in Procs : pc[p] = "unlock" => transactions[p] = 0

\* Only NoLock leaves a counted transaction behind, and it is noted.
LEMMA StepRefusals ==
  ASSUME Types, Refusals, [Next]_vars
  PROVE  Refusals'
<1>. USE DEF docVars, sqlVars, txVars, history
<1>. DEFINE Uncounted ==
       /\ UNCHANGED <<timedOut, refused>>
       /\ \A q \in Procs : pc'[q] = "idle" /\ transactions'[q] # 0 =>
                             pc[q] = "idle" /\ transactions[q] # 0
       /\ \A q \in Procs : pc'[q] = "unlock" =>
                             \/ transactions'[q] = 0
                             \/ pc[q] = "unlock" /\ transactions'[q] = transactions[q]
<1>1. ASSUME Uncounted PROVE Refusals'
  BY <1>1 DEF Refusals, RefusedOnlyAfterTimeout
<1>2. ASSUME NEW p \in Procs, Underway(p) PROVE Refusals'
  <2>1. /\ transactions[p] # 0 /\ UNCHANGED <<timedOut, transactions>>
        /\ pc[p] = "idle" /\ refused' = refused \cup {p}
        /\ \A q \in Procs : pc'[q] = "idle" => pc[q] = "idle"
        /\ \A q \in Procs : pc'[q] = "unlock" => pc[q] = "unlock"
    BY <1>2 DEF Underway, Fails, Types, ControlTypes, TxTypes
  <2>. QED BY <2>1 DEF Refusals, RefusedOnlyAfterTimeout
<1>3. ASSUME NEW p \in Procs, NoLock(p) PROVE Refusals'
  <2>1. /\ timedOut' = timedOut \cup {p} /\ UNCHANGED <<refused, transactions>>
        /\ \A q \in Procs \ {p} : pc'[q] = pc[q]
        /\ pc'[p] # "unlock"
    BY <1>3 DEF NoLock, Fails, Types, ControlTypes
  <2>. QED BY <2>1 DEF Refusals, RefusedOnlyAfterTimeout
<1>4. ASSUME NEW p \in Procs, LockLost(p) \/ Unwind(p) \/ CommitSql(p)
      PROVE  Uncounted
  <2>1. /\ UNCHANGED <<timedOut, refused>> /\ transactions[p] = 1
        /\ transactions' = [transactions EXCEPT ![p] = Release(p)]
        /\ \A q \in Procs \ {p} : pc'[q] = pc[q]
    BY <1>4 DEF LockLost, Unwind, CommitSql, Fails, Types, ControlTypes, Counted
  <2>2. transactions'[p] = 0 /\ \A q \in Procs \ {p} : transactions'[q] = transactions[q]
    BY <2>1 DEF Release, Types, TxTypes
  <2>. QED BY <2>1, <2>2
<1>5. ASSUME NEW p \in Procs, Unlock(p) PROVE Uncounted
  <2>1. transactions[p] = 0
    BY <1>5 DEF Unlock, Refusals
  <2>. QED BY <1>5, <2>1 DEF Unlock, Types, ControlTypes
<1>6. ASSUME NEW p \in Procs, Start(p) PROVE Uncounted
  BY <1>6 DEF Start, Types, ControlTypes, TxTypes
<1>7. ASSUME NEW p \in Procs, NoContainer(p) PROVE Uncounted
  BY <1>7 DEF NoContainer, Fails, Types, ControlTypes
<1>8. ASSUME NEW p \in Procs, UNCHANGED <<timedOut, refused, transactions>>,
             NEW c \in Control \ {"idle", "unlock"},
             pc' = pc \/ pc' = [pc EXCEPT ![p] = c]
      PROVE  Uncounted
  BY <1>8 DEF Types, ControlTypes
<1>9. ASSUME NEW p \in Procs, Step(p) PROVE Refusals'
  <2>1. CASE LockFree(p) \/ LockHeld(p) \/ MakeLock(p) \/ LockChecked(p)
             \/ Apply(p) \/ ApplyThrows(p) \/ Applied(p) \/ CommitBusy(p)
    <3>1. /\ UNCHANGED <<timedOut, refused, transactions>>
          /\ \E c \in Control \ {"idle", "unlock"} :
               pc' = pc \/ pc' = [pc EXCEPT ![p] = c]
      BY <2>1 DEF LockFree, LockHeld, MakeLock, LockChecked, Apply,
                  ApplyThrows, Applied, CommitBusy, Control, Holding
    <3>. QED BY <1>1, <1>8, <3>1
  <2>2. CASE Enter(p) \/ Close(p) \/ Abort(p) \/ Delete(p) \/ Tag(p)
             \/ BodyThrows(p)
    <3>1. /\ UNCHANGED <<timedOut, refused, transactions>>
          /\ pc' = pc \/ pc' = [pc EXCEPT ![p] = "unwind"]
      BY <2>2 DEF Enter, Close, Abort, Delete, Tag, BodyThrows, NextGroup,
                  Written, Refused
    <3>2. "unwind" \in Control \ {"idle", "unlock"}
      BY DEF Control, Holding
    <3>. QED BY <1>1, <1>8, <3>1, <3>2
  <2>. QED BY <1>1, <1>2, <1>3, <1>4, <1>5, <1>6, <1>7, <1>9, <2>1, <2>2 DEF Step
<1>10. ASSUME NEW p \in Procs, User(p) PROVE Refusals'
  <2>1. UNCHANGED <<timedOut, refused, transactions, pc>>
    BY <1>10 DEF User, Ask, NewTask, Recover
  <2>. QED BY <1>1, <2>1
<1>11. ASSUME NEW p \in Procs, Crash(p) PROVE Refusals'
  <2>1. /\ UNCHANGED <<timedOut, refused, transactions>>
        /\ pc' = [pc EXCEPT ![p] = "dead"]
    BY <1>11 DEF Crash
  <2>. QED BY <1>1, <1>8, <2>1 DEF Control
<1>12. CASE Tick \/ UNCHANGED vars
  BY <1>1, <1>12 DEF Tick, vars
<1>. QED BY <1>9, <1>10, <1>11, <1>12 DEF Next, Rest

\* No transaction is counted at the start.
LEMMA InitRefusals == Init => Refusals
BY DEF Init, Refusals, RefusedOnlyAfterTimeout

-----------------------------------------------------------------------------
(* Writers                                                                 *)

Reserving(p) == agenda[p] # <<>> /\ Kind(p) = "reserve"

\* A name being reserved has no output yet and is reserved by one process.
ReserveOwn ==
  /\ \A p \in Procs : Reserving(p) => dir[Current(p).groups[1]] = "none"
  /\ \A p, q \in Procs :
       Reserving(p) /\ Reserving(q) /\ p # q =>
         Current(p).groups # Current(q).groups
  /\ \A p \in Procs : \A i \in DOMAIN agenda[p] :
       i # 1 => agenda[p][i].kind # "reserve"

\* What a step must leave alone for that to stay true.
LEMMA ReserveKept ==
  ASSUME Types, ReserveOwn, NEW p \in Procs, agenda' \in [Procs -> Seq(Asked)],
         \A q \in Procs \ {p} : agenda'[q] = agenda[q],
         \/ agenda'[p] = agenda[p]
         \/ \A i \in DOMAIN agenda'[p] : agenda'[p][i].kind # "reserve",
         \A q \in Procs : Reserving(q)' =>
           dir'[Current(q).groups[1]] = dir[Current(q).groups[1]]
  PROVE  ReserveOwn'
<1>1. \A q \in Procs : Reserving(q)' =>
        agenda'[q] = agenda[q] /\ Reserving(q) /\ Current(q)' = Current(q)
  <2>1. SUFFICES ASSUME NEW q \in Procs, Reserving(q)'
                 PROVE  agenda'[q] = agenda[q]
    BY DEF Reserving, Kind, Current
  <2>2. 1 \in DOMAIN agenda'[q] /\ agenda'[q][1].kind = "reserve"
    BY <2>1 DEF Reserving, Kind, Current
  <2>. QED BY <2>2
<1>2. \A q \in Procs : Reserving(q)' => dir'[Current(q)'.groups[1]] = "none"
  BY <1>1 DEF ReserveOwn
<1>3. \A q, r \in Procs : Reserving(q)' /\ Reserving(r)' /\ q # r =>
        Current(q)'.groups # Current(r)'.groups
  BY <1>1 DEF ReserveOwn
<1>4. \A q \in Procs : \A i \in DOMAIN agenda'[q] :
        i # 1 => agenda'[q][i].kind # "reserve"
  BY DEF ReserveOwn
<1>. QED BY <1>2, <1>3, <1>4 DEF ReserveOwn

\* The output of a group being reserved is touched by nobody else.
LEMMA StepReserveOwn ==
  ASSUME Types, ReserveOwn, [Next]_vars
  PROVE  ReserveOwn'
<1>. USE DEF docVars, sqlVars, txVars, history
<1>. DEFINE NoneKept == \A g \in Groups : dir[g] = "none" => dir'[g] = "none"
<1>1. ASSUME agenda' = agenda, NoneKept PROVE ReserveOwn'
  <2>1. \A q \in Procs : Reserving(q) => Current(q).groups[1] \in Groups
    BY CurrentType DEF Reserving, Types, TaskKinds, Kinds
  <2>2. \A q \in Procs : Reserving(q)' = Reserving(q) /\ Current(q)' = Current(q)
    BY <1>1 DEF Reserving, Kind, Current
  <2>. QED BY <1>1, <2>1, <2>2 DEF ReserveOwn
<1>2. ASSUME NEW p \in Procs, dir' = dir, agenda' \in [Procs -> Seq(Asked)],
             \A q \in Procs \ {p} : agenda'[q] = agenda[q],
             \A i \in DOMAIN agenda'[p] : agenda'[p][i].kind # "reserve"
      PROVE  ReserveOwn'
  BY <1>2, ReserveKept
<1>3. ASSUME NEW p \in Procs, dir' = dir, agenda[p] # <<>>, Fails(p)
      PROVE  ReserveOwn'
  <2>1. /\ agenda' \in [Procs -> Seq(Asked)]
        /\ \A q \in Procs \ {p} : agenda'[q] = agenda[q]
    BY <1>3, FailsTypes DEF Types
  <2>2. \A i \in DOMAIN agenda'[p] : agenda'[p][i].kind # "reserve"
    BY <1>3 DEF Fails, On, Types, ControlTypes
  <2>. QED BY <1>2, <1>3, <2>1, <2>2
<1>4. ASSUME NEW p \in Procs, Unlock(p) PROVE ReserveOwn'
  <2>1. agenda[p] # <<>> /\ agenda[p] \in Seq(Asked) /\ Tail(agenda[p]) \in Seq(Asked)
    BY <1>4, CurrentType DEF Unlock, Types, ControlTypes, Counted
  <2>2. /\ agenda' \in [Procs -> Seq(Asked)] /\ agenda'[p] = Tail(agenda[p])
        /\ \A q \in Procs \ {p} : agenda'[q] = agenda[q]
    BY <1>4, <2>1 DEF Unlock, Types, ControlTypes
  <2>3. \A i \in DOMAIN agenda'[p] : agenda'[p][i].kind # "reserve"
    <3>1. SUFFICES ASSUME NEW i \in DOMAIN Tail(agenda[p])
                   PROVE  Tail(agenda[p])[i].kind # "reserve"
      BY <2>2
    <3>2. i + 1 \in DOMAIN agenda[p] /\ i + 1 # 1 /\ Tail(agenda[p])[i] = agenda[p][i + 1]
      BY <2>1
    <3>. QED BY <3>2 DEF ReserveOwn
  <2>4. ASSUME NEW q \in Procs, Reserving(q)'
        PROVE  dir'[Current(q).groups[1]] = dir[Current(q).groups[1]]
    <3>1. q # p
      <4>1. Reserving(p)' => 1 \in DOMAIN agenda'[p] /\ agenda'[p][1].kind = "reserve"
        BY <2>1, <2>2 DEF Reserving, Kind, Current
      <4>. QED BY <2>3, <2>4, <4>1
    <3>2. Reserving(q)
      BY <2>2, <2>4, <3>1 DEF Reserving, Kind, Current
    <3>3. CASE Reserving(p)
      <4>1. Current(p).groups # Current(q).groups
        BY <3>1, <3>2, <3>3 DEF ReserveOwn
      <4>2. /\ Current(p).groups = <<Current(p).groups[1]>>
            /\ Current(q).groups = <<Current(q).groups[1]>>
            /\ Current(p).groups[1] \in Groups /\ Current(q).groups[1] \in Groups
        BY <3>2, <3>3, CurrentType DEF Reserving, Types, TaskKinds, Kinds
      <4>3. Current(p).groups[1] # Current(q).groups[1]
        BY <4>1, <4>2
      <4>. QED BY <1>4, <4>2, <4>3 DEF Unlock, Types, FileTypes
    <3>4. CASE ~Reserving(p)
      BY <1>4, <2>1, <3>4 DEF Unlock, Reserving
    <3>. QED BY <3>3, <3>4
  <2>. QED BY <2>2, <2>3, <2>4, ReserveKept
<1>5. ASSUME NEW p \in Procs, Step(p) PROVE ReserveOwn'
  <2>1. CASE Start(p) \/ LockFree(p) \/ LockHeld(p) \/ MakeLock(p) \/ Enter(p)
             \/ Close(p) \/ Tag(p) \/ BodyThrows(p) \/ LockChecked(p)
             \/ ApplyThrows(p) \/ Applied(p) \/ CommitSql(p) \/ CommitBusy(p)
             \/ Delete(p)
    <3>1. UNCHANGED <<agenda, dir>>
      BY <2>1 DEF Start, LockFree, LockHeld, MakeLock, Enter, Close, Tag,
         BodyThrows, LockChecked, ApplyThrows, Applied, CommitSql, CommitBusy,
         Delete, NextGroup
    <3>. QED BY <1>1, <3>1
  <2>2. CASE Abort(p) \/ Apply(p)
    <3>1. agenda' = agenda /\ NoneKept
      BY <2>2 DEF Abort, Apply, NextGroup, Legal, Types, FileTypes
    <3>. QED BY <1>1, <3>1
  <2>3. CASE NoContainer(p) \/ Underway(p) \/ NoLock(p) \/ LockLost(p) \/ Unwind(p)
    <3>1. dir' = dir /\ agenda[p] # <<>> /\ Fails(p)
      BY <2>3 DEF NoContainer, Underway, NoLock, LockLost, Unwind, Types, Counted
    <3>. QED BY <1>3, <3>1
  <2>. QED BY <1>4, <1>5, <2>1, <2>2, <2>3 DEF Step
<1>6. ASSUME NEW p \in Procs, NEW c \in Commands, Ask(p, c) PROVE ReserveOwn'
  <2>1. c \in Asked /\ c.kind # "reserve"
    BY CommandsAssumption DEF Asked
  <2>2. /\ dir' = dir /\ agenda' = [agenda EXCEPT ![p] = <<c>>]
        /\ agenda' \in [Procs -> Seq(Asked)]
    BY <1>6, <2>1 DEF Ask, Types, ControlTypes
  <2>3. \A i \in DOMAIN agenda'[p] : agenda'[p][i].kind # "reserve"
    BY <2>1, <2>2 DEF Types, ControlTypes
  <2>. QED BY <1>2, <2>2, <2>3 DEF Types, ControlTypes
<1>7. ASSUME NEW p \in Procs, NEW g \in Groups, NEW end \in {"close", "abort"},
             NewTask(p, g, end)
      PROVE  ReserveOwn'
  <2>. DEFINE a == <<On("reserve", g), On("register", g), On(end, g)>>
  <2>1. /\ agenda' = [agenda EXCEPT ![p] = a] /\ dir' = dir /\ dir[g] = "none"
        /\ \A q \in Procs : \A i \in DOMAIN agenda[q] : agenda[q][i].groups # <<g>>
    BY <1>7 DEF NewTask
  <2>2. /\ a # <<>> /\ a[1].kind = "reserve" /\ a[1].groups = <<g>>
        /\ \A i \in DOMAIN a : i # 1 => a[i].kind # "reserve"
    BY DEF On
  <2>. HIDE DEF a
  <2>3. agenda'[p] = a /\ \A q \in Procs \ {p} : agenda'[q] = agenda[q]
    BY <2>1 DEF Types, ControlTypes
  <2>4. \A q \in Procs : Reserving(q)' /\ q # p =>
          /\ Reserving(q) /\ Current(q)' = Current(q)
          /\ Current(q).groups # <<g>>
    <3>1. SUFFICES ASSUME NEW q \in Procs, Reserving(q)', q # p
                   PROVE  /\ Reserving(q) /\ Current(q)' = Current(q)
                          /\ Current(q).groups # <<g>>
      OBVIOUS
    <3>2. agenda'[q] = agenda[q]
      BY <2>3, <3>1
    <3>3. Reserving(q) /\ Current(q)' = Current(q)
      BY <3>1, <3>2 DEF Reserving, Kind, Current
    <3>4. 1 \in DOMAIN agenda[q]
      BY <3>3 DEF Reserving, Types, ControlTypes
    <3>. QED BY <2>1, <3>3, <3>4 DEF Current
  <2>5. Current(p)'.groups = <<g>>
    BY <2>2, <2>3 DEF Current
  <2>. QED BY <2>1, <2>2, <2>3, <2>4, <2>5 DEF ReserveOwn
<1>8. ASSUME NEW p \in Procs,
             NEW list \in [1 .. Cardinality(registered) -> registered],
             Recover(p, list)
      PROVE  ReserveOwn'
  <2>1. Types'
    BY <1>8, RecoverTypes
  <2>2. /\ dir' = dir /\ agenda' \in [Procs -> Seq(Asked)]
        /\ agenda' = [agenda EXCEPT ![p] = [i \in DOMAIN list |-> On("recover", list[i])]]
    BY <1>8, <2>1 DEF Recover, Types, ControlTypes
  <2>3. \A i \in DOMAIN agenda'[p] : agenda'[p][i].kind # "reserve"
    BY <2>2 DEF On, Types, ControlTypes
  <2>. QED BY <1>2, <2>2, <2>3 DEF Types, ControlTypes
<1>9. ASSUME NEW p \in Procs, Crash(p) PROVE ReserveOwn'
  <2>1. /\ dir' = dir /\ agenda' = [agenda EXCEPT ![p] = <<>>]
        /\ agenda' \in [Procs -> Seq(Asked)]
    BY <1>9 DEF Crash, Types, ControlTypes
  <2>2. \A i \in DOMAIN agenda'[p] : agenda'[p][i].kind # "reserve"
    BY <2>1 DEF Types, ControlTypes
  <2>. QED BY <1>2, <2>1, <2>2 DEF Types, ControlTypes
<1>10. CASE Tick \/ UNCHANGED vars
  BY <1>1, <1>10 DEF Tick, vars
<1>. QED BY <1>5, <1>6, <1>7, <1>8, <1>9, <1>10 DEF Next, Rest, User

Failed(g) == dir[g] = "failure"

\* Only registered names are deregistered, changes are made by the process
\* that holds SQLite's write lock, and a writer goes with a row or a failure.
Registers ==
  /\ registered \subseteq reserved
  /\ \A p \in Procs : pc[p] # "unlock" /\ pending[p] # {} => writing = p
  /\ \A p \in Procs, g \in Groups : pc[p] # "unlock" =>
       /\ <<"register", g>> \in pending[p] => g \in reserved
       /\ <<"deregister", g>> \in pending[p] =>
            <<"insert", g>> \in pending[p] \/ Failed(g)

\* What a step must leave alone for that to stay true.
LEMMA RegistersKept ==
  ASSUME Types, Registers, NEW p \in Procs,
         UNCHANGED <<reserved, registered>>,
         \A q \in Procs : pc'[q] # "unlock" =>
           \/ pending'[q] = {}
           \/ /\ pc[q] # "unlock" /\ pending'[q] = pending[q]
              /\ writing = q => writing' = q,
         \A g \in Groups : Failed(g) => Failed(g)'
  PROVE  Registers'
BY DEF Registers

\* Changes are added by a process that can write.
LEMMA RegistersGrow ==
  ASSUME Types, Registers, NEW p \in Procs, NEW g \in Groups,
         UNCHANGED <<reserved, registered, pc>>, pc[p] = "body",
         CanWrite(p), writing' = p,
         pending' = [pending EXCEPT ![p] = @ \cup Changes(p, g)],
         Kind(p) = "register" => g \in reserved,
         Kind(p) = "abort" => Failed(g)',
         \A h \in Groups : Failed(h) => Failed(h)'
  PROVE  Registers'
<1>1. /\ pending'[p] = pending[p] \cup Changes(p, g)
      /\ \A q \in Procs \ {p} : pending'[q] = pending[q]
  BY DEF Types, TxTypes
<1>2. \A q \in Procs \ {p} : pc[q] # "unlock" => pending[q] = {}
  BY NamesAssumption DEF CanWrite, Registers
<1>3. \A h \in Groups : <<"register", h>> \in Changes(p, g) => h \in reserved
  BY DEF Changes
<1>4. \A h \in Groups : <<"deregister", h>> \in Changes(p, g) =>
        <<"insert", h>> \in Changes(p, g) \/ Failed(h)'
  <2>1. Kind(p) \in Kinds
    BY CurrentType DEF Types, Counted
  <2>2. CASE Kind(p) \in {"close", "recover"}
    BY <2>2 DEF Changes
  <2>3. CASE Kind(p) = "abort"
    BY <2>3 DEF Changes
  <2>4. CASE Kind(p) \notin {"close", "recover", "abort"}
    BY <2>1, <2>4 DEF Changes, Kinds
  <2>. QED BY <2>2, <2>3, <2>4
<1>. QED BY <1>1, <1>2, <1>3, <1>4 DEF Registers

\* The five ways a step can touch the registers or the changes to come.
LEMMA StepRegisters ==
  ASSUME Types, OwnChanges, ReserveOwn, Registers, [Next]_vars
  PROVE  Registers'
<1>. USE DEF docVars, sqlVars, txVars, history
<1>1. ASSUME NEW p \in Procs,
             UNCHANGED <<reserved, registered, writing, pending>>,
             NEW c \in Control \ {"unlock"},
             pc' = pc \/ (pc[p] # "unlock" /\ pc' = [pc EXCEPT ![p] = c]),
             \A g \in Groups : Failed(g) => Failed(g)'
      PROVE  Registers'
  <2>1. \A q \in Procs : pc'[q] # "unlock" => pc[q] # "unlock"
    BY <1>1 DEF Types, ControlTypes
  <2>. QED BY <1>1, <2>1, RegistersKept
<1>2. ASSUME NEW p \in Procs, UNCHANGED <<reserved, registered>>,
             pending' = [pending EXCEPT ![p] = {}],
             Disconnect(p) \/ writing' = writing,
             \A q \in Procs \ {p} : pc'[q] = pc[q],
             \A g \in Groups : Failed(g) => Failed(g)'
      PROVE  Registers'
  <2>1. /\ pending'[p] = {}
        /\ \A q \in Procs \ {p} : pending'[q] = pending[q]
        /\ \A q \in Procs \ {p} : writing = q => writing' = q
    BY <1>2 DEF Types, TxTypes, Disconnect
  <2>. QED BY <1>2, <2>1, RegistersKept
<1>3. ASSUME NEW p \in Procs, Enter(p) \/ Close(p) PROVE Registers'
  <2>1. /\ todo[p][1] \in Groups /\ pc[p] = "body" /\ CanWrite(p) /\ writing' = p
        /\ pending' = [pending EXCEPT ![p] = @ \cup Changes(p, todo[p][1])]
        /\ UNCHANGED <<reserved, registered, pc, dir>>
    BY <1>3, WorkTypes DEF Enter, Close, NextGroup, Written
  <2>2. Kind(p) = "register" => todo[p][1] \in reserved
    BY <1>3 DEF Enter, Close, Legal
  <2>3. Kind(p) # "abort"
    BY <1>3 DEF Enter, Close
  <2>. QED BY <2>1, <2>2, <2>3, RegistersGrow DEF Failed
<1>4. ASSUME NEW p \in Procs, Abort(p) \/ Delete(p) PROVE Registers'
  <2>. PICK g \in Groups : g = todo[p][1]
    BY <1>4, WorkTypes DEF Abort, Delete, NextGroup
  <2>1. pc[p] = "body" /\ UNCHANGED <<reserved, registered>>
    BY <1>4, WorkTypes DEF Abort, Delete, NextGroup
  <2>2. Kind(p) # "register" /\ \A h \in Groups : Failed(h) => Failed(h)'
    BY <1>4 DEF Abort, Delete, Failed, Types, FileTypes
  <2>3. Kind(p) = "abort" => Failed(g)'
    <3>1. CASE Abort(p)
      <4>1. dir' = [dir EXCEPT ![g] = "failure"]
        BY <3>1 DEF Abort
      <4>. QED BY <2>1, <4>1 DEF Failed, Types, FileTypes
    <3>2. CASE Delete(p)
      BY <3>2 DEF Delete
    <3>. QED BY <1>4, <3>1, <3>2
  <2>4. CASE Written(p, g)
    <3>1. /\ CanWrite(p) /\ writing' = p /\ pc' = pc
          /\ pending' = [pending EXCEPT ![p] = @ \cup Changes(p, g)]
      BY <2>4 DEF Written
    <3>. QED BY <2>1, <2>2, <2>3, <3>1, RegistersGrow
  <2>5. CASE Refused(p)
    BY <1>1, <2>1, <2>2, <2>5 DEF Refused, Control, Holding
  <2>. QED BY <1>4, <2>4, <2>5 DEF Abort, Delete
<1>5. ASSUME NEW p \in Procs, CommitSql(p) PROVE Registers'
  <2>1. /\ pc[p] = "sql" /\ Disconnect(p) /\ UNCHANGED <<pending, dir>>
        /\ pc'[p] = "unlock" /\ \A q \in Procs \ {p} : pc'[q] = pc[q]
    BY <1>5 DEF CommitSql, Types, ControlTypes
  <2>2. registered' \subseteq reserved'
    <3>1. With("register", p) \subseteq reserved
      BY <2>1 DEF With, Registers
    <3>. QED BY <1>5, <3>1 DEF CommitSql, Registers
  <2>3. ASSUME NEW q \in Procs, pc'[q] # "unlock", pending'[q] # {}
        PROVE  writing' = q /\ reserved' = reserved /\ pc[q] # "unlock"
    <3>1. q # p /\ pc[q] # "unlock" /\ writing = q
      BY <2>1, <2>3 DEF Registers
    <3>2. pending[p] = {}
      BY <2>1, <3>1 DEF Registers
    <3>3. reserved' = reserved
      BY <1>5, <3>2 DEF CommitSql, With
    <3>. QED BY <2>1, <3>1, <3>3 DEF Disconnect
  <2>. QED BY <2>1, <2>2, <2>3 DEF Registers, Failed
<1>6. ASSUME NEW p \in Procs, LockLost(p) \/ Unwind(p) \/ NoLock(p) \/ Crash(p)
      PROVE  Registers'
  <2>1. /\ UNCHANGED <<reserved, registered, dir>>
        /\ pending' = [pending EXCEPT ![p] = {}]
        /\ Disconnect(p) \/ writing' = writing
    BY <1>6 DEF LockLost, Unwind, NoLock, Crash, Destroy
  <2>2. \A q \in Procs \ {p} : pc'[q] = pc[q]
    BY <1>6 DEF LockLost, Unwind, NoLock, Crash, Fails, Types, ControlTypes
  <2>. QED BY <1>2, <2>1, <2>2 DEF Failed
<1>7. ASSUME NEW p \in Procs, Unlock(p) PROVE Registers'
  <2>1. /\ UNCHANGED <<reserved, registered, writing>>
        /\ pending' = [pending EXCEPT ![p] = {}]
        /\ \A q \in Procs \ {p} : pc'[q] = pc[q]
    BY <1>7 DEF Unlock, Destroy, Types, ControlTypes
  <2>2. \A g \in Groups : Failed(g) => Failed(g)'
    <3>1. CASE Kind(p) = "reserve"
      <4>1. dir[Current(p).groups[1]] = "none"
        BY <1>7, <3>1 DEF ReserveOwn, Reserving, Unlock, Types, Counted
      <4>. QED BY <1>7, <4>1 DEF Unlock, Failed, Types, FileTypes
    <3>2. CASE Kind(p) # "reserve"
      BY <1>7, <3>2 DEF Unlock, Failed
    <3>. QED BY <3>1, <3>2
  <2>. QED BY <1>2, <2>1, <2>2
<1>8. ASSUME NEW p \in Procs, Step(p) PROVE Registers'
  <2>1. CASE Start(p) \/ LockFree(p) \/ LockHeld(p) \/ MakeLock(p)
             \/ LockChecked(p) \/ ApplyThrows(p) \/ Applied(p) \/ CommitBusy(p)
    <3>1. /\ UNCHANGED <<reserved, registered, writing, pending, dir>>
          /\ \E c \in Control \ {"unlock"} :
               pc' = pc \/ (pc[p] # "unlock" /\ pc' = [pc EXCEPT ![p] = c])
      BY <2>1 DEF Start, LockFree, LockHeld, MakeLock, LockChecked,
                  ApplyThrows, Applied, CommitBusy, Control, Holding
    <3>. QED BY <1>1, <3>1 DEF Failed
  <2>2. CASE Tag(p) \/ BodyThrows(p)
    <3>1. /\ UNCHANGED <<reserved, registered, writing, pending, dir>>
          /\ pc[p] = "body"
          /\ pc' = pc \/ pc' = [pc EXCEPT ![p] = "unwind"]
      BY <2>2 DEF Tag, BodyThrows, NextGroup, Refused
    <3>. QED BY <1>1, <3>1 DEF Failed, Control, Holding
  <2>3. CASE Apply(p)
    <3>1. /\ UNCHANGED <<reserved, registered, writing, pending, pc>>
          /\ \A g \in Groups : Failed(g) => Failed(g)'
      BY <2>3 DEF Apply, Failed, Types, FileTypes
    <3>. QED BY <1>1, <3>1 DEF Control, Holding
  <2>4. CASE NoContainer(p) \/ Underway(p)
    <3>1. UNCHANGED <<reserved, registered, writing, pending, dir>> /\ pc[p] = "idle"
      BY <2>4 DEF NoContainer, Underway
    <3>2. \E c \in {"idle", "dead"} : pc' = [pc EXCEPT ![p] = c]
      BY <2>4 DEF NoContainer, Underway, Fails
    <3>. QED BY <1>1, <3>1, <3>2 DEF Failed, Control
  <2>. QED BY <1>3, <1>4, <1>5, <1>6, <1>7, <1>8, <2>1, <2>2, <2>3, <2>4 DEF Step
<1>9. ASSUME NEW p \in Procs, User(p) PROVE Registers'
  <2>1. UNCHANGED <<reserved, registered, writing, pending, dir, pc>>
    BY <1>9 DEF User, Ask, NewTask, Recover
  <2>. QED BY <1>1, <2>1 DEF Failed, Control, Holding
<1>10. CASE Tick \/ UNCHANGED vars
  <2>1. UNCHANGED <<reserved, registered, writing, pending, dir, pc>>
    BY <1>10 DEF Tick, vars
  <2>. QED BY <2>1 DEF Registers, Failed
<1>. QED BY <1>6, <1>8, <1>9, <1>10 DEF Next, Rest

\* No name is in use at the start.
LEMMA InitWriters == Init => ReserveOwn /\ Registers
BY DEF Init, ReserveOwn, Reserving, Registers

\* A row or a failure for every writer that is taken off the table.
LEMMA WriterAccounted ==
  ASSUME Types, OwnChanges, Registers, [Next]_vars
  PROVE  [\A g \in registered \ registered' : g \in rows' \/ dir[g] = "failure"]_vars
<1>. USE DEF docVars, sqlVars, txVars, history
<1>1. ASSUME NEW p \in Procs, CommitSql(p), NEW g \in registered \ registered'
      PROVE  g \in rows' \/ dir[g] = "failure"
  <2>1. g \in Groups /\ g \in With("deregister", p) /\ pc[p] = "sql"
    BY <1>1 DEF CommitSql, Types, SqlTypes
  <2>2. <<"deregister", g>> \in pending[p]
    BY <2>1 DEF With
  <2>3. CASE dir[g] = "failure"
    BY <2>3
  <2>4. CASE <<"insert", g>> \in pending[p]
    <3>1. Kind(p) # "delete"
      BY <2>4 DEF OwnChanges, Changes
    <3>2. g \notin With("delete", p)
      BY <3>1 DEF With, OwnChanges, Changes
    <3>. QED BY <1>1, <2>1, <2>4, <3>2 DEF CommitSql, With
  <2>. QED BY <2>1, <2>2, <2>3, <2>4 DEF Registers, Failed
<1>2. ASSUME NEW p \in Procs, Step(p), ~CommitSql(p) PROVE registered' = registered
  BY <1>2 DEF Step, Start, NoContainer, Underway, LockFree, LockHeld, NoLock,
     MakeLock, Enter, Close, Abort, Delete, Tag, BodyThrows, LockChecked,
     LockLost, Apply, ApplyThrows, Applied, CommitBusy, Unlock, Unwind, NextGroup
<1>3. ASSUME NEW p \in Procs, User(p) \/ Crash(p) PROVE registered' = registered
  BY <1>3 DEF User, Ask, NewTask, Recover, Crash
<1>4. CASE Tick \/ UNCHANGED vars
  BY <1>4 DEF Tick, vars
<1>. QED BY <1>1, <1>2, <1>3, <1>4 DEF Next, Rest

-----------------------------------------------------------------------------
(* Theorems                                                                *)

IInv == /\ Types /\ Documented
        /\ Locking /\ Refusals
        /\ ReserveOwn /\ Registers

\* Every reachable state satisfies the inductive invariant of the transaction
\* manager and the documents, registers and locks it looks after.
THEOREM RepositoryInvariant == Spec => []IInv
<1>1. Init => IInv
  BY InitTypes, InitDocumented, InitLocking, InitRefusals, InitWriters DEF IInv
<1>2. IInv /\ [Next]_vars => IInv'
  <2>. SUFFICES ASSUME IInv, [Next]_vars PROVE IInv'
    OBVIOUS
  <2>1. Types' /\ Documented'
    BY StepTypes, StepDocumented DEF IInv
  <2>2. Locking' /\ Refusals'
    BY StepLocking, StepRefusals DEF IInv
  <2>3. ReserveOwn' /\ Registers'
    BY StepReserveOwn, StepRegisters DEF IInv, Documented
  <2>. QED BY <2>1, <2>2, <2>3 DEF IInv
<1>. QED BY <1>1, <1>2, PTL DEF Spec

\* The types of the files, the database and the processes; in particular the
\* count of transactions is 0 or 1 although commit() and the destructor may
\* both roll back, and only reserved names are registered.
THEOREM RepositoryTypes == Spec => []TypeOK
<1>1. IInv => TypeOK
  <2>. SUFFICES ASSUME IInv PROVE TypeOK
    OBVIOUS
  <2>1. Asked \subseteq Command
    <3>1. ASSUME NEW k \in TaskKinds, NEW g \in Groups PROVE On(k, g) \in Command
      <4>1. <<g>> \in Seq(Groups) /\ k \in Kinds
        BY DEF TaskKinds
      <4>. QED BY <4>1 DEF On, Command
    <3>. QED BY <3>1 DEF Asked
  <2>2. Seq(Asked) \subseteq Seq(Command)
    BY <2>1, SeqMonotonic
  <2>3. pc \in [Procs -> Holding \cup {"idle", "poll", "make", "dead"}]
        /\ agenda \in [Procs -> Seq(Command)] /\ todo \in [Procs -> Seq(Groups)]
    BY <2>2 DEF IInv, Types, ControlTypes, Control
  <2>4. /\ DOMAIN file = Docs /\ DOMAIN temp = Docs
        /\ \A g \in Groups : \A d \in {file, temp} : d[g] = None \/ d[g] \subseteq Procs
        /\ file[Task] \in Seq(Groups)
        /\ temp[Task] = None \/ temp[Task] \in Seq(Groups)
        /\ dir \in [Groups -> {"none", "output", "failure", "trash"}]
    BY DEF IInv, Types, FileTypes
  <2>5. /\ rows \subseteq Groups /\ reserved \subseteq Groups
        /\ registered \subseteq reserved
        /\ writing \in Procs \cup {None} /\ reading \subseteq Procs
    BY DEF IInv, Types, SqlTypes, Registers
  <2>. QED BY <2>3, <2>4, <2>5 DEF IInv, Types, TxTypes, ClockTypes, TypeOK
<1>. QED BY <1>1, RepositoryInvariant, PTL

\* "Then we have exclusive access to the database until the lockfile is
\* removed": at most one process is between MakeLock and Unlock, as long as no
\* lock file was created over another or broken by a recovery.
THEOREM RepositoryExclusion == Spec => []ExclusiveAccess
<1>1. IInv => ExclusiveAccess
  BY DEF IInv, Locking
<1>. QED BY <1>1, RepositoryInvariant, PTL

\* Only a process that was killed leaves its lock file behind: commit(),
\* rollback() and the destructor remove it on every other path, also when
\* several processes created it.
THEOREM RepositoryUnlocked == Spec => []NoLockLeftBehind
<1>1. IInv => NoLockLeftBehind
  BY DEF IInv, Locking, LockOwned, NoLockLeftBehind, Types, ClockTypes
<1>. QED BY <1>1, RepositoryInvariant, PTL

\* A process is told that a transaction is already underway only after it gave
\* up waiting for the lock, with the transaction counted and never released.
THEOREM RepositoryRefusals == Spec => []RefusedOnlyAfterTimeout
<1>1. IInv => RefusedOnlyAfterTimeout
  BY DEF IInv, Refusals
<1>. QED BY <1>1, RepositoryInvariant, PTL

\* Every content group in the database has its document, whatever transactions
\* overlap, fail in COMMIT or are killed.
THEOREM RepositoryRows == Spec => []RowsDocumented
<1>1. IInv => RowsDocumented
  BY DEF IInv, Documented
<1>. QED BY <1>1, RepositoryInvariant, PTL

\* No step takes a writer off the table of active writers unless its group is
\* stored or its output was put aside as a failure.
THEOREM RepositoryWriters == Spec => WriterNeverForgotten
<1>1. IInv /\ [Next]_vars =>
        [\A g \in registered \ registered' : g \in rows' \/ dir[g] = "failure"]_vars
  BY WriterAccounted DEF IInv, Documented
<1>. QED BY <1>1, RepositoryInvariant, PTL DEF Spec, WriterNeverForgotten
=============================================================================
