----------------------- MODULE RepositoryRecordsProofs -----------------------
(***************************************************************************)
(* Proofs about what transactions leave in the records of a repository:    *)
(* the tags of a content group, its output directory and its entry in the  *)
(* record of its task, as long as transactions do not overlap.             *)
(***************************************************************************)
EXTENDS RepositoryProofs

-----------------------------------------------------------------------------
(* What a transaction has done so far                                      *)

Group(p) == Current(p).groups[1]
Storing(p) == Kind(p) \in {"close", "recover"}

\* Record r is in the journal of p; it has been applied; it has not.
Noted(p, r) == \E i \in DOMAIN journal[p] : journal[p][i] = r
Done(p, r) == \E i \in DOMAIN journal[p] : i < pos[p] /\ journal[p][i] = r
Due(p, r) == \E i \in DOMAIN journal[p] : pos[p] <= i /\ journal[p][i] = r

\* Nothing is changed or noted before the lock is taken, and COMMIT comes when
\* the work is done and the journal applied.
InTurn(p) ==
  /\ pc[p] \in {"idle", "dead", "poll", "make"} => journal[p] = <<>> /\ pending[p] = {}
  /\ pc[p] \in {"poll", "make"} => todo[p] = Current(p).groups
  /\ pc[p] \in {"journal", "sql", "unlock"} => todo[p] = <<>>
  /\ pc[p] = "unlock" => pos[p] > Len(journal[p])

\* The command of a task works on its one group, and does all or nothing.
TaskWork(p) ==
  Inside(p) /\ Kind(p) \in TaskKinds =>
    /\ \A r : Noted(p, r) => Storing(p) /\ r \in {Emplace(Group(p)), Emplace(Task)}
    /\ pending[p] \subseteq Changes(p, Group(p))
    /\ pc[p] = "body" /\ todo[p] # <<>> =>
         todo[p] = <<Group(p)>> /\ journal[p] = <<>> /\ pending[p] = {}
    /\ pc[p] \in {"body", "journal", "sql"} /\ todo[p] = <<>> =>
         /\ pending[p] = Changes(p, Group(p))
         /\ Storing(p) => Noted(p, Emplace(Task))

\* Tags are written to the documents of the groups that were named.
TagWork(p) ==
  Inside(p) /\ Kind(p) = "tag" =>
    /\ pending[p] = {}
    /\ \A r : Noted(p, r) => \E g \in Groups : r = Emplace(g)
    /\ pc[p] # "unwind" => \A k \in DOMAIN Current(p).groups :
         \/ \E j \in DOMAIN todo[p] : todo[p][j] = Current(p).groups[k]
         \/ Noted(p, Emplace(Current(p).groups[k]))

\* Output is moved only of groups that are deleted from the database too.
DeleteWork(p) ==
  Inside(p) /\ Kind(p) = "delete" =>
    /\ \A r : Noted(p, r) =>
         r = Emplace(Task) \/ \E g \in Groups : r = Move(g) /\ <<"delete", g>> \in pending[p]
    /\ pending[p] # {} => Noted(p, Emplace(Task))

Work == \A p \in Procs : InTurn(p) /\ TaskWork(p) /\ TagWork(p) /\ DeleteWork(p)

\* A step of p is no business of the other processes.
Others(p) == \A q \in Procs \ {p} :
  /\ pc'[q] = pc[q] /\ agenda'[q] = agenda[q] /\ todo'[q] = todo[q]
  /\ journal'[q] = journal[q] /\ pos'[q] = pos[q] /\ pending'[q] = pending[q]

\* No step of p, of its user or its end reaches into another process.
LEMMA StepOthers ==
  ASSUME Types, NEW p \in Procs, Step(p) \/ User(p) \/ Crash(p)
  PROVE  Others(p)
<1>. USE DEF Others, Types, ControlTypes, TxTypes, docVars, sqlVars, txVars, history
<1>1. CASE Start(p) \/ NoContainer(p) \/ Underway(p) \/ LockFree(p)
  BY <1>1 DEF Start, NoContainer, Underway, LockFree, Fails
<1>2. CASE LockHeld(p) \/ NoLock(p) \/ MakeLock(p)
  BY <1>2 DEF LockHeld, NoLock, MakeLock, Fails, Destroy
<1>3. CASE Enter(p) \/ Close(p) \/ Tag(p) \/ BodyThrows(p)
  BY <1>3 DEF Enter, Close, Tag, BodyThrows, NextGroup, Written, Refused
<1>4. CASE Abort(p) \/ Delete(p)
  BY <1>4 DEF Abort, Delete, NextGroup, Written, Refused
<1>5. CASE LockChecked(p) \/ LockLost(p) \/ Apply(p) \/ ApplyThrows(p) \/ Applied(p)
  BY <1>5 DEF LockChecked, LockLost, Apply, ApplyThrows, Applied, Fails, Destroy
<1>6. CASE CommitSql(p) \/ CommitBusy(p) \/ Unlock(p) \/ Unwind(p) \/ Crash(p)
  BY <1>6 DEF CommitSql, CommitBusy, Unlock, Unwind, Crash, Fails, Destroy
<1>7. CASE User(p)
  BY <1>7 DEF User, Ask, NewTask, Recover
<1>. QED BY <1>1, <1>2, <1>3, <1>4, <1>5, <1>6, <1>7 DEF Step

\* What depends on the state of q alone stays as it is.
LEMMA SameElsewhere ==
  ASSUME NEW p \in Procs, Others(p), NEW q \in Procs \ {p}
  PROVE  /\ Kind(q)' = Kind(q) /\ Current(q)' = Current(q) /\ Group(q)' = Group(q)
         /\ Inside(q)' = Inside(q) /\ Storing(q)' = Storing(q)
         /\ \A r : /\ Noted(q, r)' = Noted(q, r)
                   /\ Done(q, r)' = Done(q, r) /\ Due(q, r)' = Due(q, r)
         /\ \A g : Changes(q, g)' = Changes(q, g)
BY DEF Others, Kind, Current, Group, Inside, Storing, Noted, Done, Due, Changes

\* A step of p that keeps its own work in order keeps everybody's.
LEMMA WorkFrom ==
  ASSUME Work, NEW p \in Procs, Others(p),
         InTurn(p)' /\ TaskWork(p)' /\ TagWork(p)' /\ DeleteWork(p)'
  PROVE  Work'
<1>1. ASSUME NEW q \in Procs, q # p
      PROVE  InTurn(q)' /\ TaskWork(q)' /\ TagWork(q)' /\ DeleteWork(q)'
  <2>1. /\ pc'[q] = pc[q] /\ todo'[q] = todo[q] /\ journal'[q] = journal[q]
        /\ pos'[q] = pos[q] /\ pending'[q] = pending[q]
    BY <1>1 DEF Others
  <2>2. /\ Kind(q)' = Kind(q) /\ Current(q)' = Current(q) /\ Group(q)' = Group(q)
        /\ Inside(q)' = Inside(q) /\ Storing(q)' = Storing(q)
        /\ \A r : Noted(q, r)' = Noted(q, r)
        /\ \A g : Changes(q, g)' = Changes(q, g)
    BY <1>1, SameElsewhere
  <2>3. InTurn(q)'
    BY <2>1, <2>2 DEF Work, InTurn
  <2>4. TaskWork(q)'
    BY <2>1, <2>2 DEF Work, TaskWork
  <2>5. TagWork(q)' /\ DeleteWork(q)'
    BY <2>1, <2>2 DEF Work, TagWork, DeleteWork
  <2>. QED BY <2>3, <2>4, <2>5
<1>. QED BY <1>1 DEF Work

\* A process that is not inside a transaction has nothing to keep in order.
LEMMA WorkOutside ==
  ASSUME Work, NEW p \in Procs, Others(p), ~Inside(p)', journal'[p] = <<>>,
         pending'[p] = {}, pc'[p] \in {"poll", "make"} => todo'[p] = Current(p)'.groups
  PROVE  Work'
<1>1. InTurn(p)' /\ TaskWork(p)' /\ TagWork(p)' /\ DeleteWork(p)'
  BY DEF InTurn, TaskWork, TagWork, DeleteWork, Inside, Holding
<1>. QED BY <1>1, WorkFrom

\* Steps outside, and steps that leave a transaction.
LEMMA OutsideWork ==
  ASSUME Types, Work, NEW p \in Procs,
         \/ Start(p) \/ NoContainer(p) \/ Underway(p) \/ LockFree(p) \/ LockHeld(p)
         \/ NoLock(p) \/ LockLost(p) \/ Unlock(p) \/ Unwind(p) \/ Crash(p) \/ User(p)
  PROVE  Work'
<1>. USE DEF docVars, sqlVars, txVars, history, Inside, Holding
<1>0. Others(p)
  BY StepOthers DEF Step
<1>1. CASE Start(p) \/ NoContainer(p) \/ Underway(p)
  <2>1. /\ pc[p] = "idle" /\ UNCHANGED <<journal, pending>>
        /\ pc'[p] \in {"idle", "dead", "poll"}
        /\ pc'[p] = "poll" => agenda' = agenda /\ todo'[p] = Current(p).groups
    BY <1>1 DEF Start, NoContainer, Underway, Fails, Types, ControlTypes
  <2>. QED BY <1>0, <2>1, WorkOutside DEF Work, InTurn, Current
<1>2. CASE LockFree(p) \/ LockHeld(p)
  <2>1. /\ pc[p] = "poll" /\ UNCHANGED <<journal, pending, todo, agenda>>
        /\ pc'[p] \in {"poll", "make"}
    BY <1>2 DEF LockFree, LockHeld, Types, ControlTypes
  <2>. QED BY <1>0, <2>1, WorkOutside DEF Work, InTurn, Current
<1>3. CASE NoLock(p) \/ LockLost(p) \/ Unlock(p) \/ Unwind(p) \/ Crash(p)
  <2>1. pc'[p] \in {"idle", "dead"} /\ Destroy(p)
    BY <1>3 DEF NoLock, LockLost, Unlock, Unwind, Crash, Fails, Types, ControlTypes
  <2>2. journal'[p] = <<>> /\ pending'[p] = {}
    BY <2>1 DEF Destroy, Types, TxTypes
  <2>. QED BY <1>0, <2>1, <2>2, WorkOutside
<1>4. CASE User(p)
  <2>1. pc[p] = "idle" /\ UNCHANGED <<journal, pending, pc>>
    BY <1>4 DEF User, Ask, NewTask, Recover
  <2>. QED BY <1>0, <2>1, WorkOutside DEF Work, InTurn
<1>. QED BY <1>1, <1>2, <1>3, <1>4

\* Steps inside a transaction that neither change nor note anything.
LEMMA CalmWork ==
  ASSUME Types, Documented, Work, NEW p \in Procs,
         \/ MakeLock(p) \/ BodyThrows(p) \/ LockChecked(p) \/ Apply(p) \/ ApplyThrows(p)
         \/ Applied(p) \/ CommitSql(p) \/ CommitBusy(p)
  PROVE  Work'
<1>. USE DEF docVars, sqlVars, txVars, history
<1>0. Others(p)
  BY StepOthers DEF Step
<1>1. /\ UNCHANGED <<agenda, journal, pending, todo>> /\ agenda[p] # <<>>
      /\ \/ pc[p] = "make" /\ pc'[p] = "body"
         \/ pc[p] = "body" /\ pc'[p] = "journal" /\ todo[p] = <<>>
         \/ pc[p] \in {"body", "journal", "sql"} /\ pc'[p] = "unwind"
         \/ pc[p] = "journal" /\ pc'[p] \in {"journal", "sql"}
         \/ pc[p] = "sql" /\ pc'[p] = "unlock" /\ pos'[p] = pos[p]
  BY DEF MakeLock, BodyThrows, LockChecked, Apply, ApplyThrows, Applied, CommitSql,
         CommitBusy, NextGroup, Refused, Types, ControlTypes, Counted
<1>2. /\ Kind(p)' = Kind(p) /\ Current(p)' = Current(p) /\ Group(p)' = Group(p)
      /\ Storing(p)' = Storing(p) /\ \A r : Noted(p, r)' = Noted(p, r)
      /\ \A g : Changes(p, g)' = Changes(p, g)
  BY <1>1 DEF Kind, Current, Group, Storing, Noted, Changes
<1>3. Kind(p) \in TaskKinds => Current(p).groups = <<Group(p)>>
  BY <1>1, CurrentType DEF Types, Group
<1>4. InTurn(p) /\ TaskWork(p) /\ TagWork(p) /\ DeleteWork(p)
  BY DEF Work
<1>5. CASE pc[p] = "make"
  <2>1. /\ todo[p] = Current(p).groups /\ journal[p] = <<>> /\ pending[p] = {}
        /\ pc'[p] = "body"
    BY <1>1, <1>4, <1>5 DEF InTurn
  <2>2. \A r : ~Noted(p, r)
    BY <2>1 DEF Noted
  <2>3. InTurn(p)'
    BY <1>1, <2>1 DEF InTurn
  <2>4. TaskWork(p)'
    <3>1. Kind(p) \in TaskKinds => todo'[p] = <<Group(p)>> /\ todo'[p] # <<>>
      BY <1>1, <1>3, <2>1
    <3>. QED BY <1>1, <1>2, <2>1, <2>2, <3>1 DEF TaskWork
  <2>5. TagWork(p)' /\ DeleteWork(p)'
    BY <1>1, <1>2, <2>1, <2>2 DEF TagWork, DeleteWork
  <2>. QED BY <1>0, <2>3, <2>4, <2>5, WorkFrom
<1>6. CASE pc[p] # "make"
  <2>1. Inside(p) /\ pc[p] # "unlock"
    BY <1>1, <1>6 DEF Inside, Holding
  <2>2. InTurn(p)'
    BY <1>1, <1>4, <1>6 DEF InTurn, Documented, DocumentFirst
  <2>3. TaskWork(p)'
    BY <1>1, <1>2, <1>4, <1>6, <2>1 DEF TaskWork, InTurn
  <2>4. TagWork(p)'
    BY <1>1, <1>2, <1>4, <1>6, <2>1 DEF TagWork, InTurn
  <2>5. DeleteWork(p)'
    BY <1>1, <1>2, <1>4, <1>6, <2>1 DEF DeleteWork, InTurn
  <2>. QED BY <1>0, <2>2, <2>3, <2>4, <2>5, WorkFrom
<1>. QED BY <1>5, <1>6

\* What has been noted when records are added to a journal.
LEMMA NotedGrows ==
  ASSUME Types, NEW p \in Procs, NEW add \in Seq(Records),
         journal' = [journal EXCEPT ![p] = @ \o add]
  PROVE  \A r : Noted(p, r)' <=> Noted(p, r) \/ \E j \in DOMAIN add : add[j] = r
<1>1. /\ journal'[p] = journal[p] \o add /\ journal[p] \in Seq(Records)
      /\ journal'[p] \in Seq(Records)
  BY JournalGrows DEF Types, TxTypes
<1>. DEFINE s == journal[p]  t == journal'[p]
<1>2. /\ Len(t) = Len(s) + Len(add)
      /\ \A i \in 1 .. Len(s) + Len(add) :
           t[i] = IF i <= Len(s) THEN s[i] ELSE add[i - Len(s)]
  BY <1>1, ConcatProperties
<1>3. /\ DOMAIN s = 1 .. Len(s) /\ DOMAIN t = 1 .. Len(t) /\ DOMAIN add = 1 .. Len(add)
      /\ Len(s) \in Nat /\ Len(add) \in Nat
  BY <1>1
<1>. HIDE DEF s, t
<1>4. ASSUME NEW i \in DOMAIN t
      PROVE  (\E k \in DOMAIN s : s[k] = t[i]) \/ \E j \in DOMAIN add : add[j] = t[i]
  <2>1. CASE i <= Len(s)
    BY <1>2, <1>3, <2>1
  <2>2. CASE ~(i <= Len(s))
    <3>1. i - Len(s) \in DOMAIN add /\ add[i - Len(s)] = t[i]
      BY <1>2, <1>3, <2>2
    <3>. QED BY <3>1
  <2>. QED BY <2>1, <2>2
<1>5. \A k \in DOMAIN s : \E i \in DOMAIN t : t[i] = s[k]
  BY <1>2, <1>3
<1>6. \A j \in DOMAIN add : \E i \in DOMAIN t : t[i] = add[j]
  BY JournalGrows DEF t
<1>7. \A r : Noted(p, r)' <=> \E i \in DOMAIN t : t[i] = r
  BY DEF Noted, t
<1>8. \A r : Noted(p, r) <=> \E i \in DOMAIN s : s[i] = r
  BY DEF Noted, s
<1>. QED BY <1>4, <1>5, <1>6, <1>7, <1>8

\* A record is added at the end.
LEMMA NotedOne ==
  ASSUME Types, NEW p \in Procs, NEW x \in Records,
         journal' = [journal EXCEPT ![p] = Append(@, x)]
  PROVE  \A r : Noted(p, r)' <=> Noted(p, r) \/ r = x
<1>1. journal[p] \in Seq(Records) /\ journal'[p] = Append(journal[p], x)
  BY DEF Types, TxTypes
<1>2. /\ DOMAIN journal'[p] = 1 .. Len(journal[p]) + 1 /\ Len(journal[p]) \in Nat
      /\ DOMAIN journal[p] = 1 .. Len(journal[p])
      /\ \A i \in 1 .. Len(journal[p]) : journal'[p][i] = journal[p][i]
      /\ journal'[p][Len(journal[p]) + 1] = x
  BY <1>1, AppendProperties
<1>. QED BY <1>2 DEF Noted

\* Two records are added at the end.
LEMMA NotedTwo ==
  ASSUME Types, NEW p \in Procs, NEW x \in Records, NEW y \in Records,
         journal' = [journal EXCEPT ![p] = @ \o <<x, y>>]
  PROVE  \A r : Noted(p, r)' <=> Noted(p, r) \/ r \in {x, y}
<1>. DEFINE add == <<x, y>>
<1>1. add \in Seq(Records) /\ DOMAIN add = 1 .. 2 /\ add[1] = x /\ add[2] = y
  OBVIOUS
<1>. HIDE DEF add
<1>2. journal' = [journal EXCEPT ![p] = @ \o add]
  BY DEF add
<1>3. \A r : Noted(p, r)' <=> Noted(p, r) \/ \E j \in DOMAIN add : add[j] = r
  BY <1>1, <1>2, NotedGrows
<1>. QED BY <1>1, <1>3

\* The work of a command before it is done.
LEMMA BodyWork ==
  ASSUME Types, Work, NEW p \in Procs, NextGroup(p)
  PROVE  /\ Inside(p) /\ agenda[p] # <<>> /\ pc[p] = "body" /\ todo[p] # <<>>
         /\ todo[p][1] \in Groups /\ Kind(p) \in Kinds
         /\ UNCHANGED <<agenda, pos>>
         /\ Kind(p)' = Kind(p) /\ Current(p)' = Current(p) /\ Group(p)' = Group(p)
         /\ Storing(p)' = Storing(p)
         /\ \A g : Changes(p, g)' = Changes(p, g)
         /\ Kind(p) \in TaskKinds =>
              /\ todo[p] = <<Group(p)>> /\ todo[p][1] = Group(p) /\ Tail(todo[p]) = <<>>
              /\ journal[p] = <<>> /\ pending[p] = {}
<1>1. pc[p] = "body" /\ todo[p] # <<>> /\ Inside(p) /\ agenda[p] # <<>> /\ agenda' = agenda
  BY DEF NextGroup, Inside, Holding, Types, Counted
<1>2. Kind(p) \in Kinds
  BY <1>1, CurrentType DEF Types
<1>3. todo[p][1] \in Groups
  BY <1>1, WorkTypes
<1>4. Kind(p) \in TaskKinds =>
        todo[p] = <<Group(p)>> /\ journal[p] = <<>> /\ pending[p] = {}
  BY <1>1 DEF Work, TaskWork
<1>5. Kind(p) \in TaskKinds => todo[p][1] = Group(p) /\ Tail(todo[p]) = <<>>
  <2>1. ASSUME NEW x PROVE <<x>>[1] = x /\ Tail(<<x>>) = <<>>
    <3>1. <<x>> \in Seq({x}) /\ Len(<<x>>) = 1
      OBVIOUS
    <3>2. Tail(<<x>>) \in Seq({x}) /\ Len(Tail(<<x>>)) = 0
      BY <3>1
    <3>. QED BY <3>2
  <2>. QED BY <1>4, <2>1
<1>6. UNCHANGED <<agenda, pos>>
  BY DEF NextGroup
<1>7. /\ Kind(p)' = Kind(p) /\ Current(p)' = Current(p) /\ Group(p)' = Group(p)
      /\ Storing(p)' = Storing(p) /\ \A g : Changes(p, g)' = Changes(p, g)
  BY <1>1 DEF Kind, Current, Group, Storing, Changes
<1>. QED BY <1>1, <1>2, <1>3, <1>4, <1>5, <1>6, <1>7

\* What is written, and what is refused.
LEMMA Outcome ==
  ASSUME Types, NEW p \in Procs, NEW g, pc[p] = "body"
  PROVE  /\ Written(p, g) => /\ pending'[p] = pending[p] \cup Changes(p, g)
                             /\ todo'[p] = Tail(todo[p]) /\ pc'[p] = "body"
         /\ Refused(p) => /\ pending'[p] = pending[p] /\ todo'[p] = todo[p]
                          /\ pc'[p] = "unwind"
BY DEF Written, Refused, Types, ControlTypes, TxTypes

\* The commands of a task work on their group.
LEMMA TaskBodyWork ==
  ASSUME Types, Work, NEW p \in Procs, Enter(p) \/ Close(p) \/ Abort(p)
  PROVE  Work'
<1>. DEFINE g == Group(p)
<1>0. Others(p)
  BY StepOthers DEF Step
<1>1. NextGroup(p) /\ Kind(p) \in TaskKinds
  BY DEF Enter, Close, Abort, TaskKinds, Kinds
<1>2. /\ Inside(p) /\ pc[p] = "body" /\ todo[p][1] = g /\ g \in Groups
      /\ journal[p] = <<>> /\ pending[p] = {} /\ Tail(todo[p]) = <<>> /\ todo[p] # <<>>
      /\ Kind(p)' = Kind(p) /\ Group(p)' = g /\ Storing(p)' = Storing(p)
      /\ Changes(p, g)' = Changes(p, g)
  BY <1>1, BodyWork
<1>3. \A r : Noted(p, r)' => Storing(p) /\ r \in {Emplace(g), Emplace(Task)}
  <2>1. CASE Close(p)
    <3>1. journal' = [journal EXCEPT ![p] = @ \o <<Emplace(g), Emplace(Task)>>]
      BY <1>2, <2>1 DEF Close, Deposits
    <3>2. \A r : Noted(p, r)' <=> Noted(p, r) \/ r \in {Emplace(g), Emplace(Task)}
      BY <1>2, <3>1, RecordTypes, NotedTwo
    <3>. QED BY <1>2, <2>1, <3>2 DEF Close, Storing, Noted
  <2>2. CASE Enter(p) \/ Abort(p)
    BY <1>2, <2>2 DEF Enter, Abort, Noted
  <2>. QED BY <2>1, <2>2
<1>4. Storing(p) => Noted(p, Emplace(Task))'
  <2>1. HAVE Storing(p)
  <2>2. Close(p)
    BY <2>1 DEF Storing, Enter, Abort
  <2>3. journal' = [journal EXCEPT ![p] = @ \o <<Emplace(g), Emplace(Task)>>]
    BY <1>2, <2>2 DEF Close, Deposits
  <2>4. \A r : Noted(p, r)' <=> Noted(p, r) \/ r \in {Emplace(g), Emplace(Task)}
    BY <1>2, <2>3, RecordTypes, NotedTwo
  <2>. QED BY <2>4
<1>5. CASE Written(p, g)
  <2>1. /\ pending'[p] = Changes(p, g) /\ todo'[p] = <<>> /\ pc'[p] = "body"
    BY <1>2, <1>5, Outcome
  <2>2. InTurn(p)' /\ TagWork(p)' /\ DeleteWork(p)'
    BY <1>1, <1>2, <2>1 DEF InTurn, TagWork, DeleteWork, TaskKinds
  <2>3. TaskWork(p)'
    BY <1>2, <1>3, <1>4, <2>1 DEF TaskWork
  <2>. QED BY <1>0, <2>2, <2>3, WorkFrom
<1>6. CASE Refused(p)
  <2>1. /\ pending'[p] = {} /\ todo'[p] = todo[p] /\ pc'[p] = "unwind"
    BY <1>2, <1>6, Outcome
  <2>2. InTurn(p)' /\ TagWork(p)' /\ DeleteWork(p)'
    BY <1>1, <1>2, <2>1 DEF InTurn, TagWork, DeleteWork, TaskKinds
  <2>3. TaskWork(p)'
    BY <1>2, <1>3, <2>1 DEF TaskWork
  <2>. QED BY <1>0, <2>2, <2>3, WorkFrom
<1>7. Written(p, g) \/ Refused(p)
  BY <1>2 DEF Enter, Close, Abort
<1>. QED BY <1>5, <1>6, <1>7

\* Output that is to be moved is deleted from the database too.
LEMMA DeleteBodyWork ==
  ASSUME Types, Documented, Work, NEW p \in Procs, Delete(p)
  PROVE  Work'
<1>. PICK g \in Groups : g = todo[p][1]
  BY BodyWork DEF Delete
<1>0. Others(p)
  BY StepOthers DEF Step
<1>1. NextGroup(p) /\ Kind(p) = "delete"
  BY DEF Delete
<1>2. /\ Inside(p) /\ pc[p] = "body" /\ g \in Groups
      /\ Kind(p)' = Kind(p)
      /\ Changes(p, g) = {<<"delete", g>>}
  BY <1>1, BodyWork DEF Changes
<1>3. DeleteWork(p)
  BY DEF Work
<1>4. CASE Written(p, g) /\ journal' = [journal EXCEPT ![p] = @ \o <<Emplace(Task), Move(g)>>]
  <2>1. /\ pending'[p] = pending[p] \cup {<<"delete", g>>} /\ pc'[p] = "body"
    BY <1>2, <1>4, Outcome
  <2>2. \A r : Noted(p, r)' <=> Noted(p, r) \/ r \in {Emplace(Task), Move(g)}
    BY <1>2, <1>4, RecordTypes, NotedTwo
  <2>3. InTurn(p)' /\ TaskWork(p)' /\ TagWork(p)'
    BY <1>1, <1>2, <2>1 DEF InTurn, TaskWork, TagWork, TaskKinds
  <2>4. DeleteWork(p)'
    BY <1>1, <1>2, <1>3, <2>1, <2>2 DEF DeleteWork
  <2>. QED BY <1>0, <2>3, <2>4, WorkFrom
<1>5. CASE Refused(p) /\ journal' = [journal EXCEPT ![p] = Append(@, Emplace(Task))]
  <2>1. /\ pending'[p] = pending[p] /\ pc'[p] = "unwind"
    BY <1>2, <1>5, Outcome
  <2>2. \A r : Noted(p, r)' <=> Noted(p, r) \/ r = Emplace(Task)
    BY <1>2, <1>5, RecordTypes, NotedOne
  <2>3. InTurn(p)' /\ TaskWork(p)' /\ TagWork(p)'
    BY <1>1, <1>2, <2>1 DEF InTurn, TaskWork, TagWork, TaskKinds
  <2>4. DeleteWork(p)'
    BY <1>1, <1>2, <1>3, <2>1, <2>2 DEF DeleteWork
  <2>. QED BY <1>0, <2>3, <2>4, WorkFrom
<1>. QED BY <1>4, <1>5 DEF Delete

\* A group named leaves the list of what is to do when it is noted.
LEMMA TagBodyWork ==
  ASSUME Types, Work, NEW p \in Procs, Tag(p)
  PROVE  Work'
<1>. PICK g \in Groups : g = todo[p][1]
  BY BodyWork DEF Tag
<1>0. Others(p)
  BY StepOthers DEF Step
<1>1. NextGroup(p) /\ Kind(p) = "tag"
  BY DEF Tag
<1>2. /\ Inside(p) /\ pc[p] = "body" /\ g \in Groups /\ todo[p] # <<>>
      /\ Kind(p)' = Kind(p) /\ Current(p)' = Current(p)
  BY <1>1, BodyWork
<1>3. TagWork(p)
  BY DEF Work
<1>4. /\ todo'[p] = Tail(todo[p]) /\ todo[p] \in Seq(Groups)
      /\ pc'[p] = "body" /\ pending'[p] = pending[p]
      /\ journal' = [journal EXCEPT ![p] = Append(@, Emplace(g))]
  BY <1>2 DEF Tag, Types, ControlTypes
<1>5. \A r : Noted(p, r)' <=> Noted(p, r) \/ r = Emplace(g)
  BY <1>2, <1>4, RecordTypes, NotedOne
<1>6. ASSUME NEW h, NEW j \in DOMAIN todo[p], todo[p][j] = h
      PROVE  Noted(p, Emplace(h))' \/ \E i \in DOMAIN todo'[p] : todo'[p][i] = h
  <2>1. CASE j = 1
    BY <1>5, <1>6, <2>1
  <2>2. CASE j # 1
    <3>1. j - 1 \in DOMAIN todo'[p] /\ todo'[p][j - 1] = todo[p][j]
      BY <1>2, <1>4, <2>2
    <3>. QED BY <1>6, <3>1
  <2>. QED BY <2>1, <2>2
<1>7. InTurn(p)' /\ TaskWork(p)' /\ DeleteWork(p)'
  BY <1>1, <1>2, <1>4 DEF InTurn, TaskWork, DeleteWork, TaskKinds
<1>8. TagWork(p)'
  <2>1. pc[p] # "unwind"
    BY <1>2
  <2>2. ASSUME NEW k \in DOMAIN Current(p).groups, NEW h, h = Current(p).groups[k]
        PROVE  Noted(p, Emplace(h))' \/ \E j \in DOMAIN todo'[p] : todo'[p][j] = h
    <3>1. Noted(p, Emplace(h)) \/ \E j \in DOMAIN todo[p] : todo[p][j] = h
      BY <1>1, <1>2, <1>3, <2>1, <2>2 DEF TagWork
    <3>. QED BY <1>5, <1>6, <3>1
  <2>3. \A k \in DOMAIN Current(p)'.groups :
          \/ \E j \in DOMAIN todo'[p] : todo'[p][j] = Current(p)'.groups[k]
          \/ Noted(p, Emplace(Current(p).groups[k]))'
    BY <1>2, <2>2
  <2>4. pending'[p] = {} /\ \A r : Noted(p, r)' => \E h \in Groups : r = Emplace(h)
    BY <1>1, <1>2, <1>3, <1>4, <1>5 DEF TagWork
  <2>. QED BY <2>3, <2>4 DEF TagWork
<1>. QED BY <1>0, <1>7, <1>8, WorkFrom

\* At no step does a transaction lose track of its work.
LEMMA StepWork ==
  ASSUME Types, Documented, Work, [Next]_vars
  PROVE  Work'
<1>1. ASSUME NEW p \in Procs, Step(p) \/ User(p) \/ Crash(p) PROVE Work'
  BY <1>1, OutsideWork, CalmWork, TaskBodyWork, DeleteBodyWork, TagBodyWork DEF Step
<1>2. CASE Tick \/ UNCHANGED vars
  <2>1. UNCHANGED <<pc, agenda, todo, journal, pos, pending>>
    BY <1>2 DEF Tick, vars, txVars
  <2>2. ASSUME NEW p \in Procs
        PROVE  InTurn(p)' /\ TaskWork(p)' /\ TagWork(p)' /\ DeleteWork(p)'
    <3>1. /\ Kind(p)' = Kind(p) /\ Current(p)' = Current(p) /\ Group(p)' = Group(p)
          /\ Inside(p)' = Inside(p) /\ Storing(p)' = Storing(p)
          /\ \A r : Noted(p, r)' = Noted(p, r)
          /\ \A g : Changes(p, g)' = Changes(p, g)
      BY <2>1 DEF Inside, Kind, Group, Current, Storing, Noted, Changes
    <3>2. InTurn(p)' /\ TaskWork(p)'
      BY <2>1, <3>1 DEF Work, InTurn, TaskWork
    <3>3. TagWork(p)' /\ DeleteWork(p)'
      BY <2>1, <3>1 DEF Work, TagWork, DeleteWork
    <3>. QED BY <3>2, <3>3
  <2>. QED BY <2>2 DEF Work
<1>. QED BY <1>1, <1>2 DEF Next, Rest

\* Nobody has done anything at the start.
LEMMA InitWork == Init => Work
BY DEF Init, Work, InTurn, TaskWork, TagWork, DeleteWork, Inside, Holding

\* The next record of a journal is counted from one.
Counting == pos \in [Procs -> Nat \ {0}]

\* Applying a record adds one, and a new transaction begins at one.
LEMMA StepCounting ==
  ASSUME Counting, [Next]_vars
  PROVE  Counting'
<1>. USE DEF Counting, docVars, sqlVars, txVars, history
<1>1. ASSUME NEW p \in Procs, Step(p) \/ User(p) \/ Crash(p)
      PROVE  pos' = pos \/ \E i \in Nat \ {0} : pos' = [pos EXCEPT ![p] = i]
  <2>1. CASE Start(p) \/ NoContainer(p) \/ Underway(p) \/ LockFree(p) \/ LockHeld(p)
             \/ MakeLock(p) \/ LockChecked(p) \/ ApplyThrows(p) \/ Applied(p)
             \/ CommitSql(p) \/ CommitBusy(p)
    BY <2>1 DEF Start, NoContainer, Underway, LockFree, LockHeld, MakeLock, LockChecked,
                ApplyThrows, Applied, CommitSql, CommitBusy
  <2>2. CASE Enter(p) \/ Close(p) \/ Tag(p) \/ BodyThrows(p) \/ Abort(p) \/ Delete(p)
    BY <2>2 DEF Enter, Close, Tag, BodyThrows, Abort, Delete, NextGroup
  <2>3. CASE NoLock(p) \/ LockLost(p) \/ Unlock(p) \/ Unwind(p) \/ Crash(p)
    BY <2>3 DEF NoLock, LockLost, Unlock, Unwind, Crash, Destroy
  <2>4. CASE Apply(p)
    <3>1. pos' = [pos EXCEPT ![p] = pos[p] + 1]
      BY <2>4 DEF Apply
    <3>2. pos[p] + 1 \in Nat \ {0}
      OBVIOUS
    <3>. QED BY <3>1, <3>2
  <2>5. CASE User(p)
    BY <2>5 DEF User, Ask, NewTask, Recover
  <2>. QED BY <1>1, <2>1, <2>2, <2>3, <2>4, <2>5 DEF Step
<1>2. CASE Tick \/ UNCHANGED vars
  BY <1>2 DEF Tick, vars
<1>. QED BY <1>1, <1>2 DEF Next, Rest

\* What went wrong once is remembered.
LEMMA NeverForgiven ==
  ASSUME Types, [Next]_vars
  PROVE  (intruded => intruded') /\ (torn => torn')
<1>. USE DEF docVars, sqlVars, txVars, history
<1>0. intruded \in BOOLEAN /\ torn \in BOOLEAN
  BY DEF Types, ClockTypes
<1>1. ASSUME NEW p \in Procs, Step(p) \/ User(p) \/ Crash(p)
      PROVE  /\ intruded' = intruded \/ \E b \in BOOLEAN : intruded' = (intruded \/ b)
             /\ torn' = torn \/ \E b \in BOOLEAN : torn' = (torn \/ b)
  <2>1. CASE Start(p) \/ NoContainer(p) \/ Underway(p) \/ LockFree(p) \/ LockHeld(p)
             \/ MakeLock(p) \/ LockChecked(p) \/ ApplyThrows(p) \/ Applied(p) \/ Apply(p)
             \/ CommitSql(p) \/ CommitBusy(p)
    BY <2>1 DEF Start, NoContainer, Underway, LockFree, LockHeld, MakeLock, LockChecked,
                ApplyThrows, Applied, CommitSql, CommitBusy, Apply
  <2>2. CASE Enter(p) \/ Close(p) \/ Tag(p) \/ BodyThrows(p) \/ Abort(p) \/ Delete(p)
    BY <2>2 DEF Enter, Close, Tag, BodyThrows, Abort, Delete, NextGroup
  <2>3. CASE NoLock(p) \/ LockLost(p) \/ Unlock(p) \/ Unwind(p) \/ Crash(p)
    BY <2>3 DEF NoLock, LockLost, Unlock, Unwind, Crash
  <2>4. CASE User(p)
    BY <2>4 DEF User, Ask, NewTask, Recover
  <2>. QED BY <1>1, <2>1, <2>2, <2>3, <2>4 DEF Step
<1>2. CASE Tick \/ UNCHANGED vars
  BY <1>2 DEF Tick, vars
<1>. QED BY <1>0, <1>1, <1>2 DEF Next, Rest

-----------------------------------------------------------------------------
(* Whose group it is                                                       *)

\* A process has several commands ahead of it only while it recovers several
\* writers, or before the last step of a task.
InOrder(a) == \A i, j \in DOMAIN a : i < j =>
  \/ /\ a[i].kind = "recover" /\ a[j].kind = "recover"
     /\ a[i].groups # a[j].groups
  \/ /\ a[i].kind \in {"reserve", "register"}
     /\ a[j].kind \in {"register", "close", "abort"}
     /\ a[i].groups = a[j].groups
Plans == \A p \in Procs : InOrder(agenda[p])

\* The agenda of a process is left alone, goes on, is given up, or is new.
LEMMA AgendaMoves ==
  ASSUME Types, NEW p \in Procs, Step(p) \/ User(p) \/ Crash(p)
  PROVE  \/ agenda'[p] = agenda[p]
         \/ agenda'[p] = Tail(agenda[p]) /\ agenda[p] # <<>>
         \/ agenda'[p] = <<>>
         \/ /\ agenda[p] # <<>> /\ Kind(p) \in {"register", "close", "recover"}
            /\ agenda'[p] = <<On("abort", Group(p))>>
         \/ \E c \in Commands : agenda'[p] = <<c>>
         \/ \E g \in Groups, end \in {"close", "abort"} :
              /\ dir[g] = "none"
              /\ agenda'[p] = <<On("reserve", g), On("register", g), On(end, g)>>
         \/ \E list \in [1 .. Cardinality(registered) -> registered] :
              /\ registered = {list[i] : i \in DOMAIN list}
              /\ agenda'[p] = [i \in DOMAIN list |-> On("recover", list[i])]
<1>. USE DEF Types, ControlTypes, docVars, sqlVars, txVars, history
<1>1. CASE Start(p) \/ LockFree(p) \/ LockHeld(p) \/ MakeLock(p)
  BY <1>1 DEF Start, LockFree, LockHeld, MakeLock
<1>2. CASE Enter(p) \/ Close(p) \/ Tag(p) \/ BodyThrows(p) \/ Abort(p) \/ Delete(p)
  BY <1>2 DEF Enter, Close, Tag, BodyThrows, Abort, Delete, NextGroup
<1>3. CASE LockChecked(p) \/ Apply(p) \/ ApplyThrows(p) \/ Applied(p)
           \/ CommitSql(p) \/ CommitBusy(p)
  BY <1>3 DEF LockChecked, Apply, ApplyThrows, Applied, CommitSql, CommitBusy
<1>4. CASE NoContainer(p) \/ Underway(p) \/ NoLock(p) \/ LockLost(p) \/ Unwind(p)
  <2>1. Fails(p) /\ agenda[p] # <<>>
    BY <1>4 DEF NoContainer, Underway, NoLock, LockLost, Unwind, Counted
  <2>. QED BY <2>1 DEF Fails, Group
<1>5. CASE Unlock(p) \/ Crash(p)
  BY <1>5 DEF Unlock, Crash, Counted
<1>6. CASE User(p)
  <2>1. ASSUME NEW c \in Commands, Ask(p, c) PROVE agenda'[p] = <<c>>
    BY <2>1 DEF Ask
  <2>2. ASSUME NEW g \in Groups, NEW end \in {"close", "abort"}, NewTask(p, g, end)
        PROVE  /\ dir[g] = "none"
               /\ agenda'[p] = <<On("reserve", g), On("register", g), On(end, g)>>
    BY <2>2 DEF NewTask
  <2>3. ASSUME NEW list \in [1 .. Cardinality(registered) -> registered], Recover(p, list)
        PROVE  /\ registered = {list[i] : i \in DOMAIN list}
               /\ agenda'[p] = [i \in DOMAIN list |-> On("recover", list[i])]
    BY <2>3 DEF Recover
  <2>. QED BY <1>6, <2>1, <2>2, <2>3 DEF User
<1>. QED BY <1>1, <1>2, <1>3, <1>4, <1>5, <1>6 DEF Step

\* A list of all the writers names each of them once.
LEMMA WritersListedOnce ==
  ASSUME Types, NEW list \in [1 .. Cardinality(registered) -> registered],
         registered = {list[i] : i \in DOMAIN list}
  PROVE  \A i, j \in DOMAIN list : list[i] = list[j] => i = j
<1>1. IsFiniteSet(registered)
  BY GroupsAssumption, FS_Subset DEF Types, SqlTypes
<1>2. Cardinality(registered) \in Nat
  BY <1>1, FS_CardinalityType
<1>3. IsFiniteSet(1 .. Cardinality(registered))
      /\ Cardinality(1 .. Cardinality(registered)) = Cardinality(registered)
  <2>1. ASSUME NEW n \in Nat PROVE IsFiniteSet(1 .. n) /\ Cardinality(1 .. n) = n
    <3>1. /\ IsFiniteSet(1 .. n)
          /\ Cardinality(1 .. n) = IF 1 > n THEN 0 ELSE n - 1 + 1
      BY FS_Interval
    <3>. QED BY <3>1
  <2>. QED BY <1>2, <2>1
<1>4. list \in Surjection(1 .. Cardinality(registered), registered)
  BY DEF Surjection
<1>5. list \in Injection(1 .. Cardinality(registered), registered)
  BY <1>1, <1>3, <1>4, FS_SurjSameCardinalityImpliesInj
<1>. QED BY <1>5 DEF Injection, IsInjective

\* Agendas stay in order.
LEMMA StepPlans ==
  ASSUME Types, Plans, [Next]_vars
  PROVE  Plans'
<1>1. ASSUME NEW p \in Procs, Step(p) \/ User(p) \/ Crash(p) PROVE Plans'
  <2>1. \A q \in Procs \ {p} : agenda'[q] = agenda[q]
    BY <1>1, StepOthers DEF Others
  <2>2. InOrder(agenda[p]) /\ agenda[p] \in Seq(Asked)
    BY DEF Plans, Types, ControlTypes
  <2>3. CASE agenda'[p] = Tail(agenda[p]) /\ agenda[p] # <<>>
    <3>1. \A i \in DOMAIN agenda'[p] :
            i + 1 \in DOMAIN agenda[p] /\ agenda'[p][i] = agenda[p][i + 1] /\ i \in Nat
      BY <2>2, <2>3
    <3>2. InOrder(agenda'[p])
      BY <2>2, <3>1 DEF InOrder
    <3>. QED BY <2>1, <3>2 DEF Plans
  <2>4. ASSUME NEW c, agenda'[p] = <<c>> PROVE Plans'
    <3>1. DOMAIN agenda'[p] = {1}
      BY <2>4
    <3>2. InOrder(agenda'[p])
      BY <3>1 DEF InOrder
    <3>. QED BY <2>1, <3>2 DEF Plans
  <2>5. ASSUME NEW g \in Groups, NEW end \in {"close", "abort"},
               agenda'[p] = <<On("reserve", g), On("register", g), On(end, g)>>
        PROVE  Plans'
    <3>1. /\ DOMAIN agenda'[p] = 1 .. 3 /\ agenda'[p][1] = On("reserve", g)
          /\ agenda'[p][2] = On("register", g) /\ agenda'[p][3] = On(end, g)
      BY <2>5
    <3>2. InOrder(agenda'[p])
      BY <3>1 DEF InOrder, On
    <3>. QED BY <2>1, <3>2 DEF Plans
  <2>6. ASSUME NEW list \in [1 .. Cardinality(registered) -> registered],
               registered = {list[i] : i \in DOMAIN list},
               agenda'[p] = [i \in DOMAIN list |-> On("recover", list[i])]
        PROVE  Plans'
    <3>1. \A i, j \in DOMAIN list : list[i] = list[j] => i = j
      BY <2>6, WritersListedOnce
    <3>2. \A g, h : On("recover", g).kind = "recover"
                    /\ (On("recover", g).groups = On("recover", h).groups => g = h)
      BY DEF On
    <3>3. DOMAIN list \subseteq Int
      OBVIOUS
    <3>4. InOrder(agenda'[p])
      BY <2>6, <3>1, <3>2, <3>3 DEF InOrder
    <3>. QED BY <2>1, <3>4 DEF Plans
  <2>7. CASE agenda'[p] = agenda[p] \/ agenda'[p] = <<>>
    BY <2>1, <2>2, <2>7 DEF Plans, InOrder
  <2>. QED BY <1>1, <2>3, <2>4, <2>5, <2>6, <2>7, AgendaMoves
<1>2. CASE Tick \/ UNCHANGED vars
  BY <1>2 DEF Tick, vars, Plans
<1>. QED BY <1>1, <1>2 DEF Next, Rest

\* A task on the agenda of p works on group g; its group is in the database
\* and the command almost over.
Has(p, g) == \E i \in DOMAIN agenda[p] :
  agenda[p][i].kind \in TaskKinds /\ agenda[p][i].groups = <<g>>
Stocked(p, g) == Storing(p) /\ pc[p] = "unlock" /\ Group(p) = g

\* A group is produced, or given up, by one process.
OneHand == \A p, q \in Procs, g \in Groups : Has(p, g) /\ Has(q, g) => p = q
\* What is in the database is no longer reserved, and has been produced.
Known ==
  /\ \A g \in rows : g \notin reserved /\ dir[g] # "none"
  /\ \A g \in registered : dir[g] # "none"
Unstored(p) == \A g \in Groups : Has(p, g) /\ ~Stocked(p, g) => g \notin rows
\* The output a task needs is there.
Ready(p) == agenda[p] # <<>> =>
  /\ Kind(p) # "reserve" => \A g \in Groups : Has(p, g) => dir[g] # "none"
  /\ Kind(p) \in {"register", "close"} => dir[Group(p)] = "output"
  /\ Kind(p) = "recover" /\ pc[p] # "idle" => dir[Group(p)] = "output"
\* A user's command moves and tags what is stored.
Upon(p) == \A g \in Groups : Inside(p) =>
  /\ pc[p] # "unlock" /\ Noted(p, Move(g)) => g \in rows
  /\ Kind(p) = "tag" /\ Noted(p, Emplace(g)) => g \in rows
Possession ==
  ~intruded => OneHand /\ Known /\ \A p \in Procs : Unstored(p) /\ Ready(p) /\ Upon(p)

\* The group of a task's command is on the agenda.
LEMMA HasCurrent ==
  ASSUME Types, NEW p \in Procs, agenda[p] # <<>>, Kind(p) \in TaskKinds
  PROVE  Has(p, Group(p)) /\ Group(p) \in Groups
<1>1. Current(p).groups = <<Group(p)>> /\ Group(p) \in Groups
  BY CurrentType DEF Types, Group
<1>2. agenda[p] \in Seq(Asked)
  BY DEF Types, ControlTypes
<1>3. 1 \in DOMAIN agenda[p]
  BY <1>2
<1>. QED BY <1>1, <1>3 DEF Has, Kind, Current

\* What a step of p may change without disturbing q.
LEMMA Bystander ==
  ASSUME Types, Locking, Possession, ~intruded, NEW p \in Procs, Others(p),
         NEW q \in Procs \ {p},
         \A g \in Groups : g \in rows' => g \in rows \/ Has(p, g),
         \A g \in Groups : dir[g] # "none" => dir'[g] # "none",
         \A g \in Groups : dir[g] = "output" =>
           \/ dir'[g] = "output" \/ Has(p, g)
           \/ g \in rows /\ Inside(p) /\ pc[p] # "unlock",
         Inside(p) \/ rows \subseteq rows'
  PROVE  Unstored(q)' /\ Ready(q)' /\ Upon(q)'
<1>0. /\ pc'[q] = pc[q] /\ agenda'[q] = agenda[q]
      /\ Kind(q)' = Kind(q) /\ Group(q)' = Group(q) /\ Storing(q)' = Storing(q)
      /\ Inside(q)' = Inside(q) /\ \A r : Noted(q, r)' = Noted(q, r)
  BY SameElsewhere DEF Others
<1>1. \A g : Has(q, g)' = Has(q, g) /\ Stocked(q, g)' = Stocked(q, g)
  BY <1>0 DEF Has, Stocked
<1>2. OneHand /\ Unstored(q) /\ Ready(q) /\ Upon(q)
  BY DEF Possession
<1>3. Inside(p) => ~Inside(q)
  BY DEF Locking, ExclusiveAccess
<1>4. \A g \in Groups : Has(q, g) => ~Has(p, g)
  BY <1>2 DEF OneHand
<1>5. Unstored(q)'
  BY <1>1, <1>2, <1>4 DEF Unstored
<1>6. Upon(q)'
  BY <1>0, <1>2, <1>3 DEF Upon
<1>7. Ready(q)'
  <2>. SUFFICES ASSUME agenda[q] # <<>> PROVE Ready(q)'
    BY <1>0 DEF Ready
  <2>1. Kind(q) # "reserve" => \A g \in Groups : Has(q, g)' => dir'[g] # "none"
    BY <1>1, <1>2 DEF Ready
  <2>2. ASSUME \/ Kind(q) \in {"register", "close"}
               \/ Kind(q) = "recover" /\ pc[q] # "idle"
        PROVE  dir'[Group(q)] = "output"
    <3>1. Has(q, Group(q)) /\ Group(q) \in Groups /\ dir[Group(q)] = "output"
      BY <1>2, <2>2, HasCurrent DEF Ready, TaskKinds, Kinds
    <3>2. Inside(p) => ~Stocked(q, Group(q))
      BY <1>3 DEF Stocked, Inside, Holding
    <3>3. Inside(p) => Group(q) \notin rows
      BY <1>2, <3>1, <3>2 DEF Unstored
    <3>. QED BY <1>4, <3>1, <3>3
  <2>. QED BY <1>0, <2>1, <2>2 DEF Ready
<1>. QED BY <1>5, <1>6, <1>7

\* What a step of p has to keep.
LEMMA PossessionFrom ==
  ASSUME Types, Locking, Possession, ~intruded, NEW p \in Procs, Others(p),
         \A g \in Groups : g \in rows' => g \in rows \/ Has(p, g),
         \A g \in Groups : dir[g] # "none" => dir'[g] # "none",
         \A g \in Groups : dir[g] = "output" =>
           \/ dir'[g] = "output" \/ Has(p, g)
           \/ g \in rows /\ Inside(p) /\ pc[p] # "unlock",
         Inside(p) \/ rows \subseteq rows',
         \A g \in Groups : Has(p, g)' =>
           Has(p, g) \/ \A q \in Procs \ {p} : ~Has(q, g),
         Known', Unstored(p)', Ready(p)', Upon(p)'
  PROVE  Possession'
<1>1. ASSUME NEW q \in Procs PROVE Unstored(q)' /\ Ready(q)' /\ Upon(q)'
  BY <1>1, Bystander
<1>2. \A q \in Procs \ {p} : \A g : Has(q, g)' = Has(q, g)
  BY DEF Others, Has
<1>3. OneHand'
  BY <1>2 DEF Possession, OneHand
<1>. QED BY <1>1, <1>3 DEF Possession

\* The same, of a step that leaves database and output alone.
LEMMA PossessionCalm ==
  ASSUME Types, Locking, Possession, ~intruded, NEW p \in Procs, Others(p),
         UNCHANGED <<rows, reserved, registered, dir>>,
         \A g \in Groups : Has(p, g)' =>
           Has(p, g) \/ \A q \in Procs \ {p} : ~Has(q, g),
         Unstored(p)', Ready(p)', Upon(p)'
  PROVE  Possession'
<1>1. Known'
  BY DEF Possession, Known
<1>. QED BY <1>1, PossessionFrom

\* Who leaves a transaction, or fails to begin one, may keep a writer to abort.
LEMMA LeavePossession ==
  ASSUME Types, Locking, Possession, ~intruded, NEW p \in Procs,
         \/ NoContainer(p) \/ Underway(p) \/ NoLock(p) \/ LockLost(p) \/ Unwind(p)
         \/ Crash(p)
  PROVE  Possession'
<1>. USE DEF docVars, sqlVars, txVars, history
<1>0. Others(p) /\ Unstored(p) /\ Ready(p)
  BY StepOthers DEF Step, Possession
<1>1. UNCHANGED <<rows, reserved, registered, dir>> /\ pc'[p] \in {"idle", "dead"}
  BY DEF NoContainer, Underway, NoLock, LockLost, Unwind, Crash, Fails, Types, ControlTypes
<1>2. Upon(p)'
  BY <1>1 DEF Upon, Inside, Holding
<1>3. CASE agenda'[p] = <<>>
  <2>1. \A g : ~Has(p, g)'
    BY <1>3 DEF Has
  <2>2. Unstored(p)' /\ Ready(p)'
    BY <1>3, <2>1 DEF Unstored, Ready
  <2>. QED BY <1>0, <1>1, <1>2, <2>1, <2>2, PossessionCalm
<1>4. CASE agenda'[p] # <<>>
  <2>1. Fails(p) /\ agenda[p] # <<>> /\ pc[p] # "unlock"
    BY <1>4 DEF NoContainer, Underway, NoLock, LockLost, Unwind, Crash, Types,
                ControlTypes, Counted
  <2>2. /\ Kind(p) \in {"register", "close", "recover"}
        /\ agenda'[p] = <<On("abort", Group(p))>>
    BY <1>4, <2>1 DEF Fails, Group, Types, ControlTypes
  <2>3. Has(p, Group(p)) /\ Group(p) \in Groups
    BY <2>1, <2>2, HasCurrent DEF TaskKinds, Kinds
  <2>4. Kind(p)' = "abort"
    BY <2>2 DEF Kind, Current, On
  <2>5. DOMAIN agenda'[p] = {1} /\ agenda'[p][1].groups = <<Group(p)>>
    BY <2>2 DEF On
  <2>6. \A g : Has(p, g)' => g = Group(p)
    BY <2>5 DEF Has
  <2>7. Unstored(p)'
    BY <1>0, <1>1, <2>1, <2>3, <2>6 DEF Unstored, Stocked
  <2>8. Ready(p)'
    BY <1>0, <1>1, <2>1, <2>2, <2>3, <2>4, <2>6 DEF Ready
  <2>. QED BY <1>0, <1>1, <1>2, <2>3, <2>6, <2>7, <2>8, PossessionCalm
<1>. QED BY <1>3, <1>4

\* Steps that leave agendas, records and output alone.
LEMMA CalmPossession ==
  ASSUME Types, Locking, Work, Possession, ~intruded, NEW p \in Procs,
         \/ Start(p) \/ LockFree(p) \/ LockHeld(p) \/ MakeLock(p) \/ LockChecked(p)
         \/ ApplyThrows(p) \/ Applied(p) \/ CommitBusy(p) \/ BodyThrows(p)
  PROVE  Possession'
<1>. USE DEF docVars, sqlVars, txVars, history
<1>0. Others(p) /\ Unstored(p) /\ Ready(p) /\ Upon(p) /\ InTurn(p)
  BY StepOthers DEF Step, Possession, Work
<1>1. /\ UNCHANGED <<rows, reserved, registered, dir, agenda, journal>>
      /\ pc[p] # "unlock" /\ pc'[p] # "unlock"
      /\ Inside(p)' => Inside(p) \/ pc[p] = "make"
      /\ Kind(p) = "recover" /\ pc[p] = "idle" => dir[Group(p)] = "output"
  BY DEF Start, LockFree, LockHeld, MakeLock, LockChecked, ApplyThrows, Applied, CommitBusy,
         BodyThrows, NextGroup, Refused, Types, ControlTypes, Inside, Holding, Group
<1>2. /\ Kind(p)' = Kind(p) /\ Group(p)' = Group(p)
      /\ \A g : Has(p, g)' = Has(p, g) /\ ~Stocked(p, g)
      /\ \A r : Noted(p, r)' = Noted(p, r)
  BY <1>1 DEF Kind, Group, Current, Has, Stocked, Noted
<1>3. Unstored(p)' /\ Ready(p)'
  BY <1>0, <1>1, <1>2 DEF Unstored, Ready
<1>4. Upon(p)'
  <2>1. pc[p] = "make" => \A r : ~Noted(p, r)
    BY <1>0 DEF InTurn, Noted
  <2>. QED BY <1>0, <1>1, <1>2, <2>1 DEF Upon
<1>. QED BY <1>0, <1>1, <1>2, <1>3, <1>4, PossessionCalm

\* The work of a task's command.
LEMMA TaskPossession ==
  ASSUME Types, Locking, Work, Work', Possession, ~intruded, NEW p \in Procs,
         Enter(p) \/ Close(p) \/ Abort(p)
  PROVE  Possession'
<1>0. Others(p) /\ Known /\ Unstored(p) /\ Ready(p) /\ TaskWork(p)'
  BY StepOthers DEF Step, Possession, Work
<1>1. NextGroup(p) /\ Kind(p) \in TaskKinds
  BY DEF Enter, Close, Abort, TaskKinds, Kinds
<1>2. /\ Inside(p) /\ pc[p] = "body" /\ agenda[p] # <<>> /\ todo[p][1] = Group(p)
      /\ UNCHANGED <<agenda, rows, reserved, registered>>
      /\ Kind(p)' = Kind(p) /\ Group(p)' = Group(p)
  BY <1>1, BodyWork DEF NextGroup
<1>3. Has(p, Group(p)) /\ Group(p) \in Groups /\ \A g : Has(p, g)' = Has(p, g)
  BY <1>1, <1>2, HasCurrent DEF Has
<1>4. \A g \in Groups : dir'[g] = dir[g]
        \/ (Kind(p) = "abort" /\ g = Group(p) /\ dir'[g] = "failure")
  BY <1>2 DEF Enter, Close, Abort, Types, FileTypes
<1>5. Known'
  BY <1>0, <1>2, <1>4 DEF Known, Types, SqlTypes
<1>6. Unstored(p)'
  BY <1>0, <1>2, <1>3 DEF Unstored, Stocked
<1>7. Ready(p)'
  BY <1>0, <1>2, <1>3, <1>4 DEF Ready
<1>8. Upon(p)'
  <2>1. \A g \in Groups : Noted(p, Move(g))' => ~Inside(p)'
    BY <1>0, <1>1, <1>2 DEF TaskWork, Move, Emplace
  <2>. QED BY <1>1, <1>2, <2>1 DEF Upon, TaskKinds
<1>. QED BY <1>0, <1>2, <1>3, <1>4, <1>5, <1>6, <1>7, <1>8, PossessionFrom

\* A user's command works on groups found in the database.
LEMMA AskedPossession ==
  ASSUME Types, Documented, Locking, Possession, Work, ~intruded, NEW p \in Procs,
         Delete(p) \/ Tag(p)
  PROVE  Possession'
<1>0. Others(p) /\ Unstored(p) /\ Ready(p) /\ Upon(p)
  BY StepOthers DEF Step, Possession
<1>. PICK g \in Groups : g = todo[p][1]
  BY BodyWork DEF Delete, Tag
<1>1. NextGroup(p) /\ Kind(p) \in {"delete", "tag"}
  BY DEF Delete, Tag
<1>2. /\ Inside(p) /\ pc[p] = "body"
      /\ UNCHANGED <<agenda, rows, reserved, registered>>
      /\ Kind(p)' = Kind(p) /\ Group(p)' = Group(p)
  BY <1>1, BodyWork DEF NextGroup
<1>3. dir' = dir /\ \A h : Has(p, h)' = Has(p, h)
  BY <1>2 DEF Delete, Tag, Has
<1>4. g \in rows
  <2>1. <<"insert", g>> \notin pending[p]
    BY <1>1 DEF Documented, OwnChanges, Changes
  <2>2. Legal(p, g)
    BY DEF Delete, Tag
  <2>. QED BY <1>1, <2>1, <2>2 DEF Legal, View
<1>5. Unstored(p)' /\ Ready(p)'
  BY <1>0, <1>1, <1>2, <1>3 DEF Unstored, Ready, Stocked
<1>6. \A r : Noted(p, r)' =>
        Noted(p, r) \/ r = Emplace(Task) \/ r = Move(g)
        \/ (r = Emplace(g) /\ Kind(p) = "tag")
  <2>1. CASE Tag(p)
    <3>1. journal' = [journal EXCEPT ![p] = Append(@, Emplace(g))]
      BY <2>1 DEF Tag
    <3>. QED BY <2>1, <3>1, RecordTypes, NotedOne DEF Tag
  <2>2. CASE Delete(p) /\ journal' = [journal EXCEPT ![p] = @ \o <<Emplace(Task), Move(g)>>]
    <3>1. \A r : Noted(p, r)' <=> Noted(p, r) \/ r \in {Emplace(Task), Move(g)}
      BY <2>2, RecordTypes, NotedTwo
    <3>. QED BY <3>1
  <2>3. CASE Delete(p) /\ journal' = [journal EXCEPT ![p] = Append(@, Emplace(Task))]
    <3>1. \A r : Noted(p, r)' <=> Noted(p, r) \/ r = Emplace(Task)
      BY <2>3, RecordTypes, NotedOne
    <3>. QED BY <3>1
  <2>. QED BY <2>1, <2>2, <2>3 DEF Delete
<1>7. Upon(p)'
  <2>1. /\ \A h \in Groups : Move(h) # Emplace(Task) /\ Move(h) # Emplace(g)
        /\ \A h \in Groups : Emplace(h) # Emplace(Task) /\ Emplace(h) # Move(g)
        /\ \A h : (Move(h) = Move(g) => h = g) /\ (Emplace(h) = Emplace(g) => h = g)
    BY NamesAssumption DEF Move, Emplace
  <2>. QED BY <1>0, <1>2, <1>4, <1>6, <2>1 DEF Upon
<1>. QED BY <1>0, <1>2, <1>3, <1>5, <1>7, PossessionCalm

\* Output that is moved away belongs to what is stored.
LEMMA ApplyPossession ==
  ASSUME Types, Counting, Locking, Work, Possession, ~intruded, NEW p \in Procs,
         Apply(p)
  PROVE  Possession'
<1>. DEFINE r == journal[p][pos[p]]
<1>0. /\ Others(p) /\ Known /\ Unstored(p) /\ Ready(p) /\ Upon(p)
      /\ TaskWork(p) /\ DeleteWork(p)
  BY StepOthers DEF Step, Possession, Work
<1>1. /\ pc[p] = "journal" /\ Inside(p) /\ agenda[p] # <<>>
      /\ UNCHANGED <<agenda, rows, reserved, registered, pc, journal>>
  BY DEF Apply, sqlVars, Inside, Holding, Types, Counted
<1>2. /\ Kind(p)' = Kind(p) /\ Group(p)' = Group(p) /\ Inside(p)' = Inside(p)
      /\ \A g : Has(p, g)' = Has(p, g)
      /\ \A x : Noted(p, x)' = Noted(p, x)
  BY <1>1 DEF Kind, Current, Group, Has, Noted, Inside
<1>3. dir' # dir => \E g \in Groups : /\ Noted(p, Move(g)) /\ dir[g] = "output"
                                      /\ dir' = [dir EXCEPT ![g] = "trash"]
  <2>1. HAVE dir' # dir
  <2>2. r[1] = "move" /\ dir[r[2]] = "output" /\ dir' = [dir EXCEPT ![r[2]] = "trash"]
    BY <2>1 DEF Apply
  <2>3. pos[p] \in DOMAIN journal[p] /\ journal[p] \in Seq(Records)
    <3>1. /\ journal[p] \in Seq(Records) /\ pos[p] \in Nat \ {0}
          /\ pos[p] <= Len(journal[p])
      BY DEF Apply, Types, TxTypes, Counting
    <3>. QED BY <3>1
  <2>4. r \in Records
    BY <2>3
  <2>5. PICK g \in Groups : r = Move(g)
    BY <2>2, <2>4 DEF Records, Emplace, Move
  <2>6. r[2] = g
    BY <2>5 DEF Move
  <2>. QED BY <2>2, <2>3, <2>5, <2>6 DEF Noted
<1>4. /\ \A g \in Groups : dir[g] # "none" => dir'[g] # "none"
      /\ \A g \in Groups : dir[g] = "output" => dir'[g] = "output" \/ g \in rows
  BY <1>0, <1>1, <1>3 DEF Upon, Types, FileTypes
<1>5. Known'
  BY <1>0, <1>1, <1>4 DEF Known, Types, SqlTypes
<1>6. Unstored(p)' /\ Upon(p)'
  BY <1>0, <1>1, <1>2 DEF Unstored, Stocked, Upon
<1>7. Ready(p)'
  <2>1. Kind(p) \in TaskKinds => dir' = dir
    <3>1. \A g, d : Move(g) # Emplace(d)
      BY DEF Move, Emplace
    <3>2. Kind(p) \in TaskKinds => \A g : ~Noted(p, Move(g))
      BY <1>0, <1>1, <3>1 DEF TaskWork
    <3>. QED BY <1>3, <3>2
  <2>. QED BY <1>0, <1>1, <1>2, <1>4, <2>1 DEF Ready, TaskKinds, Kinds
<1>. QED BY <1>0, <1>1, <1>2, <1>4, <1>5, <1>6, <1>7, PossessionFrom

\* What a COMMIT writes.
LEMMA CommitWrites ==
  ASSUME Types, Documented, Work, NEW p \in Procs, CommitSql(p)
  PROVE  /\ rows' \ rows = IF Storing(p) THEN {Group(p)} \ rows ELSE {}
         /\ reserved' = IF Kind(p) = "reserve" THEN reserved \cup {Group(p)}
                        ELSE IF Storing(p) \/ Kind(p) = "abort" THEN reserved \ {Group(p)}
                        ELSE reserved
         /\ registered' = IF Kind(p) = "register" THEN registered \cup {Group(p)}
                          ELSE IF Storing(p) \/ Kind(p) = "abort"
                          THEN registered \ {Group(p)} ELSE registered
         /\ rows \ rows' # {} => Kind(p) = "delete"
         /\ \A g \in rows \ rows' : <<"delete", g>> \in pending[p]
<1>1. /\ pc[p] = "sql" /\ Inside(p) /\ agenda[p] # <<>> /\ todo[p] = <<>>
      /\ Kind(p) \in Kinds
  <2>1. pc[p] = "sql" /\ agenda[p] # <<>>
    BY DEF CommitSql, Types, Counted
  <2>. QED BY <2>1, CurrentType DEF Work, InTurn, Inside, Holding, Types
<1>2. /\ rows' = (rows \cup With("insert", p)) \ With("delete", p)
      /\ reserved' = (reserved \cup With("reserve", p)) \ With("deregister", p)
      /\ registered' = (registered \cup With("register", p)) \ With("deregister", p)
  BY DEF CommitSql
<1>3. CASE Kind(p) \in TaskKinds
  <2>1. pending[p] = Changes(p, Group(p)) /\ Group(p) \in Groups
    BY <1>1, <1>3, HasCurrent DEF Work, TaskWork
  <2>2. CASE Storing(p)
    <3>1. pending[p] = {<<"insert", Group(p)>>, <<"deregister", Group(p)>>}
      BY <2>1, <2>2 DEF Changes, Storing
    <3>2. /\ With("insert", p) = {Group(p)} /\ With("deregister", p) = {Group(p)}
          /\ With("delete", p) = {} /\ With("reserve", p) = {} /\ With("register", p) = {}
      BY <2>1, <3>1 DEF With
    <3>. QED BY <1>2, <2>2, <3>2 DEF Storing
  <2>3. CASE ~Storing(p)
    <3>1. Kind(p) \in {"reserve", "register", "abort"}
      BY <1>3, <2>3 DEF Storing, TaskKinds, Kinds
    <3>2. pending[p] = {<<IF Kind(p) = "abort" THEN "deregister" ELSE Kind(p), Group(p)>>}
      BY <2>1, <3>1 DEF Changes
    <3>3. /\ With("insert", p) = {} /\ With("delete", p) = {}
          /\ With("reserve", p) = IF Kind(p) = "reserve" THEN {Group(p)} ELSE {}
          /\ With("register", p) = IF Kind(p) = "register" THEN {Group(p)} ELSE {}
          /\ With("deregister", p) = IF Kind(p) = "abort" THEN {Group(p)} ELSE {}
      BY <2>1, <3>1, <3>2 DEF With
    <3>. QED BY <1>2, <2>3, <3>1, <3>3
  <2>. QED BY <2>2, <2>3
<1>4. CASE Kind(p) \in {"delete", "tag"}
  <2>1. \A c \in pending[p] : c[1] = "delete" /\ Kind(p) = "delete"
    BY <1>1, <1>4 DEF Documented, OwnChanges, Changes, Work, TagWork
  <2>2. /\ With("insert", p) = {} /\ With("reserve", p) = {} /\ With("register", p) = {}
        /\ With("deregister", p) = {} /\ (With("delete", p) # {} => Kind(p) = "delete")
    BY <2>1 DEF With
  <2>3. \A g \in With("delete", p) : <<"delete", g>> \in pending[p]
    BY DEF With
  <2>. QED BY <1>2, <1>4, <2>2, <2>3 DEF Storing
<1>. QED BY <1>1, <1>3, <1>4 DEF TaskKinds

\* A COMMIT stores the group of its own process, which is produced.
LEMMA CommitPossession ==
  ASSUME Types, Documented, Locking, Work, Possession, ~intruded, NEW p \in Procs,
         CommitSql(p)
  PROVE  Possession'
<1>0. /\ Others(p) /\ Known /\ Unstored(p) /\ Ready(p) /\ Upon(p) /\ DeleteWork(p)
  BY StepOthers DEF Step, Possession, Work
<1>1. /\ pc[p] = "sql" /\ pc'[p] = "unlock" /\ Inside(p) /\ agenda[p] # <<>>
      /\ UNCHANGED <<agenda, journal, dir>> /\ Kind(p) \in Kinds
  <2>1. /\ pc[p] = "sql" /\ pc'[p] = "unlock" /\ agenda[p] # <<>>
        /\ UNCHANGED <<agenda, journal, dir>>
    BY DEF CommitSql, docVars, Types, Counted, ControlTypes
  <2>. QED BY <2>1, CurrentType DEF Inside, Holding, Types
<1>2. /\ Kind(p)' = Kind(p) /\ Group(p)' = Group(p) /\ Storing(p)' = Storing(p)
      /\ \A g : Has(p, g)' = Has(p, g) /\ ~Stocked(p, g)
      /\ \A x : Noted(p, x)' = Noted(p, x)
  BY <1>1 DEF Kind, Current, Group, Has, Noted, Storing, Stocked
<1>3. Kind(p) \in TaskKinds => Has(p, Group(p)) /\ Group(p) \in Groups
  BY <1>1, HasCurrent
<1>4. /\ \A g \in rows' \ rows : Storing(p) /\ g = Group(p)
      /\ rows \ rows' # {} => Kind(p) = "delete"
      /\ reserved' = IF Kind(p) = "reserve" THEN reserved \cup {Group(p)}
                     ELSE IF Storing(p) \/ Kind(p) = "abort" THEN reserved \ {Group(p)}
                     ELSE reserved
      /\ registered' = IF Kind(p) = "register" THEN registered \cup {Group(p)}
                       ELSE IF Storing(p) \/ Kind(p) = "abort"
                       THEN registered \ {Group(p)} ELSE registered
  BY CommitWrites
<1>5. Storing(p) => Kind(p) \in TaskKinds /\ dir[Group(p)] = "output"
  BY <1>0, <1>1 DEF Ready, Storing, TaskKinds, Kinds
<1>6. Kind(p) = "register" => dir[Group(p)] = "output"
  BY <1>0, <1>1 DEF Ready
<1>7. Kind(p) = "reserve" => Group(p) \notin rows
  BY <1>0, <1>2, <1>3 DEF Unstored, TaskKinds, Kinds
<1>8. Known'
  BY <1>0, <1>1, <1>4, <1>5, <1>6, <1>7 DEF Known, Storing
<1>9. Unstored(p)'
  <2>. SUFFICES ASSUME NEW g \in Groups, Has(p, g)', ~Stocked(p, g)' PROVE g \notin rows'
    BY DEF Unstored
  <2>1. g \notin rows
    BY <1>0, <1>2 DEF Unstored
  <2>2. ~(Storing(p) /\ g = Group(p))
    BY <1>1, <1>2 DEF Stocked
  <2>. QED BY <1>4, <2>1, <2>2
<1>10. Ready(p)'
  BY <1>0, <1>1, <1>2 DEF Ready
<1>11. Upon(p)'
  BY <1>0, <1>1, <1>2, <1>4 DEF Upon
<1>12. \A g \in Groups : g \in rows' => g \in rows \/ Has(p, g)
  BY <1>3, <1>4, <1>5
<1>. QED BY <1>0, <1>1, <1>2, <1>8, <1>9, <1>10, <1>11, <1>12, PossessionFrom

\* After its last step a task has its group in hand no longer, after the others
\* it has what the next one needs.
LEMMA UnlockPossession ==
  ASSUME Types, Locking, Plans, Possession, ~intruded, NEW p \in Procs, Unlock(p)
  PROVE  Possession'
<1>0. Others(p) /\ Known /\ Unstored(p) /\ Ready(p) /\ InOrder(agenda[p])
  BY StepOthers DEF Step, Possession, Plans
<1>1. /\ pc[p] = "unlock" /\ pc'[p] = "idle" /\ agenda[p] # <<>> /\ ~Inside(p)'
      /\ agenda'[p] = Tail(agenda[p]) /\ agenda[p] \in Seq(Asked)
      /\ UNCHANGED <<rows, reserved, registered>>
  BY DEF Unlock, Types, Counted, ControlTypes, sqlVars, Inside, Holding
<1>2. /\ 1 \in DOMAIN agenda[p] /\ Current(p) = agenda[p][1]
      /\ \A i \in DOMAIN agenda'[p] :
           /\ i \in Nat /\ 1 < i + 1 /\ i + 1 \in DOMAIN agenda[p]
           /\ agenda'[p][i] = agenda[p][i + 1]
      /\ agenda'[p] # <<>> => 1 \in DOMAIN agenda'[p]
  BY <1>1 DEF Current
<1>3. \A g : Has(p, g)' => Has(p, g)
  BY <1>2 DEF Has
<1>4. /\ dir' = IF Kind(p) = "reserve" THEN [dir EXCEPT ![Group(p)] = "output"] ELSE dir
      /\ dir \in [Groups -> {"none", "output", "failure", "trash"}]
      /\ Kind(p) \in TaskKinds =>
           Current(p).groups = <<Group(p)>> /\ Group(p) \in Groups
  BY <1>1, CurrentType DEF Unlock, Group, Types, FileTypes
<1>5. /\ \A g \in Groups : dir[g] # "none" => dir'[g] # "none"
      /\ \A g \in Groups : dir[g] = "output" => dir'[g] = "output"
  BY <1>4
<1>6. Known'
  BY <1>0, <1>1, <1>5 DEF Known, Types, SqlTypes
<1>7. \A i \in DOMAIN agenda'[p] :
        \/ /\ Kind(p) = "recover" /\ agenda'[p][i].kind = "recover"
           /\ agenda'[p][i].groups # <<Group(p)>>
        \/ /\ Kind(p) \in {"reserve", "register"}
           /\ agenda'[p][i].kind \in {"register", "close", "abort"}
           /\ agenda'[p][i].groups = <<Group(p)>>
  BY <1>0, <1>2, <1>4 DEF InOrder, Kind, TaskKinds, Kinds
<1>8. Unstored(p)'
  <2>. SUFFICES ASSUME NEW g \in Groups, Has(p, g)' PROVE g \notin rows
    BY <1>1 DEF Unstored
  <2>1. ~Stocked(p, g)
    BY <1>7 DEF Has, Stocked, Storing
  <2>. QED BY <1>0, <1>3, <2>1 DEF Unstored
<1>9. Ready(p)'
  <2>. SUFFICES ASSUME agenda'[p] # <<>> PROVE Ready(p)'
    BY DEF Ready
  <2>1. Kind(p)' = agenda'[p][1].kind /\ Group(p)' = agenda'[p][1].groups[1]
    BY DEF Kind, Current, Group
  <2>2. CASE Kind(p) = "recover"
    <3>1. Kind(p)' = "recover" /\ \A g \in Groups : Has(p, g) => dir'[g] # "none"
      BY <1>0, <1>1, <1>2, <1>5, <1>7, <2>1, <2>2 DEF Ready
    <3>. QED BY <1>1, <1>3, <3>1 DEF Ready
  <2>3. CASE Kind(p) \in {"reserve", "register"}
    <3>1. Kind(p)' \in {"register", "close", "abort"} /\ Group(p)' = Group(p)
      BY <1>2, <1>7, <2>1, <2>3
    <3>2. Group(p) \in Groups /\ dir'[Group(p)] = "output"
      BY <1>0, <1>1, <1>4, <2>3 DEF Ready, TaskKinds, Kinds
    <3>3. \A g : Has(p, g)' => g = Group(p)
      BY <1>7, <2>3 DEF Has
    <3>. QED BY <3>1, <3>2, <3>3 DEF Ready
  <2>. QED BY <1>2, <1>7, <2>2, <2>3
<1>10. Upon(p)'
  BY <1>1 DEF Upon
<1>. QED BY <1>0, <1>1, <1>3, <1>5, <1>6, <1>8, <1>9, <1>10, PossessionFrom

\* A task has a name nobody else has, a recovery beside nobody has them all.
LEMMA UserPossession ==
  ASSUME Types, Types', Locking, Registers, Possession, ~intruded, ~intruded',
         NEW p \in Procs, User(p)
  PROVE  Possession'
<1>. USE DEF docVars, sqlVars, txVars, history
<1>0. Others(p) /\ Known
  BY StepOthers DEF Possession
<1>1. /\ UNCHANGED <<rows, reserved, registered, dir, pc>> /\ pc[p] = "idle"
  BY DEF User, Ask, NewTask, Recover
<1>2. Upon(p)'
  BY <1>1 DEF Upon, Inside, Holding
<1>3. ASSUME NEW c \in Commands, Ask(p, c) PROVE Possession'
  <2>1. agenda'[p] = <<c>> /\ c.kind \in {"delete", "tag"}
    BY <1>3, CommandsAssumption DEF Ask, Types, ControlTypes
  <2>2. DOMAIN agenda'[p] = {1} /\ agenda'[p][1] = c
    BY <2>1
  <2>3. (\A g : ~Has(p, g)') /\ Kind(p)' = c.kind
    BY <2>1, <2>2 DEF Has, TaskKinds, Kind, Current
  <2>4. Unstored(p)' /\ Ready(p)'
    BY <2>1, <2>3 DEF Unstored, Ready
  <2>. QED BY <1>0, <1>1, <1>2, <2>3, <2>4, PossessionCalm
<1>4. ASSUME NEW g \in Groups, NEW end \in {"close", "abort"}, NewTask(p, g, end)
      PROVE  Possession'
  <2>1. /\ agenda'[p] = <<On("reserve", g), On("register", g), On(end, g)>>
        /\ dir[g] = "none"
        /\ \A q \in Procs : \A i \in DOMAIN agenda[q] : agenda[q][i].groups # <<g>>
    BY <1>4 DEF NewTask, Types, ControlTypes
  <2>2. /\ \A i \in DOMAIN agenda'[p] : agenda'[p][i].groups = <<g>>
        /\ Kind(p)' = "reserve"
    <3>1. /\ DOMAIN agenda'[p] = 1 .. 3 /\ agenda'[p][1] = On("reserve", g)
          /\ agenda'[p][2] = On("register", g) /\ agenda'[p][3] = On(end, g)
      BY <2>1
    <3>. QED BY <3>1 DEF On, Kind, Current
  <2>3. /\ \A h : Has(p, h)' => h = g
        /\ \A q \in Procs : ~Has(q, g)
    BY <2>1, <2>2 DEF Has
  <2>4. Unstored(p)' /\ Ready(p)'
    BY <1>0, <1>1, <2>1, <2>2, <2>3 DEF Unstored, Ready, Known
  <2>. QED BY <1>0, <1>1, <1>2, <2>3, <2>4, PossessionCalm
<1>5. ASSUME NEW list \in [1 .. Cardinality(registered) -> registered], Recover(p, list)
      PROVE  Possession'
  <2>1. /\ agenda'[p] = [i \in DOMAIN list |-> On("recover", list[i])]
        /\ \A q \in Procs : agenda[q] = <<>>
    BY <1>5 DEF Recover, Types, ControlTypes
  <2>2. \A q \in Procs : \A g : ~Has(q, g)
    BY <2>1 DEF Has
  <2>3. \A i \in DOMAIN agenda'[p] :
          /\ agenda'[p][i].kind = "recover"
          /\ \E g \in registered : agenda'[p][i].groups = <<g>>
    BY <2>1 DEF On
  <2>4. \A g \in Groups : Has(p, g)' => g \in registered
    BY <2>3 DEF Has
  <2>5. Unstored(p)'
    BY <1>0, <1>1, <2>4 DEF Unstored, Known, Registers
  <2>6. Ready(p)'
    <3>1. agenda'[p] # <<>> => Kind(p)' = "recover"
      <4>1. HAVE agenda'[p] # <<>>
      <4>2. agenda'[p] \in Seq(Asked)
        BY DEF Types, ControlTypes
      <4>3. 1 \in DOMAIN agenda'[p]
        BY <4>1, <4>2
      <4>. QED BY <2>3, <4>3 DEF Kind, Current
    <3>. QED BY <1>0, <1>1, <2>4, <3>1 DEF Ready, Known
  <2>. QED BY <1>0, <1>1, <1>2, <2>2, <2>5, <2>6, PossessionCalm
<1>. QED BY <1>3, <1>4, <1>5 DEF User

\* No step puts a group into two hands, unless a transaction intruded.
LEMMA StepPossession ==
  ASSUME Types, Documented, Locking, Registers, Counting, Plans, Work, Possession,
         [Next]_vars
  PROVE  Possession'
<1>. SUFFICES ASSUME ~intruded' PROVE Possession'
  BY DEF Possession
<1>0. ~intruded /\ Work' /\ Types'
  BY StepTypes, StepWork, NeverForgiven
<1>1. ASSUME NEW p \in Procs, Step(p) \/ User(p) \/ Crash(p) PROVE Possession'
  BY <1>0, <1>1, LeavePossession, CalmPossession, TaskPossession, AskedPossession,
     ApplyPossession, CommitPossession, UnlockPossession, UserPossession DEF Step
<1>2. CASE Tick \/ UNCHANGED vars
  <2>1. UNCHANGED <<pc, agenda, journal, dir, rows, reserved, registered>>
    BY <1>2 DEF Tick, vars, txVars, docVars, sqlVars
  <2>2. /\ \A p, g : Has(p, g)' = Has(p, g) /\ Stocked(p, g)' = Stocked(p, g)
        /\ \A p : /\ Inside(p)' = Inside(p) /\ Kind(p)' = Kind(p) /\ Group(p)' = Group(p)
                  /\ \A r : Noted(p, r)' = Noted(p, r)
    BY <2>1 DEF Has, Stocked, Inside, Kind, Current, Group, Noted, Storing
  <2>3. OneHand' /\ Known' /\ \A p \in Procs : Unstored(p)'
    BY <1>0, <2>1, <2>2 DEF Possession, OneHand, Known, Unstored
  <2>4. \A p \in Procs : Ready(p)'
    BY <1>0, <2>1, <2>2 DEF Possession, Ready
  <2>5. \A p \in Procs : Upon(p)'
    BY <1>0, <2>1, <2>2 DEF Possession, Upon
  <2>. QED BY <2>3, <2>4, <2>5 DEF Possession
<1>. QED BY <1>1, <1>2 DEF Next, Rest

\* Nobody has a group in hand at the start.
LEMMA InitPossession == Init => Possession /\ Plans /\ Counting
<1>. SUFFICES ASSUME Init PROVE Possession /\ Plans /\ Counting
  OBVIOUS
<1>1. \A p \in Procs : pc[p] = "idle" /\ agenda[p] = <<>>
  BY DEF Init
<1>2. /\ \A p \in Procs : \A g : ~Has(p, g)
      /\ \A p \in Procs : ~Inside(p) /\ Ready(p) /\ InOrder(agenda[p])
  BY <1>1 DEF Has, Inside, Holding, Ready, InOrder
<1>3. Known
  BY GroupsAssumption DEF Init, Known
<1>. QED BY <1>2, <1>3 DEF Possession, OneHand, Unstored, Upon, Plans, Counting, Init

-----------------------------------------------------------------------------
(* The output of content groups                                            *)

\* A transaction has moved the output of g and has not yet told the database.
Displaced(p, g) ==
  /\ Inside(p) /\ pc[p] # "unlock"
  /\ \/ Done(p, Move(g))
     \/ Kind(p) = "abort" /\ Group(p) = g /\ dir[g] = "failure"
Placed == ~torn /\ ~intruded => \A g \in rows \cup registered :
  dir[g] = "output" \/ \E p \in Procs : Displaced(p, g)

\* In the body of a command nothing has been applied.
LEMMA NothingDone ==
  ASSUME Types, Documented, NEW p \in Procs,
         pc[p] \notin {"journal", "sql", "unlock", "unwind"}
  PROVE  \A r : ~Done(p, r)
<1>1. pos[p] = 1 /\ journal[p] \in Seq(Records)
  BY DEF Documented, DocumentFirst, Types, TxTypes
<1>. QED BY <1>1 DEF Done

\* Who has moved output is not done.
LEMMA DisplacedHalf ==
  ASSUME Types, NEW p \in Procs, NEW g, Displaced(p, g)
  PROVE  Half(p)
<1>1. journal[p] \in Seq(Records) /\ pos[p] \in Nat
  BY DEF Types, TxTypes
<1>. QED BY <1>1 DEF Displaced, Done, Half, Group

\* What a step of p has to keep.
LEMMA PlacedFrom ==
  ASSUME Types, Locking, Placed, ~torn, ~intruded, NEW p \in Procs, Others(p),
         dir' = dir \/ Inside(p),
         rows' \cup registered' \subseteq Groups,
         \A g \in Groups : g \in rows' \cup registered' =>
           g \in rows \cup registered \/ dir'[g] = "output",
         \A g \in Groups : dir[g] = "output" => dir'[g] = "output" \/ Displaced(p, g)',
         \A g \in Groups : Displaced(p, g) =>
           Displaced(p, g)' \/ g \notin rows' \cup registered'
  PROVE  Placed'
<1>. SUFFICES ASSUME NEW g \in rows' \cup registered', dir'[g] # "output"
              PROVE  \E q \in Procs : Displaced(q, g)'
  BY DEF Placed
<1>1. g \in Groups /\ g \in rows \cup registered
  OBVIOUS
<1>2. CASE dir[g] = "output"
  BY <1>1, <1>2
<1>3. CASE dir[g] # "output"
  <2>. PICK q \in Procs : Displaced(q, g)
    BY <1>1, <1>3 DEF Placed
  <2>1. CASE q = p
    BY <1>1, <2>1
  <2>2. CASE q # p
    <3>1. Inside(q)
      BY DEF Displaced
    <3>2. dir' = dir
      BY <2>2, <3>1 DEF Locking, ExclusiveAccess
    <3>3. /\ pc'[q] = pc[q] /\ Kind(q)' = Kind(q) /\ Group(q)' = Group(q)
          /\ Inside(q)' = Inside(q) /\ \A r : Done(q, r)' = Done(q, r)
      BY <2>2, SameElsewhere DEF Others
    <3>4. Displaced(q, g)'
      BY <3>2, <3>3 DEF Displaced
    <3>. QED BY <3>4
  <2>. QED BY <2>1, <2>2
<1>. QED BY <1>2, <1>3

\* Steps that leave output and records alone.
LEMMA CalmPlaced ==
  ASSUME Types, Documented, Locking, Placed, ~torn, ~intruded, NEW p \in Procs,
         \/ Start(p) \/ LockFree(p) \/ LockHeld(p) \/ MakeLock(p) \/ LockChecked(p)
         \/ ApplyThrows(p) \/ Applied(p) \/ CommitBusy(p) \/ BodyThrows(p)
         \/ Enter(p) \/ Close(p) \/ Delete(p) \/ Tag(p)
  PROVE  Placed'
<1>. USE DEF docVars, sqlVars, txVars, history
<1>0. Others(p) /\ rows \cup registered \subseteq Groups
  BY StepOthers DEF Step, Types, SqlTypes
<1>1. /\ UNCHANGED <<rows, registered, dir, agenda>>
      /\ Inside(p) /\ pc[p] # "unlock" => Inside(p)' /\ pc'[p] # "unlock"
      /\ \/ UNCHANGED <<journal, pos>>
         \/ pc[p] = "body"
  <2>1. CASE Start(p) \/ LockFree(p) \/ LockHeld(p) \/ MakeLock(p) \/ LockChecked(p)
             \/ ApplyThrows(p) \/ Applied(p) \/ CommitBusy(p) \/ BodyThrows(p)
    BY <2>1 DEF Start, LockFree, LockHeld, MakeLock, LockChecked, ApplyThrows, Applied,
        CommitBusy, BodyThrows, NextGroup, Refused, Types, ControlTypes, Inside, Holding
  <2>2. CASE Enter(p) \/ Close(p) \/ Delete(p) \/ Tag(p)
    BY <2>2 DEF Enter, Close, Delete, Tag, NextGroup, Written, Refused, Types, ControlTypes,
        Inside, Holding
  <2>. QED BY <2>1, <2>2
<1>2. \A r : Done(p, r) => Done(p, r)'
  <2>1. CASE pc[p] = "body"
    BY <2>1, NothingDone
  <2>2. CASE UNCHANGED <<journal, pos>>
    BY <2>2 DEF Done
  <2>. QED BY <1>1, <2>1, <2>2
<1>3. \A g \in Groups : Displaced(p, g) => Displaced(p, g)'
  BY <1>1, <1>2 DEF Displaced, Kind, Current, Group
<1>. QED BY <1>0, <1>1, <1>3, PlacedFrom

\* A transaction that leaves with output moved is torn.
LEMMA LeavePlaced ==
  ASSUME Types, Locking, Placed, ~torn', ~torn, ~intruded, NEW p \in Procs,
         \/ NoContainer(p) \/ Underway(p) \/ NoLock(p) \/ LockLost(p) \/ Unwind(p)
         \/ Crash(p)
  PROVE  Placed'
<1>. USE DEF docVars, sqlVars, txVars, history
<1>0. Others(p) /\ rows \cup registered \subseteq Groups
  BY StepOthers DEF Step, Types, SqlTypes
<1>1. UNCHANGED <<rows, registered, dir>>
  BY DEF NoContainer, Underway, NoLock, LockLost, Unwind, Crash
<1>2. Inside(p) /\ pc[p] # "unlock" => ~Half(p)
  BY DEF NoContainer, Underway, NoLock, LockLost, Unwind, Crash, Inside, Holding
<1>3. \A g \in Groups : ~Displaced(p, g)
  BY <1>2, DisplacedHalf DEF Displaced
<1>. QED BY <1>0, <1>1, <1>3, PlacedFrom

\* Output is put aside by an abort, and moved to the trash by a deletion.
LEMMA MovePlaced ==
  ASSUME Types, Documented, Counting, Work, Locking, Placed, ~torn, ~intruded,
         NEW p \in Procs, Abort(p) \/ Apply(p)
  PROVE  Placed'
<1>0. Others(p) /\ rows \cup registered \subseteq Groups
  BY StepOthers DEF Step, Types, SqlTypes
<1>1. /\ UNCHANGED <<rows, registered, agenda, journal>> /\ Inside(p)
      /\ Inside(p)' /\ pc'[p] # "unlock"
      /\ dir \in [Groups -> {"none", "output", "failure", "trash"}]
  BY DEF Abort, Apply, NextGroup, Written, Refused, sqlVars, Inside, Holding, Types,
         ControlTypes, FileTypes
<1>2. Kind(p)' = Kind(p) /\ Group(p)' = Group(p)
  BY <1>1 DEF Kind, Current, Group
<1>3. CASE Abort(p)
  <2>1. Kind(p) = "abort" /\ todo[p][1] = Group(p) /\ Group(p) \in Groups /\ pc[p] = "body"
    BY <1>3, BodyWork DEF Abort, TaskKinds, Kinds
  <2>. PICK h \in Groups : h = Group(p)
    BY <2>1
  <2>2. dir' = [dir EXCEPT ![h] = "failure"]
    BY <1>3, <2>1 DEF Abort
  <2>3. Displaced(p, h)'
    BY <1>1, <1>2, <2>1, <2>2 DEF Displaced
  <2>4. \A g \in Groups : Displaced(p, g) => g = h
    BY <2>1, NothingDone DEF Displaced
  <2>5. \A g \in Groups : g # h => dir'[g] = dir[g]
    BY <1>1, <2>2
  <2>. QED BY <1>0, <1>1, <2>3, <2>4, <2>5, PlacedFrom
<1>4. CASE Apply(p)
  <2>1. /\ pos[p] \in DOMAIN journal[p] /\ journal[p][pos[p]] \in Records
        /\ pos'[p] = pos[p] + 1 /\ DOMAIN journal[p] \subseteq Nat
    BY <1>4 DEF Apply, Types, TxTypes, Counting
  <2>. PICK r \in Records : r = journal[p][pos[p]]
    BY <2>1
  <2>2. Done(p, r)' /\ \A x : Done(p, x) => Done(p, x)'
    BY <1>1, <2>1 DEF Done
  <2>3. \A g \in Groups : dir'[g] = dir[g] \/ (dir[g] = "output" /\ r = Move(g))
    <3>1. r[1] = "move" => \E g \in Groups : r = Move(g) /\ r[2] = g
      BY DEF Records, Move, Emplace
    <3>2. dir' = dir \/ (r[1] = "move" /\ dir' = [dir EXCEPT ![r[2]] = "trash"]
                                       /\ dir[r[2]] = "output")
      BY <1>4 DEF Apply
    <3>. QED BY <1>1, <3>1, <3>2
  <2>4. \A g \in Groups : dir[g] = "output" => dir'[g] = "output" \/ Displaced(p, g)'
    BY <1>1, <2>2, <2>3 DEF Displaced
  <2>5. \A g \in Groups : Displaced(p, g) => Displaced(p, g)'
    BY <1>1, <1>2, <2>2, <2>3 DEF Displaced
  <2>. QED BY <1>0, <1>1, <2>4, <2>5, PlacedFrom
<1>. QED BY <1>3, <1>4

\* The database forgets what was moved; what it learns of is in its place.
LEMMA CommitPlaced ==
  ASSUME Types, Types', Documented, Work, Locking, Registers, Possession, Placed, ~torn,
         ~intruded, NEW p \in Procs, CommitSql(p)
  PROVE  Placed'
<1>0. /\ Others(p) /\ Known /\ Unstored(p) /\ Ready(p) /\ Upon(p)
      /\ TaskWork(p) /\ TagWork(p) /\ DeleteWork(p)
      /\ rows' \cup registered' \subseteq Groups
  BY StepOthers DEF Step, Possession, Work, Types, SqlTypes
<1>1. /\ pc[p] = "sql" /\ Inside(p) /\ agenda[p] # <<>> /\ dir' = dir /\ Kind(p) \in Kinds
      /\ rows' = (rows \cup With("insert", p)) \ With("delete", p)
  <2>1. pc[p] = "sql" /\ agenda[p] # <<>> /\ dir' = dir
    BY DEF CommitSql, docVars, Types, Counted
  <2>. QED BY <2>1, CurrentType DEF Inside, Holding, Types, CommitSql
<1>2. Kind(p) \in TaskKinds => Has(p, Group(p)) /\ Group(p) \in Groups
  BY <1>1, HasCurrent
<1>3. /\ \A g \in rows' \ rows : Storing(p) /\ g = Group(p)
      /\ registered' = IF Kind(p) = "register" THEN registered \cup {Group(p)}
                       ELSE IF Storing(p) \/ Kind(p) = "abort"
                       THEN registered \ {Group(p)} ELSE registered
  BY CommitWrites
<1>4. Storing(p) \/ Kind(p) = "register" => dir[Group(p)] = "output"
  BY <1>0, <1>1 DEF Ready, Storing
<1>5. \A g \in Groups : g \in rows' \cup registered' =>
        g \in rows \cup registered \/ dir'[g] = "output"
  BY <1>1, <1>3, <1>4
<1>6. ASSUME NEW g \in Groups, Displaced(p, g) PROVE g \notin rows' \cup registered'
  <2>1. CASE Done(p, Move(g))
    <3>1. Noted(p, Move(g)) /\ \A d : Move(g) # Emplace(d)
      BY <2>1 DEF Done, Noted, Move, Emplace
    <3>2. Kind(p) \notin TaskKinds /\ Kind(p) # "tag"
      BY <1>0, <1>1, <3>1 DEF TaskWork, TagWork
    <3>3. Kind(p) = "delete"
      BY <1>1, <3>2 DEF TaskKinds
    <3>4. \E h \in Groups : Move(g) = Move(h) /\ <<"delete", h>> \in pending[p]
      BY <1>0, <1>1, <3>1, <3>3 DEF DeleteWork
    <3>5. g \in With("delete", p)
      BY <3>4 DEF With, Move
    <3>6. g \in rows /\ g \notin registered
      BY <1>0, <1>1, <3>1 DEF Upon, Known, Registers
    <3>. QED BY <1>1, <1>3, <3>3, <3>5, <3>6 DEF Storing
  <2>2. CASE Kind(p) = "abort" /\ Group(p) = g
    <3>1. g \notin rows /\ ~Storing(p)
      BY <1>0, <1>1, <1>2, <2>2 DEF Unstored, Stocked, Storing, TaskKinds, Kinds
    <3>. QED BY <1>3, <2>2, <3>1
  <2>. QED BY <1>6, <2>1, <2>2 DEF Displaced
<1>. QED BY <1>0, <1>1, <1>5, <1>6, PlacedFrom

\* A reserved name is given its output directory at the end.
LEMMA UnlockPlaced ==
  ASSUME Types, Locking, Placed, ~torn, ~intruded, NEW p \in Procs, Unlock(p)
  PROVE  Placed'
<1>1. /\ Others(p) /\ rows \cup registered \subseteq Groups
      /\ UNCHANGED <<rows, registered>> /\ pc[p] = "unlock" /\ Inside(p)
  BY StepOthers DEF Step, Unlock, sqlVars, Types, SqlTypes, Inside, Holding
<1>2. \A g \in Groups : dir[g] = "output" => dir'[g] = "output"
  BY DEF Unlock, Types, FileTypes
<1>. QED BY <1>1, <1>2, PlacedFrom DEF Displaced

\* Output stays in its place, or the transaction that moved it is under way.
LEMMA StepPlaced ==
  ASSUME Types, Documented, Locking, Registers, Counting, Work, Possession, Placed,
         [Next]_vars
  PROVE  Placed'
<1>. SUFFICES ASSUME ~torn', ~intruded' PROVE Placed'
  BY DEF Placed
<1>0. ~torn /\ ~intruded /\ Types'
  BY NeverForgiven, StepTypes
<1>1. ASSUME NEW p \in Procs, User(p) PROVE Placed'
  <2>1. UNCHANGED <<rows, registered, dir, pc, journal, pos>> /\ pc[p] = "idle"
    BY <1>1 DEF User, Ask, NewTask, Recover, docVars, sqlVars, txVars
  <2>2. Others(p) /\ \A g : ~Displaced(p, g)
    BY <1>1, <2>1, StepOthers DEF Displaced, Inside, Holding
  <2>3. rows \cup registered \subseteq Groups
    BY DEF Types, SqlTypes
  <2>. QED BY <1>0, <2>1, <2>2, <2>3, PlacedFrom
<1>2. ASSUME NEW p \in Procs, Step(p) \/ Crash(p) PROVE Placed'
  BY <1>0, <1>2, CalmPlaced, LeavePlaced, MovePlaced, CommitPlaced, UnlockPlaced DEF Step
<1>3. CASE Tick \/ UNCHANGED vars
  <2>1. UNCHANGED <<rows, registered, dir, pc, agenda, journal, pos>>
    BY <1>3 DEF Tick, vars, docVars, sqlVars, txVars
  <2>2. \A p, g : Displaced(p, g)' = Displaced(p, g)
    BY <2>1 DEF Displaced, Inside, Kind, Current, Group, Done
  <2>. QED BY <1>0, <2>1, <2>2 DEF Placed
<1>. QED BY <1>1, <1>2, <1>3 DEF Next, Rest

\* The output of the groups at the start is in its place.
LEMMA InitPlaced == Init => Placed
BY GroupsAssumption DEF Init, Placed

-----------------------------------------------------------------------------
(* Tags that were reported                                                 *)

\* Which step changes what.
LEMMA StepTouches ==
  ASSUME Types, NEW p \in Procs, Step(p) \/ User(p) \/ Crash(p)
  PROVE  /\ ~Apply(p) => file' = file
         /\ ~CommitSql(p) => UNCHANGED <<rows, reserved, registered>>
         /\ ~Unlock(p) => acked' = acked
         /\ ~Inside(p) => UNCHANGED <<file, temp, dir, acked>>
         /\ \A g \in Groups : dir[g] # "none" => dir'[g] # "none"
<1>. USE DEF docVars, sqlVars, txVars, history, Types, FileTypes
<1>1. CASE Start(p) \/ NoContainer(p) \/ Underway(p) \/ LockFree(p) \/ LockHeld(p)
           \/ MakeLock(p) \/ LockChecked(p) \/ ApplyThrows(p) \/ Applied(p)
           \/ CommitBusy(p) \/ NoLock(p) \/ Crash(p)
  BY <1>1 DEF Start, NoContainer, Underway, LockFree, LockHeld, MakeLock, LockChecked,
              ApplyThrows, Applied, CommitBusy, NoLock, Crash
<1>2. CASE User(p)
  BY <1>2 DEF User, Ask, NewTask, Recover
<1>3. CASE Enter(p) \/ Close(p) \/ Tag(p) \/ BodyThrows(p) \/ Abort(p) \/ Delete(p)
  <2>1. pc[p] = "body" /\ UNCHANGED <<file, rows, reserved, registered, acked>>
    BY <1>3 DEF Enter, Close, Tag, BodyThrows, Abort, Delete, NextGroup
  <2>2. \A g \in Groups : dir[g] # "none" => dir'[g] # "none"
    BY <1>3 DEF Enter, Close, Tag, BodyThrows, Abort, Delete
  <2>. QED BY <2>1, <2>2 DEF Inside, Holding
<1>4. CASE LockLost(p) \/ Unwind(p) \/ CommitSql(p)
  BY <1>4 DEF LockLost, Unwind, CommitSql, Inside, Holding
<1>5. CASE Apply(p)
  BY <1>5 DEF Apply, Inside, Holding
<1>6. CASE Unlock(p)
  BY <1>6 DEF Unlock, Inside, Holding
<1>. QED BY <1>1, <1>2, <1>3, <1>4, <1>5, <1>6 DEF Step

\* A group that comes into hand has a new name or a writer to recover.
LEMMA HasFrom ==
  ASSUME Types, NEW p \in Procs, Step(p) \/ User(p) \/ Crash(p),
         NEW g \in Groups, Has(p, g)'
  PROVE  Has(p, g) \/ dir[g] = "none" \/ g \in registered
<1>1. CASE agenda'[p] = agenda[p] \/ agenda'[p] = <<>>
  BY <1>1 DEF Has
<1>2. CASE agenda'[p] = Tail(agenda[p]) /\ agenda[p] # <<>>
  <2>1. agenda[p] \in Seq(Asked)
    BY DEF Types, ControlTypes
  <2>2. \A i \in DOMAIN agenda'[p] :
          i + 1 \in DOMAIN agenda[p] /\ agenda'[p][i] = agenda[p][i + 1]
    BY <1>2, <2>1
  <2>. QED BY <2>2 DEF Has
<1>3. CASE /\ agenda[p] # <<>> /\ Kind(p) \in {"register", "close", "recover"}
           /\ agenda'[p] = <<On("abort", Group(p))>>
  <2>1. Has(p, Group(p))
    BY <1>3, HasCurrent DEF TaskKinds, Kinds
  <2>2. DOMAIN agenda'[p] = {1} /\ agenda'[p][1].groups = <<Group(p)>>
    BY <1>3 DEF On
  <2>. QED BY <2>1, <2>2 DEF Has
<1>4. ASSUME NEW c \in Commands, agenda'[p] = <<c>> PROVE FALSE
  <2>1. DOMAIN agenda'[p] = {1} /\ agenda'[p][1] = c /\ c.kind \in {"delete", "tag"}
    BY <1>4, CommandsAssumption
  <2>. QED BY <2>1 DEF Has, TaskKinds
<1>5. ASSUME NEW h \in Groups, NEW end \in {"close", "abort"}, dir[h] = "none",
             agenda'[p] = <<On("reserve", h), On("register", h), On(end, h)>>
      PROVE  dir[g] = "none"
  <2>1. /\ DOMAIN agenda'[p] = 1 .. 3 /\ agenda'[p][1] = On("reserve", h)
        /\ agenda'[p][2] = On("register", h) /\ agenda'[p][3] = On(end, h)
    BY <1>5
  <2>2. \A i \in DOMAIN agenda'[p] : agenda'[p][i].groups = <<h>>
    BY <2>1 DEF On
  <2>. QED BY <1>5, <2>2 DEF Has
<1>6. ASSUME NEW list \in [1 .. Cardinality(registered) -> registered],
             agenda'[p] = [i \in DOMAIN list |-> On("recover", list[i])]
      PROVE  g \in registered
  BY <1>6 DEF Has, On
<1>. QED BY <1>1, <1>2, <1>3, <1>4, <1>5, <1>6, AgendaMoves

\* A group with a tag that was reported is stored, or was, for nobody will
\* produce it again.
Remembered == acked \subseteq Procs \X Groups /\ \A q \in Procs, g \in Groups :
  <<q, g>> \in acked =>
    /\ q \in file[g] /\ g \notin reserved /\ dir[g] # "none"
    /\ \A p \in Procs : ~Has(p, g)
\* The tags of p, and all that were reported, are in the temporary documents
\* until they are in the documents.
Tagging(p) == Inside(p) /\ Kind(p) = "tag" => \A g \in Groups :
  /\ Done(p, Emplace(g)) => p \in file[g]
  /\ pc[p] \in {"body", "journal"} /\ Noted(p, Emplace(g)) /\ temp[g] # None =>
       p \in temp[g] /\ \A q \in Procs : <<q, g>> \in acked => q \in temp[g]
Acknowledged == ~intruded => Remembered /\ \A p \in Procs : Tagging(p)

\* What a step of p has to keep.
LEMMA AcknowledgedFrom ==
  ASSUME Types, Locking, Registers, Acknowledged, ~intruded, NEW p \in Procs,
         Step(p) \/ User(p) \/ Crash(p),
         \A q \in Procs, g \in Groups :
           <<q, g>> \in acked => q \in file'[g] /\ g \notin reserved',
         \A t \in acked' \ acked : \E g \in Groups :
           /\ t = <<p, g>> /\ p \in file'[g] /\ g \notin reserved' /\ dir'[g] # "none"
           /\ \A q \in Procs : ~Has(q, g)',
         Tagging(p)'
  PROVE  Acknowledged'
<1>0. Others(p)
  BY StepOthers
<1>1. ASSUME NEW q \in Procs \ {p} PROVE Tagging(q)'
  <2>1. /\ pc'[q] = pc[q] /\ Kind(q)' = Kind(q) /\ Inside(q)' = Inside(q)
        /\ \A r : Noted(q, r)' = Noted(q, r) /\ Done(q, r)' = Done(q, r)
    BY <1>0, SameElsewhere DEF Others
  <2>2. Inside(p) => ~Inside(q)
    BY DEF Locking, ExclusiveAccess
  <2>3. ~Inside(p) => UNCHANGED <<file, temp, acked>>
    BY StepTouches
  <2>. QED BY <2>1, <2>2, <2>3 DEF Acknowledged, Tagging
<1>2. ASSUME NEW q \in Procs, NEW g \in Groups, <<q, g>> \in acked
      PROVE  dir'[g] # "none" /\ \A r \in Procs : ~Has(r, g)'
  <2>1. dir[g] # "none" /\ g \notin registered /\ \A r \in Procs : ~Has(r, g)
    BY <1>2 DEF Acknowledged, Remembered, Registers
  <2>2. ~Has(p, g)'
    BY <2>1, HasFrom
  <2>3. \A r \in Procs \ {p} : ~Has(r, g)'
    BY <1>0, <2>1 DEF Others, Has
  <2>. QED BY <2>1, <2>2, <2>3, StepTouches
<1>3. Remembered'
  <2>1. ASSUME NEW q \in Procs, NEW g \in Groups, <<q, g>> \in acked', <<q, g>> \notin acked
        PROVE  /\ q \in file'[g] /\ g \notin reserved' /\ dir'[g] # "none"
               /\ \A r \in Procs : ~Has(r, g)'
    <3>1. PICK h \in Groups :
            /\ <<q, g>> = <<p, h>> /\ p \in file'[h] /\ h \notin reserved'
            /\ dir'[h] # "none" /\ \A r \in Procs : ~Has(r, h)'
      BY <2>1
    <3>. QED BY <3>1
  <2>2. acked' \subseteq Procs \X Groups
    BY DEF Acknowledged, Remembered
  <2>. QED BY <1>2, <2>1, <2>2 DEF Remembered
<1>. QED BY <1>1, <1>3 DEF Acknowledged

\* Steps that neither apply, nor commit, nor tag.
LEMMA CalmAcknowledged ==
  ASSUME Types, Documented, Locking, Registers, Work, Acknowledged, ~intruded,
         NEW p \in Procs, Step(p) \/ User(p) \/ Crash(p),
         ~Apply(p), ~CommitSql(p), ~Unlock(p), ~Tag(p)
  PROVE  Acknowledged'
<1>. USE DEF docVars, sqlVars, txVars, history
<1>1. UNCHANGED <<file, reserved, acked>>
  BY StepTouches
<1>2. Tagging(p) /\ Remembered
  BY DEF Acknowledged
<1>3. Tagging(p)'
  <2>1. CASE ~Inside(p)'
    BY <2>1 DEF Tagging
  <2>2. CASE MakeLock(p)
    <3>1. pc'[p] = "body" /\ journal'[p] = <<>>
      BY <2>2 DEF MakeLock, Work, InTurn, Types, ControlTypes
    <3>2. \A r : ~Noted(p, r)' /\ ~Done(p, r)'
      BY <3>1 DEF Noted, Done
    <3>. QED BY <3>2 DEF Tagging
  <2>3. CASE LockChecked(p) \/ ApplyThrows(p) \/ Applied(p) \/ CommitBusy(p) \/ BodyThrows(p)
    <3>1. /\ UNCHANGED <<agenda, journal, pos, temp>> /\ Inside(p)
          /\ pc'[p] \in {"body", "journal"} => pc[p] \in {"body", "journal"}
      BY <2>3 DEF LockChecked, ApplyThrows, Applied, CommitBusy, BodyThrows, NextGroup,
                  Refused, Types, ControlTypes, Inside, Holding
    <3>. QED BY <1>1, <1>2, <3>1 DEF Tagging, Kind, Current, Noted, Done
  <2>4. CASE Enter(p) \/ Close(p) \/ Abort(p) \/ Delete(p)
    <3>1. Kind(p)' # "tag"
      BY <2>4 DEF Enter, Close, Abort, Delete, NextGroup, Kind, Current
    <3>. QED BY <3>1 DEF Tagging
  <2>5. CASE Start(p) \/ LockFree(p) \/ LockHeld(p) \/ User(p)
    <3>1. ~Inside(p)'
      BY <2>5 DEF Start, LockFree, LockHeld, User, Ask, NewTask, Recover, Inside, Holding,
                  Types, ControlTypes
    <3>. QED BY <2>1, <3>1
  <2>6. CASE NoContainer(p) \/ Underway(p) \/ NoLock(p) \/ LockLost(p) \/ Unwind(p) \/ Crash(p)
    <3>1. ~Inside(p)'
      BY <2>6 DEF NoContainer, Underway, NoLock, LockLost, Unwind, Crash, Fails, Inside,
                  Holding, Types, ControlTypes
    <3>. QED BY <2>1, <3>1
  <2>. QED BY <2>2, <2>3, <2>4, <2>5, <2>6 DEF Step
<1>4. \A q \in Procs, g \in Groups : <<q, g>> \in acked => q \in file'[g] /\ g \notin reserved'
  BY <1>1, <1>2 DEF Remembered
<1>. QED BY <1>1, <1>3, <1>4, AcknowledgedFrom

\* A tag is added to the document as it is, with the tags that are there.
LEMMA TagAcknowledged ==
  ASSUME Types, Documented, Locking, Registers, Work, Acknowledged, ~intruded,
         NEW p \in Procs, Tag(p)
  PROVE  Acknowledged'
<1>. PICK g \in Groups : g = todo[p][1]
  BY BodyWork DEF Tag
<1>1. UNCHANGED <<file, reserved, acked, agenda, pc>> /\ pc[p] = "body"
  BY DEF Tag, NextGroup, history
<1>2. Tagging(p) /\ Remembered
  BY DEF Acknowledged
<1>3. /\ journal' = [journal EXCEPT ![p] = Append(@, Emplace(g))]
      /\ temp' = [temp EXCEPT ![g] = file[g] \cup {p}]
  BY DEF Tag, Retagged
<1>4. \A r : Noted(p, r)' <=> Noted(p, r) \/ r = Emplace(g)
  BY <1>3, RecordTypes, NotedOne
<1>5. \A r : ~Done(p, r)'
  <2>1. pos[p] = 1 /\ pos' = pos
    BY <1>1 DEF Documented, DocumentFirst, Tag, NextGroup
  <2>2. journal'[p] \in Seq(Records)
    BY StepTypes DEF Types, TxTypes, Next, Step
  <2>. QED BY <2>1, <2>2 DEF Done
<1>6. Inside(p) /\ Kind(p) = "tag"
  BY <1>1 DEF Inside, Holding, Tag
<1>7. ASSUME NEW h \in Groups, Noted(p, Emplace(h))', temp'[h] # None
      PROVE  p \in temp'[h] /\ \A q \in Procs : <<q, h>> \in acked => q \in temp'[h]
  <2>1. CASE h = g
    <3>1. temp'[h] = file[h] \cup {p}
      BY <1>3, <2>1, DocNames DEF Types, FileTypes
    <3>. QED BY <1>2, <3>1 DEF Remembered
  <2>2. CASE h # g
    <3>1. temp'[h] = temp[h]
      BY <1>3, <2>2, DocNames DEF Types, FileTypes
    <3>2. Noted(p, Emplace(h))
      BY <1>4, <1>7, <2>2 DEF Emplace
    <3>. QED BY <1>1, <1>2, <1>6, <1>7, <3>1, <3>2 DEF Tagging
  <2>. QED BY <2>1, <2>2
<1>8. Tagging(p)'
  BY <1>1, <1>5, <1>7 DEF Tagging
<1>9. \A q \in Procs, h \in Groups : <<q, h>> \in acked => q \in file'[h] /\ h \notin reserved'
  BY <1>1, <1>2 DEF Remembered
<1>. QED BY <1>1, <1>8, <1>9, AcknowledgedFrom DEF Step

\* The record of a journal that is applied.
LEMMA NextRecord ==
  ASSUME Types, Counting, NEW p \in Procs, Apply(p)
  PROVE  \E r \in Records :
           /\ r = journal[p][pos[p]] /\ Noted(p, r)
           /\ \A x : Done(p, x)' <=> Done(p, x) \/ x = r
           /\ pc[p] = "journal" /\ Inside(p) /\ UNCHANGED <<pc, agenda, journal, pending>>
           /\ pos'[p] = pos[p] + 1
           /\ \/ \E d \in Docs : /\ r = Emplace(d) /\ temp[d] # None /\ dir' = dir
                                 /\ file' = [file EXCEPT ![d] = temp[d]]
                                 /\ temp' = [temp EXCEPT ![d] = None]
              \/ \E g \in Groups : /\ r = Move(g) /\ UNCHANGED <<file, temp>>
                                   /\ dir[g] = "output"
                                   /\ dir' = [dir EXCEPT ![g] = "trash"]
<1>1. /\ pos[p] \in DOMAIN journal[p] /\ journal[p][pos[p]] \in Records
      /\ pos'[p] = pos[p] + 1 /\ DOMAIN journal[p] \subseteq Nat
      /\ pc[p] = "journal" /\ Inside(p) /\ UNCHANGED <<pc, agenda, journal, pending>>
  BY DEF Apply, Types, TxTypes, Counting, Inside, Holding
<1>. PICK r \in Records : r = journal[p][pos[p]]
  BY <1>1
<1>2. \A x : Done(p, x)' <=> Done(p, x) \/ x = r
  <2>1. \A i \in DOMAIN journal[p] : i < pos'[p] <=> i < pos[p] \/ i = pos[p]
    BY <1>1 DEF Counting
  <2>. QED BY <1>1, <2>1 DEF Done
<1>3. /\ r[1] = "emplace" => \E d \in Docs : r = Emplace(d) /\ r[2] = d
      /\ r[1] = "move" => \E g \in Groups : r = Move(g) /\ r[2] = g
  BY DEF Records, Emplace, Move
<1>4. \/ /\ r[1] = "emplace" /\ temp[r[2]] # None
         /\ file' = [file EXCEPT ![r[2]] = temp[r[2]]]
         /\ temp' = [temp EXCEPT ![r[2]] = None] /\ dir' = dir
      \/ /\ r[1] = "move" /\ dir[r[2]] = "output"
         /\ dir' = [dir EXCEPT ![r[2]] = "trash"] /\ UNCHANGED <<file, temp>>
  BY DEF Apply
<1>5. Noted(p, r)
  BY <1>1 DEF Noted
<1>6. \/ \E d \in Docs : /\ r = Emplace(d) /\ temp[d] # None /\ dir' = dir
                         /\ file' = [file EXCEPT ![d] = temp[d]]
                         /\ temp' = [temp EXCEPT ![d] = None]
      \/ \E g \in Groups : /\ r = Move(g) /\ UNCHANGED <<file, temp>> /\ dir[g] = "output"
                           /\ dir' = [dir EXCEPT ![g] = "trash"]
  BY <1>3, <1>4
<1>. QED BY <1>1, <1>2, <1>5, <1>6

\* A document is replaced by one with the same tags and perhaps another.
LEMMA ApplyAcknowledged ==
  ASSUME Types, Counting, Locking, Registers, Work, Acknowledged, ~intruded,
         NEW p \in Procs, Apply(p)
  PROVE  Acknowledged'
<1>1. /\ UNCHANGED <<reserved, acked>>
      /\ Tagging(p) /\ Remembered /\ TaskWork(p) /\ DeleteWork(p)
  BY DEF Apply, sqlVars, history, Acknowledged, Work
<1>. PICK r \in Records :
       /\ r = journal[p][pos[p]] /\ Noted(p, r)
       /\ \A x : Done(p, x)' <=> Done(p, x) \/ x = r
       /\ pc[p] = "journal" /\ Inside(p) /\ UNCHANGED <<pc, agenda, journal, pending>>
       /\ pos'[p] = pos[p] + 1
       /\ \/ \E d \in Docs : /\ r = Emplace(d) /\ temp[d] # None /\ dir' = dir
                             /\ file' = [file EXCEPT ![d] = temp[d]]
                             /\ temp' = [temp EXCEPT ![d] = None]
          \/ \E g \in Groups : /\ r = Move(g) /\ UNCHANGED <<file, temp>>
                               /\ dir[g] = "output"
                               /\ dir' = [dir EXCEPT ![g] = "trash"]
  BY NextRecord
<1>2. /\ Kind(p)' = Kind(p) /\ Inside(p)' = Inside(p) /\ agenda[p] # <<>>
      /\ \A x : Noted(p, x)' = Noted(p, x)
  BY DEF Kind, Current, Noted, Inside, Types, Counted
<1>3. ASSUME NEW g \in Groups
      PROVE  \/ UNCHANGED <<file[g], temp[g]>> /\ r # Emplace(g)
             \/ r = Emplace(g) /\ temp[g] # None /\ file'[g] = temp[g] /\ temp'[g] = None
  BY DocNames DEF Types, FileTypes, Emplace, Move
<1>4. Kind(p) \in Kinds
  BY <1>2, CurrentType DEF Types
<1>5. ASSUME NEW q \in Procs, NEW g \in Groups, <<q, g>> \in acked PROVE q \in file'[g]
  <2>1. CASE r # Emplace(g)
    BY <1>1, <1>3, <1>5, <2>1 DEF Remembered
  <2>2. CASE r = Emplace(g) /\ temp[g] # None /\ file'[g] = temp[g]
    <3>1. CASE Kind(p) = "tag"
      BY <1>1, <1>5, <2>2, <3>1 DEF Tagging
    <3>2. CASE Kind(p) = "delete"
      <4>1. Emplace(g) # Emplace(Task) /\ \A h : Emplace(g) # Move(h)
        BY NamesAssumption DEF Emplace, Move
      <4>. QED BY <1>1, <2>2, <3>2, <4>1 DEF DeleteWork
    <3>3. CASE Kind(p) \in TaskKinds
      <4>1. Emplace(g) # Emplace(Task) /\ (Emplace(g) = Emplace(Group(p)) => g = Group(p))
        BY NamesAssumption DEF Emplace
      <4>2. g = Group(p)
        BY <1>1, <2>2, <3>3, <4>1 DEF TaskWork
      <4>3. Has(p, g)
        BY <1>2, <3>3, <4>2, HasCurrent
      <4>. QED BY <1>1, <1>5, <4>3 DEF Remembered
    <3>. QED BY <1>4, <3>1, <3>2, <3>3 DEF TaskKinds
  <2>. QED BY <1>3, <2>1, <2>2
<1>6. Tagging(p)'
  <2>1. ASSUME NEW g \in Groups, Kind(p) = "tag", Done(p, Emplace(g))' PROVE p \in file'[g]
    BY <1>1, <1>3, <2>1 DEF Tagging
  <2>2. ASSUME NEW g \in Groups, Kind(p) = "tag", Noted(p, Emplace(g)), temp'[g] # None
        PROVE  p \in temp'[g] /\ \A q \in Procs : <<q, g>> \in acked => q \in temp'[g]
    BY <1>1, <1>3, <2>2 DEF Tagging
  <2>. QED BY <1>1, <1>2, <2>1, <2>2 DEF Tagging
<1>7. \A q \in Procs, g \in Groups : <<q, g>> \in acked => q \in file'[g] /\ g \notin reserved'
  BY <1>1, <1>5 DEF Remembered
<1>. QED BY <1>1, <1>6, <1>7, AcknowledgedFrom DEF Step

\* A name is reserved for a group that does not exist.
LEMMA CommitAcknowledged ==
  ASSUME Types, Documented, Locking, Registers, Work, Acknowledged, ~intruded,
         NEW p \in Procs, CommitSql(p)
  PROVE  Acknowledged'
<1>1. /\ UNCHANGED <<file, acked, agenda, journal, pos>> /\ pc[p] = "sql" /\ pc'[p] = "unlock"
      /\ agenda[p] # <<>> /\ Inside(p)
  BY DEF CommitSql, docVars, history, Types, ControlTypes, Counted, Inside, Holding
<1>2. Tagging(p) /\ Remembered
  BY DEF Acknowledged
<1>3. Tagging(p)'
  <2>1. Kind(p)' = Kind(p) /\ \A r : Done(p, r)' = Done(p, r)
    BY <1>1 DEF Kind, Current, Done
  <2>. QED BY <1>1, <1>2, <2>1 DEF Tagging
<1>4. \A g \in reserved' : g \in reserved \/ (Kind(p) = "reserve" /\ g = Group(p))
  BY CommitWrites
<1>5. Kind(p) = "reserve" => Has(p, Group(p))
  BY <1>1, HasCurrent DEF TaskKinds, Kinds
<1>6. \A q \in Procs, g \in Groups : <<q, g>> \in acked => q \in file'[g] /\ g \notin reserved'
  BY <1>1, <1>2, <1>4, <1>5 DEF Remembered
<1>. QED BY <1>1, <1>3, <1>6, AcknowledgedFrom DEF Step

\* A tag that is reported done is in the document of a stored group.
LEMMA UnlockAcknowledged ==
  ASSUME Types, Locking, Registers, Work, Possession, Acknowledged, ~intruded,
         NEW p \in Procs, Unlock(p)
  PROVE  Acknowledged'
<1>0. /\ Others(p) /\ Known /\ Upon(p) /\ Tagging(p) /\ Remembered /\ InTurn(p) /\ TagWork(p)
      /\ \A q \in Procs : Unstored(q)
  BY StepOthers DEF Step, Possession, Acknowledged, Work
<1>1. /\ UNCHANGED <<file, rows, reserved, registered>> /\ pc[p] = "unlock" /\ ~Inside(p)'
      /\ Inside(p) /\ agenda[p] # <<>>
  BY DEF Unlock, sqlVars, Inside, Holding, Types, ControlTypes, Counted
<1>2. Tagging(p)'
  BY <1>1 DEF Tagging
<1>3. ASSUME NEW t \in acked' \ acked
      PROVE  \E g \in Groups : /\ t = <<p, g>> /\ p \in file[g] /\ g \in rows
                               /\ \A q \in Procs : ~Has(q, g)
  <2>1. Kind(p) = "tag" /\ \E i \in DOMAIN Current(p).groups : t = <<p, Current(p).groups[i]>>
    BY <1>3 DEF Unlock
  <2>. PICK i \in DOMAIN Current(p).groups : t = <<p, Current(p).groups[i]>>
    BY <2>1
  <2>2. Current(p).groups \in Seq(Groups)
    BY <1>1, CurrentType DEF Types
  <2>. PICK g \in Groups : g = Current(p).groups[i]
    BY <2>2
  <2>3. Noted(p, Emplace(g))
    BY <1>0, <1>1, <2>1 DEF TagWork, InTurn
  <2>4. Done(p, Emplace(g))
    <3>1. pos[p] > Len(journal[p]) /\ journal[p] \in Seq(Records) /\ pos[p] \in Nat
      BY <1>0, <1>1 DEF InTurn, Types, TxTypes
    <3>2. \A k \in DOMAIN journal[p] : k < pos[p]
      BY <3>1
    <3>. QED BY <2>3, <3>2 DEF Noted, Done
  <2>5. p \in file[g] /\ g \in rows
    BY <1>0, <1>1, <2>1, <2>3, <2>4 DEF Tagging, Upon
  <2>6. ASSUME NEW q \in Procs PROVE ~Has(q, g)
    <3>1. Stocked(q, g) => q = p
      BY <1>1 DEF Stocked, Inside, Holding, Locking, ExclusiveAccess
    <3>2. ~Stocked(p, g)
      BY <2>1 DEF Stocked, Storing
    <3>. QED BY <1>0, <2>5, <3>1, <3>2 DEF Unstored
  <2>. QED BY <2>5, <2>6
<1>4. ASSUME NEW g \in Groups, g \in rows, \A q \in Procs : ~Has(q, g)
      PROVE  /\ g \notin reserved' /\ dir'[g] # "none"
             /\ \A q \in Procs : ~Has(q, g)'
  <2>1. g \notin reserved /\ dir[g] # "none" /\ g \notin registered
    BY <1>0, <1>4 DEF Known, Registers
  <2>2. ~Has(p, g)' /\ dir'[g] # "none"
    BY <1>4, <2>1, HasFrom, StepTouches DEF Step
  <2>3. \A q \in Procs \ {p} : ~Has(q, g)'
    BY <1>0, <1>4 DEF Others, Has
  <2>. QED BY <1>1, <2>1, <2>2, <2>3
<1>5. \A t \in acked' \ acked : \E g \in Groups :
        /\ t = <<p, g>> /\ p \in file'[g] /\ g \notin reserved' /\ dir'[g] # "none"
        /\ \A q \in Procs : ~Has(q, g)'
  <2>. SUFFICES ASSUME NEW t \in acked' \ acked
                PROVE  \E g \in Groups :
                         /\ t = <<p, g>> /\ p \in file'[g] /\ g \notin reserved'
                         /\ dir'[g] # "none" /\ \A q \in Procs : ~Has(q, g)'
    OBVIOUS
  <2>. PICK g \in Groups : /\ t = <<p, g>> /\ p \in file[g] /\ g \in rows
                           /\ \A q \in Procs : ~Has(q, g)
    BY <1>3
  <2>1. g \notin reserved' /\ dir'[g] # "none" /\ \A q \in Procs : ~Has(q, g)'
    BY <1>4
  <2>. QED BY <1>1, <2>1
<1>6. \A q \in Procs, g \in Groups : <<q, g>> \in acked => q \in file'[g] /\ g \notin reserved'
  BY <1>0, <1>1 DEF Remembered
<1>. QED BY <1>2, <1>5, <1>6, AcknowledgedFrom DEF Step

\* No step loses a tag, unless a transaction intruded.
LEMMA StepAcknowledged ==
  ASSUME Types, Documented, Locking, Registers, Counting, Work, Possession, Acknowledged,
         [Next]_vars
  PROVE  Acknowledged'
<1>. SUFFICES ASSUME ~intruded' PROVE Acknowledged'
  BY DEF Acknowledged
<1>0. ~intruded
  BY NeverForgiven
<1>1. ASSUME NEW p \in Procs, Step(p) \/ User(p) \/ Crash(p) PROVE Acknowledged'
  BY <1>0, <1>1, CalmAcknowledged, TagAcknowledged, ApplyAcknowledged, CommitAcknowledged,
     UnlockAcknowledged
<1>2. CASE Tick \/ UNCHANGED vars
  <2>1. UNCHANGED <<file, temp, dir, reserved, acked, pc, agenda, journal, pos>>
    BY <1>2 DEF Tick, vars, docVars, sqlVars, txVars, history
  <2>2. \A p, g : /\ Inside(p)' = Inside(p) /\ Kind(p)' = Kind(p)
                  /\ Noted(p, g)' = Noted(p, g) /\ Done(p, g)' = Done(p, g)
                  /\ Has(p, g)' = Has(p, g)
    BY <2>1 DEF Inside, Kind, Current, Noted, Done, Has
  <2>3. Remembered'
    BY <1>0, <2>1, <2>2 DEF Acknowledged, Remembered
  <2>4. \A p \in Procs : Tagging(p)'
    BY <1>0, <2>1, <2>2 DEF Acknowledged, Tagging
  <2>. QED BY <2>3, <2>4 DEF Acknowledged
<1>. QED BY <1>1, <1>2 DEF Next, Rest

\* Nothing was reported at the start.
LEMMA InitAcknowledged == Init => Acknowledged
BY DEF Init, Acknowledged, Remembered, Tagging, Inside, Holding

-----------------------------------------------------------------------------
(* The list of content groups in the record of the task                    *)

\* List s names the groups of R, each of them once.
Lists(s, R) ==
  /\ \A g \in Groups : g \in R <=> \E i \in DOMAIN s : s[i] = g
  /\ \A i, j \in DOMAIN s : i # j => s[i] # s[j]

\* A group that is not in a list is added.
LEMMA ListsAppend ==
  ASSUME NEW s \in Seq(Groups), NEW R, NEW g \in Groups, Lists(s, R), g \notin R
  PROVE  Lists(Append(s, g), R \cup {g})
<1>. DEFINE t == Append(s, g)
<1>1. /\ DOMAIN s = 1 .. Len(s) /\ DOMAIN t = 1 .. Len(s) + 1 /\ Len(s) \in Nat
      /\ \A i \in 1 .. Len(s) : t[i] = s[i]
      /\ t[Len(s) + 1] = g
  BY AppendProperties
<1>2. \A i \in 1 .. Len(s) : s[i] # g
  BY <1>1 DEF Lists
<1>. HIDE DEF t
<1>3. \A i \in 1 .. Len(s) + 1 : i \in 1 .. Len(s) \/ i = Len(s) + 1
  BY <1>1
<1>4. \A h \in Groups : h \in R \cup {g} <=> \E i \in DOMAIN t : t[i] = h
  <2>. SUFFICES ASSUME NEW h \in Groups PROVE h \in R \cup {g} <=> \E i \in DOMAIN t : t[i] = h
    OBVIOUS
  <2>1. h \in R => \E i \in DOMAIN t : t[i] = h
    BY <1>1 DEF Lists
  <2>2. Len(s) + 1 \in DOMAIN t
    BY <1>1
  <2>3. ASSUME NEW i \in DOMAIN t, t[i] = h PROVE h \in R \cup {g}
    BY <1>1, <1>3, <2>3 DEF Lists
  <2>. QED BY <1>1, <2>1, <2>2, <2>3
<1>5. \A i, j \in DOMAIN t : i # j => t[i] # t[j]
  BY <1>1, <1>2, <1>3 DEF Lists
<1>6. Lists(t, R \cup {g})
  BY <1>4, <1>5 DEF Lists
<1>. QED BY <1>6 DEF t

\* A sequence without its element at index k.
Erased(s, k) == SubSeq(s, 1, k - 1) \o SubSeq(s, k + 1, Len(s))

\* What comes before index k stays, what comes after moves up.
LEMMA Erasure ==
  ASSUME NEW s \in Seq(Groups), NEW k \in 1 .. Len(s)
  PROVE  /\ DOMAIN Erased(s, k) = 1 .. Len(s) - 1
         /\ \A i \in 1 .. Len(s) - 1 :
              Erased(s, k)[i] = IF i < k THEN s[i] ELSE s[i + 1]
<1>. DEFINE u == SubSeq(s, 1, k - 1)  v == SubSeq(s, k + 1, Len(s))  t == Erased(s, k)
<1>0. Len(s) \in Nat /\ k \in Nat /\ k <= Len(s) /\ k >= 1
      /\ \A i \in 1 .. Len(s) : s[i] \in Groups
  OBVIOUS
<1>1. /\ u \in Seq(Groups) /\ Len(u) = k - 1
      /\ \A i \in 1 .. k - 1 : u[i] = s[i]
  <2>1. \A i \in 1 .. k - 1 : s[i] \in Groups
    BY <1>0
  <2>2. /\ u \in Seq(Groups) /\ Len(u) = IF 1 <= k - 1 THEN k - 1 - 1 + 1 ELSE 0
        /\ \A i \in 1 .. k - 1 - 1 + 1 : u[i] = s[1 + i - 1]
    BY <1>0, <2>1, SubSeqProperties
  <2>. HIDE DEF u
  <2>. QED BY <1>0, <2>2
<1>2. /\ v \in Seq(Groups) /\ Len(v) = Len(s) - k
      /\ \A i \in 1 .. Len(s) - k : v[i] = s[i + k]
  <2>1. \A i \in k + 1 .. Len(s) : s[i] \in Groups
    BY <1>0
  <2>2. /\ v \in Seq(Groups)
        /\ Len(v) = IF k + 1 <= Len(s) THEN Len(s) - (k + 1) + 1 ELSE 0
        /\ \A i \in 1 .. Len(s) - (k + 1) + 1 : v[i] = s[(k + 1) + i - 1]
    BY <1>0, <2>1, SubSeqProperties
  <2>. HIDE DEF v
  <2>3. Len(v) = Len(s) - k
    BY <1>0, <2>2
  <2>4. ASSUME NEW i \in 1 .. Len(s) - k PROVE v[i] = s[i + k]
    <3>1. i \in 1 .. Len(s) - (k + 1) + 1 /\ (k + 1) + i - 1 = i + k
      BY <1>0
    <3>. QED BY <2>2, <3>1
  <2>. QED BY <2>2, <2>3, <2>4
<1>. HIDE DEF u, v
<1>3. /\ t \in Seq(Groups) /\ Len(t) = Len(u) + Len(v)
      /\ \A i \in 1 .. Len(u) + Len(v) : t[i] = IF i <= Len(u) THEN u[i] ELSE v[i - Len(u)]
  BY <1>1, <1>2, ConcatProperties DEF u, v, Erased
<1>. HIDE DEF t
<1>4. DOMAIN t = 1 .. Len(s) - 1
  BY <1>0, <1>1, <1>2, <1>3
<1>5. ASSUME NEW i \in 1 .. Len(s) - 1 PROVE t[i] = IF i < k THEN s[i] ELSE s[i + 1]
  <2>1. CASE i < k
    BY <1>0, <1>1, <1>2, <1>3, <2>1
  <2>2. CASE ~(i < k)
    <3>1. i - Len(u) \in 1 .. Len(s) - k /\ ~(i <= Len(u)) /\ i - Len(u) + k = i + 1
      BY <1>0, <1>1, <2>2
    <3>2. i \in 1 .. Len(u) + Len(v)
      BY <1>0, <1>1, <1>2
    <3>3. t[i] = v[i - Len(u)]
      BY <1>3, <3>1, <3>2
    <3>4. v[i - Len(u)] = s[i - Len(u) + k]
      BY <1>2, <3>1
    <3>. QED BY <2>2, <3>1, <3>3, <3>4
  <2>. QED BY <2>1, <2>2
<1>. QED BY <1>4, <1>5 DEF t

\* A group that is in a list is taken off.
LEMMA ListsWithout ==
  ASSUME NEW s \in Seq(Groups), NEW R, NEW g \in Groups, Lists(s, R), g \in R
  PROVE  Lists(Without(s, g), R \ {g})
<1>. DEFINE found == {i \in DOMAIN s : s[i] = g}
<1>0. DOMAIN s = 1 .. Len(s) /\ Len(s) \in Nat
  OBVIOUS
<1>. PICK k \in DOMAIN s : s[k] = g
  BY DEF Lists
<1>1. found = {k}
  BY DEF Lists
<1>2. (CHOOSE i \in found : \A j \in found : i <= j) = k
  <2>1. k <= k
    BY <1>0
  <2>. QED BY <1>1, <2>1
<1>. DEFINE t == Without(s, g)
<1>3. t = Erased(s, k)
  BY <1>1, <1>2 DEF Without, Erased
<1>. HIDE DEF t
<1>4. /\ DOMAIN t = 1 .. Len(s) - 1
      /\ \A i \in 1 .. Len(s) - 1 : t[i] = IF i < k THEN s[i] ELSE s[i + 1]
  <2>1. k \in 1 .. Len(s)
    BY <1>0
  <2>. QED BY <1>3, <2>1, Erasure
<1>. DEFINE Old(i) == IF i < k THEN i ELSE i + 1
<1>5. /\ \A i \in DOMAIN t : Old(i) \in DOMAIN s /\ Old(i) # k /\ t[i] = s[Old(i)]
      /\ \A i, j \in DOMAIN t : i # j => Old(i) # Old(j)
      /\ \A n \in DOMAIN s : n # k => \E i \in DOMAIN t : Old(i) = n
  <2>1. \A i \in DOMAIN t : Old(i) \in DOMAIN s /\ Old(i) # k /\ t[i] = s[Old(i)]
    BY <1>0, <1>4
  <2>2. \A i, j \in DOMAIN t : i # j => Old(i) # Old(j)
    BY <1>0, <1>4
  <2>3. ASSUME NEW n \in DOMAIN s, n # k PROVE \E i \in DOMAIN t : Old(i) = n
    <3>1. CASE n < k
      BY <1>0, <1>4, <3>1
    <3>2. CASE ~(n < k)
      <4>1. n - 1 \in DOMAIN t /\ Old(n - 1) = n
        BY <1>0, <1>4, <2>3, <3>2
      <4>. QED BY <4>1
    <3>. QED BY <3>1, <3>2
  <2>. QED BY <2>1, <2>2, <2>3
<1>. HIDE DEF Old
<1>6. \A i, j \in DOMAIN t : i # j => t[i] # t[j]
  BY <1>5 DEF Lists
<1>7. \A h \in Groups : h \in R \ {g} <=> \E i \in DOMAIN t : t[i] = h
  <2>. SUFFICES ASSUME NEW h \in Groups
                PROVE  h \in R \ {g} <=> \E i \in DOMAIN t : t[i] = h
    OBVIOUS
  <2>1. ASSUME h \in R, h # g PROVE \E i \in DOMAIN t : t[i] = h
    <3>. PICK n \in DOMAIN s : s[n] = h
      BY <2>1 DEF Lists
    <3>1. n # k
      BY <2>1
    <3>. QED BY <1>5, <3>1
  <2>2. ASSUME NEW i \in DOMAIN t, t[i] = h PROVE h \in R /\ h # g
    <3>1. Old(i) \in DOMAIN s /\ Old(i) # k /\ s[Old(i)] = h
      BY <1>5, <2>2
    <3>. QED BY <3>1 DEF Lists
  <2>. QED BY <2>1, <2>2
<1>8. Lists(t, R \ {g})
  BY <1>6, <1>7 DEF Lists
<1>. QED BY <1>8 DEF t

\* The list at the start.
LEMMA ListsStored ==
  ASSUME Init
  PROVE  Lists(file[Task], rows)
<1>. DEFINE n == Cardinality(Stored)
            All(s) == \A g \in Stored : \E i \in DOMAIN s : s[i] = g
            l == CHOOSE s \in [1 .. n -> Stored] : All(s)
<1>1. IsFiniteSet(Stored) /\ n \in Nat /\ ExistsBijection(1 .. n, Stored)
  BY GroupsAssumption, FS_Subset, FS_CardinalityType
<1>2. PICK s \in Bijection(1 .. n, Stored) : TRUE
  BY <1>1 DEF ExistsBijection
<1>3. s \in [1 .. n -> Stored] /\ All(s)
  BY <1>2 DEF Bijection, Injection, Surjection
<1>4. l \in [1 .. n -> Stored] /\ All(l)
  BY <1>3
<1>5. file[Task] = l /\ rows = Stored
  BY DocNames DEF Init
<1>. HIDE DEF l
<1>6. l \in Surjection(1 .. n, Stored)
  BY <1>4 DEF Surjection
<1>7. IsFiniteSet(1 .. n) /\ Cardinality(1 .. n) = n
  <2>1. ASSUME NEW m \in Nat PROVE IsFiniteSet(1 .. m) /\ Cardinality(1 .. m) = m
    <3>1. /\ IsFiniteSet(1 .. m)
          /\ Cardinality(1 .. m) = IF 1 > m THEN 0 ELSE m - 1 + 1
      BY FS_Interval
    <3>. QED BY <3>1
  <2>. QED BY <1>1, <2>1
<1>8. l \in Injection(1 .. n, Stored)
  BY <1>6, <1>7, FS_SurjSameCardinalityImpliesInj
<1>9. \A i, j \in DOMAIN l : i # j => l[i] # l[j]
  BY <1>4, <1>8 DEF Injection, IsInjective
<1>10. \A g \in Groups : g \in Stored <=> \E i \in DOMAIN l : l[i] = g
  BY <1>4
<1>. QED BY <1>5, <1>9, <1>10 DEF Lists

\* A deletion is asked for one group: the list of the task is read from its
\* document, so that a second group in one transaction would undo the first.
OneAtATime == \A c \in Commands : c.kind = "delete" => Len(c.groups) <= 1
Singles == \A p \in Procs :
  /\ \A i \in DOMAIN agenda[p] :
       agenda[p][i].kind = "delete" => Len(agenda[p][i].groups) <= 1
  /\ pc[p] = "body" /\ Kind(p) = "delete" /\ todo[p] # <<>> =>
       pending[p] = {} /\ Len(todo[p]) <= 1

\* What is on an agenda deletes one group, if users ask for no more.
LEMMA SinglesAsked ==
  ASSUME OneAtATime, Types, Singles, NEW p \in Procs, Step(p) \/ User(p) \/ Crash(p)
  PROVE  \A i \in DOMAIN agenda'[p] :
           agenda'[p][i].kind = "delete" => Len(agenda'[p][i].groups) <= 1
<1>1. CASE agenda'[p] = agenda[p] \/ agenda'[p] = <<>>
  BY <1>1 DEF Singles
<1>2. CASE agenda'[p] = Tail(agenda[p]) /\ agenda[p] # <<>>
  <2>1. agenda[p] \in Seq(Asked)
    BY DEF Types, ControlTypes
  <2>2. \A i \in DOMAIN agenda'[p] :
          i + 1 \in DOMAIN agenda[p] /\ agenda'[p][i] = agenda[p][i + 1]
    BY <1>2, <2>1
  <2>. QED BY <2>2 DEF Singles
<1>3. CASE agenda'[p] = <<On("abort", Group(p))>>
  <2>1. DOMAIN agenda'[p] = {1} /\ agenda'[p][1].kind = "abort"
    BY <1>3 DEF On
  <2>. QED BY <2>1
<1>4. ASSUME NEW c \in Commands, agenda'[p] = <<c>>
      PROVE  \A i \in DOMAIN agenda'[p] :
               agenda'[p][i].kind = "delete" => Len(agenda'[p][i].groups) <= 1
  <2>1. DOMAIN agenda'[p] = {1} /\ agenda'[p][1] = c
    BY <1>4
  <2>. QED BY <2>1 DEF OneAtATime
<1>5. ASSUME NEW h \in Groups, NEW end \in {"close", "abort"},
             agenda'[p] = <<On("reserve", h), On("register", h), On(end, h)>>
      PROVE  \A i \in DOMAIN agenda'[p] : agenda'[p][i].kind # "delete"
  <2>1. /\ DOMAIN agenda'[p] = 1 .. 3 /\ agenda'[p][1] = On("reserve", h)
        /\ agenda'[p][2] = On("register", h) /\ agenda'[p][3] = On(end, h)
    BY <1>5
  <2>. QED BY <2>1 DEF On
<1>6. ASSUME NEW list \in [1 .. Cardinality(registered) -> registered],
             agenda'[p] = [i \in DOMAIN list |-> On("recover", list[i])]
      PROVE  \A i \in DOMAIN agenda'[p] : agenda'[p][i].kind # "delete"
  BY <1>6 DEF On
<1>. QED BY <1>1, <1>2, <1>3, <1>4, <1>5, <1>6, AgendaMoves

\* Before a deletion is written, nothing is.
LEMMA StepSingles ==
  ASSUME OneAtATime, Types, Work, Singles, [Next]_vars
  PROVE  Singles'
<1>. USE DEF docVars, sqlVars, txVars, history
<1>1. ASSUME NEW p \in Procs, Step(p) \/ User(p) \/ Crash(p),
             pc'[p] = "body", Kind(p)' = "delete", todo'[p] # <<>>
      PROVE  pending'[p] = {} /\ Len(todo'[p]) <= 1
  <2>. USE DEF Types, ControlTypes
  <2>1. CASE MakeLock(p)
    <3>1. /\ pc[p] = "make" /\ UNCHANGED <<todo, pending, agenda>> /\ agenda[p] # <<>>
          /\ Kind(p)' = Kind(p)
      BY <2>1 DEF MakeLock, Counted, Kind, Current
    <3>2. pending[p] = {} /\ todo[p] = Current(p).groups
      BY <3>1 DEF Work, InTurn
    <3>3. 1 \in DOMAIN agenda[p]
      BY <3>1
    <3>. QED BY <1>1, <3>1, <3>2, <3>3 DEF Singles, Kind, Current
  <2>2. CASE Delete(p)
    <3>1. NextGroup(p) /\ pc[p] = "body" /\ todo[p] # <<>> /\ Kind(p) = "delete"
      BY <2>2 DEF Delete, NextGroup
    <3>2. \E g : Written(p, g)
      BY <1>1, <2>2, <3>1, Outcome DEF Delete
    <3>3. todo'[p] = Tail(todo[p]) /\ Len(todo[p]) <= 1
      BY <3>1, <3>2, Outcome DEF Singles
    <3>4. todo'[p] = <<>>
      BY <3>1, <3>3
    <3>. QED BY <1>1, <3>4
  <2>3. CASE Enter(p) \/ Close(p) \/ Abort(p) \/ Tag(p)
    <3>1. Kind(p)' # "delete"
      BY <2>3 DEF Enter, Close, Abort, Tag, NextGroup, Kind, Current
    <3>. QED BY <1>1, <3>1
  <2>4. CASE Start(p) \/ LockFree(p) \/ LockHeld(p) \/ BodyThrows(p) \/ LockChecked(p)
             \/ Apply(p) \/ ApplyThrows(p) \/ Applied(p) \/ CommitSql(p) \/ CommitBusy(p)
             \/ User(p)
    <3>1. pc'[p] # "body"
      BY <2>4 DEF Start, LockFree, LockHeld, BodyThrows, Refused, LockChecked, Apply,
         ApplyThrows, Applied, CommitSql, CommitBusy, User, Ask, NewTask, Recover
    <3>. QED BY <1>1, <3>1
  <2>5. CASE NoContainer(p) \/ Underway(p) \/ NoLock(p) \/ LockLost(p) \/ Unlock(p)
             \/ Unwind(p) \/ Crash(p)
    <3>1. pc'[p] # "body"
      BY <2>5 DEF NoContainer, Underway, NoLock, LockLost, Unlock, Unwind, Crash, Fails
    <3>. QED BY <1>1, <3>1
  <2>. QED BY <1>1, <2>1, <2>2, <2>3, <2>4, <2>5 DEF Step
<1>2. ASSUME NEW p \in Procs, Step(p) \/ User(p) \/ Crash(p) PROVE Singles'
  <2>1. \A q \in Procs \ {p} : Kind(q)' = Kind(q)
    BY <1>2, StepOthers, SameElsewhere
  <2>2. \A q \in Procs \ {p} : /\ agenda'[q] = agenda[q] /\ todo'[q] = todo[q]
                               /\ pc'[q] = pc[q] /\ pending'[q] = pending[q]
    BY <1>2, StepOthers DEF Others
  <2>3. \A i \in DOMAIN agenda'[p] :
          agenda'[p][i].kind = "delete" => Len(agenda'[p][i].groups) <= 1
    BY <1>2, SinglesAsked
  <2>. QED BY <1>1, <1>2, <2>1, <2>2, <2>3 DEF Singles
<1>3. CASE Tick \/ UNCHANGED vars
  BY <1>3 DEF Tick, vars, Singles, Kind, Current
<1>. QED BY <1>2, <1>3 DEF Next, Rest

\* The list that is in place is the list of the database, or the database will
\* follow: the document of the task is applied and COMMIT is to come.
Relisted(p) == Inside(p) /\ pc[p] # "unlock" /\ Done(p, Emplace(Task))
Listing(p) ==
  /\ Relisted(p) /\ pc[p] # "unwind" => Lists(file[Task], View(p))
  /\ pc[p] \in {"body", "journal"} /\ Noted(p, Emplace(Task)) /\ temp[Task] # None =>
       Lists(temp[Task], View(p))
ListKept == ~torn /\ ~intruded =>
  /\ (\A p \in Procs : ~Relisted(p)) => Lists(file[Task], rows)
  /\ \A p \in Procs : Listing(p)

\* What a process inside a transaction finds in the document of the task.
LEMMA ListFound ==
  ASSUME Locking, ListKept, ~torn, ~intruded, NEW p \in Procs, Inside(p), ~Relisted(p)
  PROVE  Lists(file[Task], rows)
<1>1. \A q \in Procs : Inside(q) => q = p
  BY DEF Locking, ExclusiveAccess
<1>2. \A q \in Procs : ~Relisted(q)
  BY <1>1 DEF Relisted
<1>. QED BY <1>2 DEF ListKept

\* What a step of p has to keep.
LEMMA ListFrom ==
  ASSUME Types, Locking, ListKept, ~torn, ~intruded, NEW p \in Procs,
         Step(p) \/ User(p) \/ Crash(p), Listing(p)',
         Inside(p) => Relisted(p)' \/ Lists(file'[Task], rows')
  PROVE  ListKept'
<1>0. Others(p)
  BY StepOthers
<1>1. ASSUME NEW q \in Procs \ {p}
      PROVE  Relisted(q)' = Relisted(q) /\ Listing(q)'
  <2>1. /\ pc'[q] = pc[q] /\ pending'[q] = pending[q] /\ Inside(q)' = Inside(q)
        /\ \A r : Noted(q, r)' = Noted(q, r) /\ Done(q, r)' = Done(q, r)
    BY <1>0, SameElsewhere DEF Others
  <2>2. Relisted(q)' = Relisted(q)
    BY <2>1 DEF Relisted
  <2>3. CASE Inside(p)
    <3>1. ~Inside(q)
      BY <2>3 DEF Locking, ExclusiveAccess
    <3>. QED BY <2>1, <2>2, <3>1 DEF Listing, Relisted, Inside, Holding
  <2>4. CASE ~Inside(p)
    <3>1. UNCHANGED <<file, temp, rows>>
      BY <2>4, StepTouches DEF CommitSql, Inside, Holding
    <3>2. View(q)' = View(q)
      BY <2>1, <3>1 DEF View
    <3>. QED BY <2>1, <2>2, <3>1, <3>2 DEF ListKept, Listing
  <2>. QED BY <2>2, <2>3, <2>4
<1>2. ASSUME \A q \in Procs : ~Relisted(q)' PROVE Lists(file'[Task], rows')
  <2>1. CASE Inside(p)
    BY <1>2, <2>1
  <2>2. CASE ~Inside(p)
    <3>1. UNCHANGED <<file, rows>>
      BY <2>2, StepTouches DEF CommitSql, Inside, Holding
    <3>2. \A q \in Procs : ~Relisted(q)
      BY <1>1, <1>2, <2>2 DEF Relisted
    <3>. QED BY <3>1, <3>2 DEF ListKept
  <2>. QED BY <2>1, <2>2
<1>. QED BY <1>1, <1>2 DEF ListKept

\* Steps that neither change nor apply the list, and steps that give up.
LEMMA CalmList ==
  ASSUME Types, Documented, Work, Counting, Locking, ListKept, ~torn, ~intruded, ~torn',
         NEW p \in Procs, Step(p) \/ User(p) \/ Crash(p),
         ~Close(p), ~Delete(p), ~Apply(p), ~CommitSql(p)
  PROVE  ListKept'
<1>. USE DEF docVars, sqlVars, txVars, history
<1>0. UNCHANGED <<file, rows>> /\ Listing(p)
  BY StepTouches DEF ListKept
<1>1. Inside(p) /\ ~Relisted(p) => Lists(file'[Task], rows')
  BY <1>0, ListFound
<1>2. CASE Start(p) \/ LockFree(p) \/ LockHeld(p) \/ NoContainer(p) \/ Underway(p)
           \/ NoLock(p) \/ User(p)
  <2>1. ~Inside(p) /\ ~Inside(p)'
    BY <1>2 DEF Start, LockFree, LockHeld, NoContainer, Underway, NoLock, User, Ask, NewTask,
                Recover, Fails, Inside, Holding, Types, ControlTypes
  <2>2. Listing(p)'
    BY <2>1 DEF Listing, Relisted, Inside, Holding
  <2>. QED BY <2>1, <2>2, ListFrom
<1>3. CASE MakeLock(p)
  <2>1. pc[p] = "make" /\ journal'[p] = <<>>
    BY <1>3 DEF MakeLock, Work, InTurn
  <2>2. Listing(p)' /\ ~Inside(p)
    BY <2>1 DEF Listing, Relisted, Noted, Done, Inside, Holding
  <2>. QED BY <2>2, ListFrom
<1>4. CASE LockChecked(p) \/ ApplyThrows(p) \/ Applied(p) \/ CommitBusy(p) \/ BodyThrows(p)
  <2>1. /\ UNCHANGED <<journal, pos, pending, temp>> /\ Inside(p) /\ Inside(p)'
        /\ pc[p] # "unlock" /\ pc'[p] # "unlock" /\ pc[p] # "unwind"
        /\ pc'[p] \in {"body", "journal"} => pc[p] \in {"body", "journal"}
    BY <1>4 DEF LockChecked, ApplyThrows, Applied, CommitBusy, BodyThrows, NextGroup, Refused,
                Inside, Holding, Types, ControlTypes
  <2>2. /\ View(p)' = View(p) /\ Relisted(p)' = Relisted(p)
        /\ \A r : Noted(p, r)' = Noted(p, r)
    BY <1>0, <2>1 DEF View, Relisted, Noted, Done
  <2>3. Listing(p)'
    BY <1>0, <2>1, <2>2 DEF Listing
  <2>. QED BY <1>1, <2>2, <2>3, ListFrom
<1>5. CASE Enter(p) \/ Abort(p)
  <2>1. /\ NextGroup(p) /\ Kind(p) \in TaskKinds /\ UNCHANGED journal
        /\ pc'[p] \in {"body", "unwind"}
    BY <1>5 DEF Enter, Abort, NextGroup, Written, Refused, TaskKinds, Kinds, Types,
                ControlTypes
  <2>2. journal'[p] = <<>> /\ Inside(p)
    BY <2>1, BodyWork
  <2>3. Listing(p)' /\ ~Relisted(p)
    BY <2>1, <2>2 DEF Listing, Relisted, Noted, Done
  <2>. QED BY <1>1, <2>3, ListFrom
<1>6. CASE Tag(p)
  <2>1. pc[p] = "body" /\ Inside(p) /\ pc' = pc /\ Kind(p)' = "tag" /\ pos' = pos
    BY <1>6 DEF Tag, NextGroup, Inside, Holding, Kind, Current
  <2>2. TagWork(p)' /\ Inside(p)'
    BY <1>6, <2>1, TagBodyWork DEF Work, Inside
  <2>3. ~Noted(p, Emplace(Task))'
    <3>1. \A g \in Groups : Emplace(g) # Emplace(Task)
      BY NamesAssumption DEF Emplace
    <3>. QED BY <2>1, <2>2, <3>1 DEF TagWork
  <2>4. ~Relisted(p)
    BY <2>1, NothingDone DEF Relisted
  <2>5. ~Done(p, Emplace(Task))'
    BY <2>3 DEF Noted, Done
  <2>6. Listing(p)'
    BY <2>3, <2>5 DEF Listing, Relisted
  <2>. QED BY <1>1, <2>4, <2>6, ListFrom
<1>7. CASE LockLost(p) \/ Unwind(p) \/ Unlock(p) \/ Crash(p)
  <2>1. ~Inside(p)'
    BY <1>7 DEF LockLost, Unwind, Unlock, Crash, Fails, Inside, Holding, Types, ControlTypes
  <2>2. Relisted(p) => Half(p)
    <3>1. journal[p] \in Seq(Records) /\ pos[p] \in Nat
      BY DEF Types, TxTypes
    <3>. QED BY <3>1 DEF Relisted, Done, Half
  <2>3. Relisted(p) => ~Half(p)
    BY <1>7 DEF LockLost, Unwind, Unlock, Crash, Relisted, Inside
  <2>4. Listing(p)'
    BY <2>1 DEF Listing, Relisted, Inside, Holding
  <2>. QED BY <1>1, <2>2, <2>3, <2>4, ListFrom
<1>. QED BY <1>2, <1>3, <1>4, <1>5, <1>6, <1>7 DEF Step

\* A group is stored with its entry at the end of the list.
LEMMA CloseList ==
  ASSUME Types, Documented, Work, Locking, ListKept, ~torn, ~intruded, NEW p \in Procs,
         Close(p)
  PROVE  ListKept'
<1>. PICK g \in Groups : g = todo[p][1]
  BY BodyWork DEF Close
<1>0. UNCHANGED <<file, rows>>
  BY DEF Close, NextGroup
<1>1. /\ NextGroup(p) /\ Kind(p) \in TaskKinds /\ Storing(p) /\ Legal(p, g) /\ Written(p, g)
      /\ temp' = [temp EXCEPT ![g] = {}, ![Task] = Append(file[Task], g)]
  BY DEF Close, TaskKinds, Kinds, Storing
<1>2. /\ pending[p] = {} /\ Inside(p) /\ pc[p] = "body" /\ Kind(p)' = Kind(p)
  BY <1>1, BodyWork
<1>3. /\ g \notin rows /\ pc'[p] = "body" /\ Inside(p)' /\ pos' = pos
      /\ pending'[p] = {<<"insert", g>>, <<"deregister", g>>}
  BY <1>1, <1>2, Outcome DEF Storing, Legal, Changes, Inside, Holding, NextGroup
<1>4. ~Relisted(p)
  BY <1>2, NothingDone DEF Relisted
<1>5. Lists(file[Task], rows)
  BY <1>2, <1>4, ListFound
<1>6. temp'[Task] = Append(file[Task], g) /\ file[Task] \in Seq(Groups)
  BY <1>1, DocNames DEF Types, FileTypes
<1>7. View(p)' = rows \cup {g}
  BY <1>0, <1>3 DEF View
<1>8. Lists(temp'[Task], View(p)')
  BY <1>3, <1>5, <1>6, <1>7, ListsAppend
<1>9. ~Relisted(p)'
  <2>1. pos'[p] = 1
    BY <1>2, <1>3 DEF Documented, DocumentFirst
  <2>2. journal'[p] \in Seq(Records)
    BY StepTypes DEF Types, TxTypes, Next, Step
  <2>. QED BY <2>1, <2>2 DEF Relisted, Done
<1>10. Listing(p)'
  BY <1>8, <1>9 DEF Listing
<1>. QED BY <1>0, <1>5, <1>10, ListFrom DEF Step

\* A group that is deleted is taken off the list.
LEMMA DeleteList ==
  ASSUME Types, Documented, Work, Singles, Locking, ListKept, ~torn, ~intruded,
         NEW p \in Procs, Delete(p)
  PROVE  ListKept'
<1>. PICK g \in Groups : g = todo[p][1]
  BY BodyWork DEF Delete
<1>0. UNCHANGED <<file, rows>>
  BY DEF Delete, NextGroup
<1>1. /\ NextGroup(p) /\ Kind(p) = "delete" /\ Legal(p, g)
      /\ temp' = [temp EXCEPT ![Task] = Without(file[Task], g)]
      /\ Written(p, g) \/ Refused(p)
  BY DEF Delete
<1>2. /\ Inside(p) /\ pc[p] = "body" /\ pos' = pos /\ pending[p] = {}
  BY <1>1, BodyWork DEF Singles
<1>3. g \in rows
  BY <1>1, <1>2 DEF Legal, View
<1>4. ~Relisted(p)
  BY <1>2, NothingDone DEF Relisted
<1>5. Lists(file[Task], rows)
  BY <1>2, <1>4, ListFound
<1>6. temp'[Task] = Without(file[Task], g) /\ file[Task] \in Seq(Groups)
  BY <1>1, DocNames DEF Types, FileTypes
<1>7. Lists(temp'[Task], rows \ {g})
  BY <1>3, <1>5, <1>6, ListsWithout
<1>8. ~Relisted(p)'
  <2>1. pos'[p] = 1
    BY <1>2 DEF Documented, DocumentFirst
  <2>2. journal'[p] \in Seq(Records)
    BY StepTypes DEF Types, TxTypes, Next, Step
  <2>. QED BY <2>1, <2>2 DEF Relisted, Done
<1>9. Listing(p)'
  <2>1. CASE Written(p, g)
    <3>1. pending'[p] = {<<"delete", g>>}
      BY <1>1, <1>2, <2>1, Outcome DEF Changes
    <3>2. View(p)' = rows \ {g}
      BY <1>0, <3>1 DEF View
    <3>. QED BY <1>7, <1>8, <3>2 DEF Listing
  <2>2. CASE Refused(p)
    <3>1. pc'[p] = "unwind"
      BY <1>2, <2>2, Outcome
    <3>. QED BY <1>8, <3>1 DEF Listing
  <2>. QED BY <1>1, <2>1, <2>2
<1>. QED BY <1>0, <1>5, <1>9, ListFrom DEF Step

\* The list is put in place.
LEMMA ApplyList ==
  ASSUME Types, Counting, Locking, ListKept, ~torn, ~intruded, NEW p \in Procs, Apply(p)
  PROVE  ListKept'
<1>0. rows' = rows /\ Listing(p)
  BY DEF ListKept, Apply, sqlVars
<1>. PICK r \in Records :
       /\ r = journal[p][pos[p]] /\ Noted(p, r)
       /\ \A x : Done(p, x)' <=> Done(p, x) \/ x = r
       /\ pc[p] = "journal" /\ Inside(p) /\ UNCHANGED <<pc, agenda, journal, pending>>
       /\ pos'[p] = pos[p] + 1
       /\ \/ \E d \in Docs : /\ r = Emplace(d) /\ temp[d] # None /\ dir' = dir
                             /\ file' = [file EXCEPT ![d] = temp[d]]
                             /\ temp' = [temp EXCEPT ![d] = None]
          \/ \E g \in Groups : /\ r = Move(g) /\ UNCHANGED <<file, temp>>
                               /\ dir[g] = "output"
                               /\ dir' = [dir EXCEPT ![g] = "trash"]
  BY NextRecord
<1>1. /\ View(p)' = View(p) /\ Inside(p)' /\ \A x : Noted(p, x)' = Noted(p, x)
  BY <1>0 DEF View, Inside, Noted
<1>2. CASE r = Emplace(Task)
  <2>1. temp[Task] # None /\ file'[Task] = temp[Task] /\ temp'[Task] = None
    BY <1>2, DocNames DEF Types, FileTypes, Emplace, Move
  <2>2. Lists(file'[Task], View(p)')
    BY <1>0, <1>1, <1>2, <2>1 DEF Listing
  <2>3. Listing(p)' /\ Relisted(p)'
    BY <1>1, <1>2, <2>1, <2>2 DEF Listing, Relisted
  <2>. QED BY <2>3, ListFrom DEF Step
<1>3. CASE r # Emplace(Task)
  <2>1. file'[Task] = file[Task] /\ temp'[Task] = temp[Task]
    BY <1>3, DocNames DEF Types, FileTypes
  <2>2. Relisted(p)' = Relisted(p)
    BY <1>1, <1>3 DEF Relisted
  <2>3. Listing(p)'
    BY <1>0, <1>1, <2>1, <2>2 DEF Listing
  <2>4. ~Relisted(p) => Lists(file'[Task], rows')
    BY <1>0, <2>1, ListFound
  <2>. QED BY <2>2, <2>3, <2>4, ListFrom DEF Step
<1>. QED BY <1>2, <1>3

\* The database follows the list, and is left alone when the list was.
LEMMA CommitList ==
  ASSUME Types, Documented, Work, Locking, ListKept, ~torn, ~intruded, NEW p \in Procs,
         CommitSql(p)
  PROVE  ListKept'
<1>1. /\ pc[p] = "sql" /\ pc'[p] = "unlock" /\ Inside(p) /\ file' = file
      /\ rows' = View(p) /\ agenda[p] # <<>>
  BY DEF CommitSql, docVars, Types, ControlTypes, Counted, Inside, Holding, With, View
<1>2. Listing(p)'
  BY <1>1 DEF Listing, Relisted
<1>3. CASE Relisted(p)
  <2>1. Lists(file[Task], View(p))
    BY <1>1, <1>3 DEF ListKept, Listing
  <2>. QED BY <1>1, <1>2, <2>1, ListFrom DEF Step
<1>4. CASE ~Relisted(p)
  <2>1. ~Noted(p, Emplace(Task))
    <3>1. pos[p] > Len(journal[p]) /\ journal[p] \in Seq(Records) /\ pos[p] \in Nat
      BY <1>1 DEF Documented, DocumentFirst, Types, TxTypes
    <3>2. \A k \in DOMAIN journal[p] : k < pos[p]
      BY <3>1
    <3>. QED BY <1>1, <1>4, <3>2 DEF Relisted, Noted, Done
  <2>2. Kind(p) \in Kinds /\ todo[p] = <<>>
    BY <1>1, CurrentType DEF Types, Work, InTurn
  <2>3. \A c \in pending[p] : c[1] \notin {"insert", "delete"}
    <3>1. CASE Kind(p) \in TaskKinds
      <4>1. pending[p] = Changes(p, Group(p)) /\ ~Storing(p)
        BY <1>1, <2>1, <2>2, <3>1 DEF Work, TaskWork
      <4>. QED BY <3>1, <4>1 DEF Storing, Changes, TaskKinds, Kinds
    <3>2. CASE Kind(p) = "tag"
      BY <1>1, <3>2 DEF Work, TagWork
    <3>3. CASE Kind(p) = "delete"
      BY <1>1, <2>1, <3>3 DEF Work, DeleteWork
    <3>. QED BY <2>2, <3>1, <3>2, <3>3 DEF TaskKinds
  <2>4. View(p) = rows
    BY <2>3 DEF View
  <2>5. Lists(file[Task], rows)
    BY <1>1, <1>4, ListFound
  <2>. QED BY <1>1, <1>2, <2>4, <2>5, ListFrom DEF Step
<1>. QED BY <1>3, <1>4

\* The list in the document of the task follows the database.
LEMMA StepList ==
  ASSUME Types, Documented, Locking, Counting, Work, Singles, ListKept, [Next]_vars
  PROVE  ListKept'
<1>. SUFFICES ASSUME ~torn', ~intruded' PROVE ListKept'
  BY DEF ListKept
<1>0. ~torn /\ ~intruded
  BY NeverForgiven
<1>1. ASSUME NEW p \in Procs, Step(p) \/ User(p) \/ Crash(p) PROVE ListKept'
  BY <1>0, <1>1, CalmList, CloseList, DeleteList, ApplyList, CommitList
<1>2. CASE Tick \/ UNCHANGED vars
  <2>1. UNCHANGED <<file, temp, rows, pc, journal, pos, pending, torn, intruded>>
    BY <1>2 DEF Tick, vars, docVars, sqlVars, txVars, history
  <2>2. \A p : /\ Inside(p)' = Inside(p) /\ View(p)' = View(p)
               /\ \A r : Noted(p, r)' = Noted(p, r) /\ Done(p, r)' = Done(p, r)
    BY <2>1 DEF Inside, View, Noted, Done
  <2>3. \A p : Relisted(p)' = Relisted(p)
    BY <2>1, <2>2 DEF Relisted
  <2>4. \A p : Listing(p)' = Listing(p)
    BY <2>1, <2>2, <2>3 DEF Listing
  <2>. QED BY <1>0, <2>1, <2>3, <2>4 DEF ListKept
<1>. QED BY <1>1, <1>2 DEF Next, Rest

\* At the start the document lists what is stored.
LEMMA InitList == Init => ListKept /\ Singles
<1>. SUFFICES ASSUME Init PROVE ListKept /\ Singles
  OBVIOUS
<1>1. \A p \in Procs : pc[p] = "idle" /\ agenda[p] = <<>>
  BY DEF Init
<1>2. \A p \in Procs : Listing(p)
  BY <1>1 DEF Listing, Relisted, Inside, Holding
<1>3. Singles
  BY <1>1 DEF Singles
<1>. QED BY <1>2, <1>3, ListsStored DEF ListKept

-----------------------------------------------------------------------------
(* Theorems                                                                *)

RecordsInv == Counting /\ Plans /\ Work /\ Possession /\ Placed /\ Acknowledged

\* Every reachable state satisfies what transactions keep about output and
\* tags: commands in order, groups in one hand, work that matches its journal
\* and its changes of the database.
THEOREM RecordsInvariant == Spec => [](IInv /\ RecordsInv)
<1>1. Init => RecordsInv
  BY InitWork, InitPossession, InitPlaced, InitAcknowledged DEF RecordsInv
<1>2. IInv /\ RecordsInv /\ [Next]_vars => RecordsInv'
  <2>. SUFFICES ASSUME IInv, RecordsInv, [Next]_vars PROVE RecordsInv'
    OBVIOUS
  <2>1. Counting' /\ Plans' /\ Work'
    BY StepCounting, StepPlans, StepWork DEF IInv, RecordsInv
  <2>2. Possession'
    BY StepPossession DEF IInv, RecordsInv
  <2>3. Placed' /\ Acknowledged'
    BY StepPlaced, StepAcknowledged DEF IInv, RecordsInv
  <2>. QED BY <2>1, <2>2, <2>3 DEF RecordsInv
<1>. QED BY <1>1, <1>2, RepositoryInvariant, PTL DEF Spec

\* Between transactions the output of every stored group and of every
\* registered writer is in its place, unless a transaction was broken off
\* half-way or two overlapped: whoever moves output has it taken out of the
\* database by the same transaction.
THEOREM RepositoryOutput == Spec => []OutputInPlace
<1>1. IInv /\ RecordsInv => OutputInPlace
  BY DEF RecordsInv, Placed, OutputInPlace, Quiet, Displaced
<1>. QED BY <1>1, RecordsInvariant, PTL

\* A tag whose update was reported done is in the record of its group, whatever
\* other processes did to that record, as long as transactions did not overlap:
\* the record is read again under the lock.
THEOREM RepositoryTags == Spec => []NoLostUpdate
<1>1. IInv /\ RecordsInv => NoLostUpdate
  <2>. SUFFICES ASSUME RecordsInv, ~intruded, NEW t \in acked PROVE t[1] \in file[t[2]]
    BY DEF NoLostUpdate
  <2>1. Remembered
    BY DEF RecordsInv, Acknowledged
  <2>2. t \in Procs \X Groups
    BY <2>1 DEF Remembered
  <2>3. t[1] \in Procs /\ t[2] \in Groups /\ t = <<t[1], t[2]>>
    BY <2>2
  <2>. QED BY <2>1, <2>3 DEF Remembered
<1>. QED BY <1>1, RecordsInvariant, PTL

\* When users delete one group at a time, the record of the task lists, between
\* transactions, exactly the content groups in the database, each of them once,
\* unless a transaction was broken off half-way or two overlapped.  A deletion
\* of two groups by one transaction breaks this.
THEOREM RepositoryListing ==
  ASSUME OneAtATime
  PROVE  Spec => []ListingAgreesUnlessTorn
<1>1. Init => ListKept /\ Singles
  BY InitList
<1>2. /\ IInv /\ RecordsInv /\ ListKept /\ Singles /\ [Next]_vars
      => (ListKept /\ Singles)'
  BY OneAtATime, StepList, StepSingles DEF IInv, RecordsInv
<1>3. IInv /\ RecordsInv /\ ListKept /\ Singles => ListingAgreesUnlessTorn
  <2>. SUFFICES ASSUME ListKept, ~torn, ~intruded, Quiet PROVE Listed
    BY DEF ListingAgreesUnlessTorn, ListingAgrees
  <2>1. \A p \in Procs : ~Relisted(p)
    BY DEF Quiet, Relisted
  <2>. QED BY <2>1 DEF ListKept, Lists, Listed
<1>. QED BY <1>1, <1>2, <1>3, RecordsInvariant, PTL DEF Spec
=============================================================================
