----------------------------- MODULE Repository -----------------------------
(***************************************************************************)
(* Transactions on a repository shared by several processes                *)
(* (transactions/transaction_manager.h, sqlite3/detail/repository_*,       *)
(* repository/).  A repository is an SQLite database, one JSON document    *)
(* per record, and the output directories of its content groups.  A        *)
(* transaction takes a lock file, works on the database inside an SQLite   *)
(* transaction and on documents in "-temp" files noted in a journal, and   *)
(* at the end applies the journal and then commits the database.           *)
(*                                                                         *)
(* There is one task, whose record lists its content groups, and a         *)
(* document for each content group.  What a document holds besides that    *)
(* list is reduced to a set of tags.  SQLite is external: a transaction is *)
(* atomic, one connection at a time may write, and a COMMIT of changes is  *)
(* refused while another connection is reading.                            *)
(***************************************************************************)
EXTENDS Naturals, Sequences, FiniteSets

CONSTANTS Procs,      \* processes that opened the repository read/write
          Groups,     \* names of content groups
          Stored,     \* groups present at the start
          None,
          Attempts,   \* CPPTRANSPORT_DEFAULT_LOCKFILE_ATTEMPTS
          Commands,   \* what a user may ask for
          MaxCommands,\* bound: commands given
          MaxTime,    \* bound: seconds of the clock
          MaxCrashes, \* bound: processes killed
          Readers     \* may reports read the database at the same time?

Task == "task"        \* the document of the task record
Docs == Groups \cup {Task}

Kinds == {"reserve", "register", "close", "recover", "abort", "delete", "tag"}
Command == [kind : Kinds, groups : Seq(Groups)]
On(k, g) == [kind |-> k, groups |-> <<g>>]

ASSUME NamesAssumption ==
  /\ Task \notin Groups /\ None \notin Nat \cup Procs
  /\ \A s \in SUBSET Procs : s # None
ASSUME GroupsAssumption == IsFiniteSet(Groups) /\ Stored \subseteq Groups
ASSUME LimitsAssumption ==
  /\ Attempts \in Nat \ {0} /\ MaxTime \in Nat
  /\ MaxCommands \in Nat /\ MaxCrashes \in Nat /\ Readers \in BOOLEAN
ASSUME CommandsAssumption ==
  Commands \subseteq {c \in Command : c.kind \in {"delete", "tag"}}

VARIABLES
  \* on disk
  lockfile,     \* the magic string in the lock file, None if it is absent
  file, temp,   \* documents and their "-temp" files, None if absent
  dir,          \* where the output directory of a group is
  rows,         \* content groups in the database
  reserved, registered, \* in-flight names and writers in the database
  writing,      \* connection that holds SQLite's RESERVED lock
  reading,      \* connections that hold a SHARED lock
  clock,
  \* per process
  pc, agenda,   \* control, and the commands still to do
  todo,         \* groups the current command has still to process
  transactions, \* repository<>::transactions
  attempts, magic, \* locals and magic_string of the transaction_manager
  journal, pos, \* its journal, and the record to apply next
  pending,      \* changes inside the SQLite transaction
  commands,     \* commands started
  \* history
  crashes,
  intruded,     \* a lock file was overwritten, or removed by recovery, in use
  torn,         \* a transaction ended with files changed and no COMMIT
  acked,        \* <<p, g>>: p was told that g is tagged
  timedOut, refused \* processes that got NO_LOCK, and UNDERWAY

docVars == <<file, temp, dir>>
sqlVars == <<rows, reserved, registered, writing, reading>>
txVars == <<todo, transactions, attempts, magic, journal, pos, pending>>
history == <<crashes, intruded, torn, acked, timedOut, refused>>
vars == <<lockfile, docVars, sqlVars, clock, pc, agenda, txVars, commands,
          history>>

-----------------------------------------------------------------------------

\* Control points between the creation of the lock file and its removal.
Holding == {"body", "journal", "sql", "unlock", "unwind"}
Inside(p) == pc[p] \in Holding

Current(p) == agenda[p][1]
Kind(p) == Current(p).kind

Init ==
  /\ lockfile = None
  /\ file = [d \in Docs |->
               IF d = Task
               THEN CHOOSE s \in [1 .. Cardinality(Stored) -> Stored] :
                      \A g \in Stored : \E i \in DOMAIN s : s[i] = g
               ELSE IF d \in Stored THEN {} ELSE None]
  /\ temp = [d \in Docs |-> None]
  /\ dir = [g \in Groups |-> IF g \in Stored THEN "output" ELSE "none"]
  /\ rows = Stored /\ reserved = {} /\ registered = {}
  /\ writing = None /\ reading = {}
  /\ clock = 0
  /\ pc = [p \in Procs |-> "idle"]
  /\ agenda = [p \in Procs |-> <<>>]
  /\ todo = [p \in Procs |-> <<>>]
  /\ transactions = [p \in Procs |-> 0]
  /\ attempts = [p \in Procs |-> 0]
  /\ magic = [p \in Procs |-> 0]
  /\ journal = [p \in Procs |-> <<>>]
  /\ pos = [p \in Procs |-> 1]
  /\ pending = [p \in Procs |-> {}]
  /\ commands = 0
  /\ crashes = 0 /\ intruded = FALSE /\ torn = FALSE /\ acked = {}
  /\ timedOut = {} /\ refused = {}

-----------------------------------------------------------------------------
(* What is asked of a process                                              *)

\* update_tags_notes() or delete_content() of the toolkit: one transaction
\* for all the groups that matched.
Ask(p, c) ==
  /\ pc[p] = "idle" /\ agenda[p] = <<>> /\ commands < MaxCommands
  /\ agenda' = [agenda EXCEPT ![p] = <<c>>]
  /\ commands' = commands + 1
  /\ UNCHANGED <<lockfile, docVars, sqlVars, clock, pc, txVars, history>>

\* A task: a name is reserved, the writer is registered and, when the work
\* is done, committed or aborted.  The name is a time stamp nobody else has.
NewTask(p, g, end) ==
  /\ pc[p] = "idle" /\ agenda[p] = <<>> /\ commands < MaxCommands
  /\ dir[g] = "none" /\ g \notin reserved
  /\ \A q \in Procs : \A i \in DOMAIN agenda[q] : agenda[q][i].groups # <<g>>
  /\ agenda' = [agenda EXCEPT
                  ![p] = <<On("reserve", g), On("register", g), On(end, g)>>]
  /\ commands' = commands + 1
  /\ UNCHANGED <<lockfile, docVars, sqlVars, clock, pc, txVars, history>>

\* perform_recovery(): break the lock, then commit every registered writer.
\* Nothing tells whether the lock, or a writer, belongs to a process alive.
Recover(p, todoList) ==
  /\ pc[p] = "idle" /\ agenda[p] = <<>> /\ commands < MaxCommands
  /\ transactions[p] = 0
  /\ lockfile' = None
  /\ intruded' = (intruded \/ \E q \in Procs : agenda[q] # <<>>)
  /\ registered = {todoList[i] : i \in DOMAIN todoList}
  /\ agenda' = [agenda EXCEPT ![p] = [i \in DOMAIN todoList |->
                                        On("recover", todoList[i])]]
  /\ commands' = commands + 1
  /\ UNCHANGED <<docVars, sqlVars, clock, pc, txVars, crashes, torn, acked,
                 timedOut, refused>>

\* The transaction_manager and the locals of the command are destroyed.
Destroy(p) ==
  /\ todo' = [todo EXCEPT ![p] = <<>>]
  /\ attempts' = [attempts EXCEPT ![p] = 0]
  /\ magic' = [magic EXCEPT ![p] = 0]
  /\ journal' = [journal EXCEPT ![p] = <<>>]
  /\ pos' = [pos EXCEPT ![p] = 1]
  /\ pending' = [pending EXCEPT ![p] = {}]

\* Mutation: a broken-off transaction is still counted.
Release_Kept(p) == transactions[p]
\* Mutation: released by commit() and by the destructor.
Release_Twice(p) == transactions[p] - 2
\* repository<>::release_transaction()
Release(p) == transactions[p] - 1

\* An exception leaves the command.  A writer that was not committed aborts
\* from its destructor; an exception there ends the process.
Fails(p) ==
  /\ pc' = [pc EXCEPT ![p] = IF Kind(p) = "abort" THEN "dead" ELSE "idle"]
  /\ agenda' = [agenda EXCEPT ![p] =
       IF Kind(p) \in {"register", "close", "recover"}
       THEN <<On("abort", Current(p).groups[1])>>
       ELSE <<>>]

-----------------------------------------------------------------------------
(* Taking the lock: transaction_factory() and the constructor              *)

\* generate_transaction_manager() counts the transaction before its
\* constructor has the lock.
Start(p) ==
  /\ pc[p] = "idle" /\ agenda[p] # <<>>
  /\ transactions[p] = 0
  /\ Kind(p) = "recover" => dir[Current(p).groups[1]] = "output"
  /\ transactions' = [transactions EXCEPT ![p] = 1]
  /\ attempts' = [attempts EXCEPT ![p] = Attempts]
  /\ todo' = [todo EXCEPT ![p] = Current(p).groups]
  /\ pc' = [pc EXCEPT ![p] = "poll"]
  /\ UNCHANGED <<lockfile, docVars, sqlVars, clock, agenda, magic, journal,
                 pos, pending, commands, history>>

\* Recovery of a writer whose container is gone throws before that.
NoContainer(p) ==
  /\ pc[p] = "idle" /\ agenda[p] # <<>>
  /\ Kind(p) = "recover" /\ dir[Current(p).groups[1]] # "output"
  /\ Fails(p)
  /\ UNCHANGED <<lockfile, docVars, sqlVars, clock, txVars, commands, history>>

Underway(p) ==
  /\ pc[p] = "idle" /\ agenda[p] # <<>>
  /\ Kind(p) = "recover" => dir[Current(p).groups[1]] = "output"
  /\ transactions[p] > 0
  /\ refused' = refused \cup {p}
  /\ Fails(p)
  /\ UNCHANGED <<lockfile, docVars, sqlVars, clock, txVars, commands, crashes,
                 intruded, torn, acked, timedOut>>

LockFree(p) ==
  /\ pc[p] = "poll" /\ lockfile = None
  /\ pc' = [pc EXCEPT ![p] = "make"]
  /\ UNCHANGED <<lockfile, docVars, sqlVars, clock, agenda, txVars, commands,
                 history>>

\* Mutation: a failed attempt is not counted.
AttemptsLeft_Same(p) == attempts[p]
AttemptsLeft(p) == attempts[p] - 1

LockHeld(p) ==
  /\ pc[p] = "poll" /\ lockfile # None /\ attempts[p] > 1
  /\ attempts' = [attempts EXCEPT ![p] = AttemptsLeft(p)]
  /\ UNCHANGED <<lockfile, docVars, sqlVars, clock, pc, agenda, todo,
                 transactions, magic, journal, pos, pending, commands, history>>

\* The last attempt failed.  The constructor throws, and nobody releases the
\* transaction that was counted.
NoLock(p) ==
  /\ pc[p] = "poll" /\ lockfile # None /\ attempts[p] <= 1
  /\ timedOut' = timedOut \cup {p}
  /\ Destroy(p)
  /\ Fails(p)
  /\ UNCHANGED <<lockfile, docVars, sqlVars, clock, transactions, commands,
                 crashes, intruded, torn, acked, refused>>

\* The file is created, or truncated if another process was faster, and
\* holds the time in seconds.
MakeLock(p) ==
  /\ pc[p] = "make"
  /\ lockfile' = clock
  /\ magic' = [magic EXCEPT ![p] = clock]
  /\ intruded' = (intruded \/ lockfile # None)
  /\ pc' = [pc EXCEPT ![p] = "body"]
  /\ UNCHANGED <<docVars, sqlVars, clock, agenda, todo, transactions, attempts,
                 journal, pos, pending, commands, crashes, torn, acked,
                 timedOut, refused>>

-----------------------------------------------------------------------------
(* The work of a transaction, one content group at a time                  *)

CanWrite(p) == writing \in {None, p}

View(p) == (rows \cup {g \in Groups : <<"insert", g>> \in pending[p]})
             \ {g \in Groups : <<"delete", g>> \in pending[p]}

Emplace(d) == <<"emplace", d>>
Move(g) == <<"move", g>>

Without(s, g) ==
  LET found == {i \in DOMAIN s : s[i] = g} IN
  IF found = {} THEN s
  ELSE LET i == CHOOSE i \in found : \A j \in found : i <= j
       IN  SubSeq(s, 1, i - 1) \o SubSeq(s, i + 1, Len(s))

\* The group is looked up and found in the state the command needs.
Legal(p, g) ==
  CASE Kind(p) = "reserve" -> g \notin reserved
    [] Kind(p) = "register" -> g \in reserved /\ g \notin registered
    [] Kind(p) \in {"close", "recover"} -> g \notin rows /\ g \in reserved
    [] Kind(p) = "abort" -> dir[g] = "output"
    [] Kind(p) \in {"delete", "tag"} -> g \in View(p)

\* Mutation: the group is not stored in the database.
Changes_NotStored(p, g) ==
  {<<IF Kind(p) \in {"close", "recover", "abort"} THEN "deregister" ELSE Kind(p), g>>}
\* Mutation: an aborted writer is not deregistered.
Changes_WriterKept(p, g) ==
  IF Kind(p) \in {"close", "recover"} THEN {<<"insert", g>>, <<"deregister", g>>}
  ELSE IF Kind(p) = "abort" THEN {} ELSE {<<Kind(p), g>>}
\* Database changes of a command.
Changes(p, g) ==
  CASE Kind(p) \in {"close", "recover"} ->
         {<<"insert", g>>, <<"deregister", g>>}
    [] Kind(p) = "abort" -> {<<"deregister", g>>}
    [] OTHER -> {<<Kind(p), g>>}

NextGroup(p) ==
  /\ pc[p] = "body" /\ todo[p] # <<>>
  /\ reading' = reading \cup {p}
  /\ UNCHANGED <<lockfile, file, rows, reserved, registered, clock, agenda,
                 transactions, attempts, magic, pos, commands, history>>

Written(p, g) ==
  /\ CanWrite(p)
  /\ writing' = p
  /\ pending' = [pending EXCEPT ![p] = @ \cup Changes(p, g)]
  /\ todo' = [todo EXCEPT ![p] = Tail(@)]
  /\ UNCHANGED pc

Refused(p) ==
  /\ pc' = [pc EXCEPT ![p] = "unwind"]
  /\ UNCHANGED <<writing, pending, todo>>

\* reserve_content_name() and register_writer(): the database only.
Enter(p) ==
  /\ NextGroup(p)
  /\ Kind(p) \in {"reserve", "register"}
  /\ Legal(p, todo[p][1])
  /\ Written(p, todo[p][1])
  /\ UNCHANGED <<temp, dir, journal>>

\* Mutation: the document of the group is not put into the journal.
Deposits_NoRecord(g) == <<Emplace(Task)>>
\* Mutation: the record of the task is not committed.
Deposits_NoTask(g) == <<Emplace(g)>>
Deposits(g) == <<Emplace(g), Emplace(Task)>>

\* close_integration_writer(): a row, a document of its own, and an entry in
\* the document of the task; deregister_writer().
Close(p) ==
  /\ NextGroup(p)
  /\ Kind(p) \in {"close", "recover"}
  /\ LET g == todo[p][1] IN
     /\ Legal(p, g)
     /\ Written(p, g)
     /\ temp' = [temp EXCEPT ![g] = {}, ![Task] = Append(file[Task], g)]
     /\ journal' = [journal EXCEPT ![p] = @ \o Deposits(g)]
  /\ UNCHANGED dir

\* abort_integration_writer(): the output is moved at once, not journalled.
Abort(p) ==
  /\ NextGroup(p)
  /\ Kind(p) = "abort"
  /\ LET g == todo[p][1] IN
     /\ Legal(p, g)
     /\ dir' = [dir EXCEPT ![g] = "failure"]
     /\ Written(p, g) \/ (~CanWrite(p) /\ Refused(p))
  /\ UNCHANGED <<temp, journal>>

\* repository_sqlite3<>::delete_content(): the list of the task is read from
\* the document, not from the temporary file of an earlier change.
Delete(p) ==
  /\ NextGroup(p)
  /\ Kind(p) = "delete"
  /\ LET g == todo[p][1] IN
     /\ Legal(p, g)
     /\ temp' = [temp EXCEPT ![Task] = Without(file[Task], g)]
     /\ \/ /\ Written(p, g)
           /\ journal' = [journal EXCEPT ![p] = @ \o <<Emplace(Task), Move(g)>>]
        \/ /\ ~CanWrite(p)
           /\ Refused(p)
           /\ journal' = [journal EXCEPT ![p] = Append(@, Emplace(Task))]
  /\ UNCHANGED dir

\* Mutation: the record of the enumeration is changed, which was read before
\* the lock was taken; here, before any tag was set.
Retagged_Stale(p, g) == {p}
Retagged(p, g) == file[g] \cup {p}

\* update_tags_notes(): no change of the database.
Tag(p) ==
  /\ NextGroup(p)
  /\ Kind(p) = "tag"
  /\ LET g == todo[p][1] IN
     /\ Legal(p, g)
     /\ temp' = [temp EXCEPT ![g] = Retagged(p, g)]
     /\ journal' = [journal EXCEPT ![p] = Append(@, Emplace(g))]
  /\ todo' = [todo EXCEPT ![p] = Tail(@)]
  /\ UNCHANGED <<dir, pc, writing, pending>>

\* The record is missing, or is there already, or the database is busy.
BodyThrows(p) ==
  /\ NextGroup(p)
  /\ \/ ~Legal(p, todo[p][1])
     \/ Kind(p) \in {"reserve", "register", "close", "recover"} /\ ~CanWrite(p)
  /\ Refused(p)
  /\ UNCHANGED <<temp, dir, journal>>

-----------------------------------------------------------------------------
(* commit(), rollback() and the destructor                                 *)

Owns(p) == lockfile = magic[p]

\* The command is over: the SQLite transaction is gone.
Disconnect(p) ==
  /\ writing' = IF writing = p THEN None ELSE writing
  /\ reading' = reading \ {p}

\* rollback() of the journal: emplace_record removes the "-temp" files, of
\* whichever process wrote them last.
DropTemps(p) ==
  temp' = [d \in Docs |->
             IF \E i \in DOMAIN journal[p] : journal[p][i] = Emplace(d)
             THEN None ELSE temp[d]]

\* Has p changed files the database does not know of?
Half(p) ==
  pos[p] > 1 \/ (Kind(p) = "abort" /\ dir[Current(p).groups[1]] = "failure")

\* Mutation: the lock is given up before the journal is applied.
LockChecked_Released(p) ==
  /\ pc[p] = "body" /\ todo[p] = <<>> /\ Owns(p)
  /\ pc' = [pc EXCEPT ![p] = "journal"]
  /\ lockfile' = None
  /\ UNCHANGED <<docVars, sqlVars, clock, agenda, txVars, commands, history>>
LockChecked(p) ==
  /\ pc[p] = "body" /\ todo[p] = <<>> /\ Owns(p)
  /\ pc' = [pc EXCEPT ![p] = "journal"]
  /\ UNCHANGED <<lockfile, docVars, sqlVars, clock, agenda, txVars, commands,
                 history>>

\* The lock file is gone or is another's.  commit() rolls back and throws;
\* then the destructor rolls back too, which drops the temporary files and
\* fails at ROLLBACK.  The lock file is left alone.
LockLost(p) ==
  /\ pc[p] = "body" /\ todo[p] = <<>> /\ ~Owns(p)
  /\ DropTemps(p)
  /\ Disconnect(p)
  /\ transactions' = [transactions EXCEPT ![p] = Release(p)]
  /\ torn' = (torn \/ Half(p))
  /\ Destroy(p)
  /\ Fails(p)
  /\ UNCHANGED <<lockfile, file, dir, rows, reserved, registered, clock,
                 commands, crashes, intruded, acked, timedOut, refused>>

\* The next record of the journal is renamed into place.
Apply(p) ==
  /\ pc[p] = "journal" /\ pos[p] <= Len(journal[p])
  /\ LET r == journal[p][pos[p]] IN
     \/ /\ r[1] = "emplace" /\ temp[r[2]] # None
        /\ file' = [file EXCEPT ![r[2]] = temp[r[2]]]
        /\ temp' = [temp EXCEPT ![r[2]] = None]
        /\ UNCHANGED dir
     \/ /\ r[1] = "move" /\ dir[r[2]] = "output"
        /\ dir' = [dir EXCEPT ![r[2]] = "trash"]
        /\ UNCHANGED <<file, temp>>
  /\ pos' = [pos EXCEPT ![p] = @ + 1]
  /\ UNCHANGED <<lockfile, sqlVars, clock, pc, agenda, todo, transactions,
                 attempts, magic, journal, pending, commands, history>>

\* rename() throws: there is nothing to rename.
ApplyThrows(p) ==
  /\ pc[p] = "journal" /\ pos[p] <= Len(journal[p])
  /\ LET r == journal[p][pos[p]] IN
     \/ r[1] = "emplace" /\ temp[r[2]] = None
     \/ r[1] = "move" /\ dir[r[2]] # "output"
  /\ pc' = [pc EXCEPT ![p] = "unwind"]
  /\ UNCHANGED <<lockfile, docVars, sqlVars, clock, agenda, txVars, commands,
                 history>>

Applied(p) ==
  /\ pc[p] = "journal" /\ pos[p] > Len(journal[p])
  /\ pc' = [pc EXCEPT ![p] = "sql"]
  /\ UNCHANGED <<lockfile, docVars, sqlVars, clock, agenda, txVars, commands,
                 history>>

With(c, p) == {g \in Groups : <<c, g>> \in pending[p]}

\* COMMIT, release of the transaction.
CommitSql(p) ==
  /\ pc[p] = "sql"
  /\ pending[p] = {} \/ reading \subseteq {p}
  /\ rows' = (rows \cup With("insert", p)) \ With("delete", p)
  /\ reserved' = (reserved \cup With("reserve", p)) \ With("deregister", p)
  /\ registered' = (registered \cup With("register", p)) \ With("deregister", p)
  /\ Disconnect(p)
  /\ transactions' = [transactions EXCEPT ![p] = Release(p)]
  /\ pc' = [pc EXCEPT ![p] = "unlock"]
  /\ UNCHANGED <<lockfile, docVars, clock, agenda, todo, attempts, magic,
                 journal, pos, pending, commands, history>>

\* SQLITE_BUSY: another transaction, or a report, is reading.
CommitBusy(p) ==
  /\ pc[p] = "sql" /\ pending[p] # {}
  /\ Readers \/ ~(reading \subseteq {p})
  /\ pc' = [pc EXCEPT ![p] = "unwind"]
  /\ UNCHANGED <<lockfile, docVars, sqlVars, clock, agenda, txVars, commands,
                 history>>

\* The last statement of commit() removes the lock file, whoever owns it.
\* A reserved name is then given its directories.
Unlock(p) ==
  /\ pc[p] = "unlock"
  /\ lockfile' = None
  /\ pc' = [pc EXCEPT ![p] = "idle"]
  /\ agenda' = [agenda EXCEPT ![p] = Tail(@)]
  /\ acked' = IF Kind(p) = "tag"
              THEN acked \cup {<<p, Current(p).groups[i]>> :
                                 i \in DOMAIN Current(p).groups}
              ELSE acked
  /\ dir' = IF Kind(p) = "reserve"
            THEN [dir EXCEPT ![Current(p).groups[1]] = "output"] ELSE dir
  /\ Destroy(p)
  /\ UNCHANGED <<file, temp, sqlVars, clock, transactions, commands, crashes,
                 intruded, torn, timedOut, refused>>

\* Mutation: only commit() removes the lock file.
AfterRollback_Locked(p) == lockfile
AfterRollback(p) == IF Owns(p) THEN None ELSE lockfile

\* The destructor of a transaction that was not committed: rollback().
Unwind(p) ==
  /\ pc[p] = "unwind"
  /\ DropTemps(p)
  /\ Disconnect(p)
  /\ transactions' = [transactions EXCEPT ![p] = Release(p)]
  /\ lockfile' = AfterRollback(p)
  /\ torn' = (torn \/ Half(p))
  /\ Destroy(p)
  /\ Fails(p)
  /\ UNCHANGED <<file, dir, rows, reserved, registered, clock, commands,
                 crashes, intruded, acked, timedOut, refused>>

-----------------------------------------------------------------------------
(* Environment, specification                                              *)

\* The process is killed: only what is on disk remains, and SQLite undoes
\* its transaction.
Crash(p) ==
  /\ agenda[p] # <<>> /\ crashes < MaxCrashes
  /\ crashes' = crashes + 1
  /\ torn' = (torn \/ (pc[p] \in Holding \ {"unlock"} /\ Half(p)))
  /\ Disconnect(p)
  /\ pc' = [pc EXCEPT ![p] = "dead"]
  /\ agenda' = [agenda EXCEPT ![p] = <<>>]
  /\ Destroy(p)
  /\ UNCHANGED <<lockfile, docVars, rows, reserved, registered, clock,
                 transactions, commands, intruded, acked, timedOut, refused>>

Tick ==
  /\ clock < MaxTime
  /\ clock' = clock + 1
  /\ UNCHANGED <<lockfile, docVars, sqlVars, pc, agenda, txVars, commands,
                 history>>

\* Nobody has anything left to do.
Rest ==
  /\ \A p \in Procs : agenda[p] = <<>>
  /\ UNCHANGED vars

Step(p) ==
  \/ Start(p) \/ NoContainer(p) \/ Underway(p)
  \/ LockFree(p) \/ LockHeld(p) \/ NoLock(p) \/ MakeLock(p)
  \/ Enter(p) \/ Close(p) \/ Abort(p) \/ Delete(p) \/ Tag(p) \/ BodyThrows(p)
  \/ LockChecked(p) \/ LockLost(p)
  \/ Apply(p) \/ ApplyThrows(p) \/ Applied(p)
  \/ CommitSql(p) \/ CommitBusy(p) \/ Unlock(p) \/ Unwind(p)

User(p) ==
  \/ \E c \in Commands : Ask(p, c)
  \/ \E g \in Groups, end \in {"close", "abort"} : NewTask(p, g, end)
  \/ \E list \in [1 .. Cardinality(registered) -> registered] : Recover(p, list)

Next ==
  \/ \E p \in Procs : Step(p) \/ User(p) \/ Crash(p)
  \/ Tick
  \/ Rest

Spec == Init /\ [][Next]_vars

\* Processes are scheduled; users, clocks and crashes are free.
FairSpec == Spec /\ \A p \in Procs : WF_vars(Step(p))
-----------------------------------------------------------------------------
(* Properties                                                              *)

TypeOK ==
  /\ lockfile \in Nat \cup {None} /\ clock \in Nat
  /\ DOMAIN file = Docs /\ DOMAIN temp = Docs
  /\ \A g \in Groups : \A d \in {file, temp} : d[g] = None \/ d[g] \subseteq Procs
  /\ file[Task] \in Seq(Groups)
  /\ temp[Task] = None \/ temp[Task] \in Seq(Groups)
  /\ dir \in [Groups -> {"none", "output", "failure", "trash"}]
  /\ rows \subseteq Groups /\ reserved \subseteq Groups
  /\ registered \subseteq reserved
  /\ writing \in Procs \cup {None} /\ reading \subseteq Procs
  /\ pc \in [Procs -> Holding \cup {"idle", "poll", "make", "dead"}]
  /\ agenda \in [Procs -> Seq(Command)]
  /\ todo \in [Procs -> Seq(Groups)]
  /\ transactions \in [Procs -> 0 .. 1] /\ attempts \in [Procs -> 0 .. Attempts]
  /\ magic \in [Procs -> Nat] /\ pos \in [Procs -> Nat]
  /\ commands \in 0 .. MaxCommands /\ crashes \in 0 .. MaxCrashes
  /\ intruded \in BOOLEAN /\ torn \in BOOLEAN
  /\ timedOut \subseteq Procs /\ refused \subseteq Procs

\* transaction_manager.h:309, "then we have exclusive access to the database
\* until the lockfile is removed": as long as no lock file was created over
\* another or removed by a recovery that ran beside a live process, at most
\* one process is between taking the lock and giving it back.
ExclusiveAccess ==
  ~intruded => \A p, q \in Procs : Inside(p) /\ Inside(q) => p = q

\* A lock file that nobody works under was left by a process that was killed:
\* every other way out of a transaction removes it, also when two processes
\* created it at once.
NoLockLeftBehind ==
  lockfile # None => crashes > 0 \/ \E p \in Procs : Inside(p)

Quiet == \A p \in Procs : ~Inside(p)

\* The document of the task lists each stored content group once and no other.
Listed ==
  /\ \A g \in Groups :
       g \in rows <=> \E i \in DOMAIN file[Task] : file[Task][i] = g
  /\ \A i, j \in DOMAIN file[Task] : i # j => file[Task][i] # file[Task][j]

\* repository_sqlite3_impl.h:1546, "The same information is cached in each
\* task record": outside transactions the list in the task's document is the
\* list in the database.
ListingAgrees == Quiet => Listed

\* It is, unless a transaction was broken off after its journal and before its
\* COMMIT, or two transactions overlapped.
ListingAgreesUnlessTorn == torn \/ intruded \/ ListingAgrees

\* The tags whose update was reported done are in the record, although other
\* processes rewrote the same document: it is read again under the lock.
NoLostUpdate ==
  ~intruded => \A t \in acked : t[1] \in file[t[2]]

\* What the database knows has its document, even after a crash between the
\* journal and the COMMIT, a COMMIT that was refused, or overlapping
\* transactions that wrote the same temporary files.
RowsDocumented == \A g \in rows : file[g] # None

\* Between transactions the output of every stored group, and of every
\* registered writer that recovery would commit, is in its place: it is moved
\* only if the database forgets it too.
OutputInPlace ==
  torn \/ intruded \/
    (Quiet => \A g \in rows \cup registered : dir[g] = "output")

\* "Attempt to begin a new transaction while one is already underway" is only
\* said to a process that gave up waiting for the lock once: the counter of
\* that transaction is never released.
RefusedOnlyAfterTimeout == refused \subseteq timedOut

\* A writer leaves the table of active writers only when its group is stored
\* or its output is put aside as a failure: work done is never forgotten.
WriterNeverForgotten ==
  [][\A g \in registered \ registered' : g \in rows' \/ dir[g] = "failure"]_vars

\* Every command comes to an end, also behind the lock file of a process that
\* was killed.
Settles == \A p \in Procs : []<>(agenda[p] = <<>>)
=============================================================================
