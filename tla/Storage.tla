-------------------------------- MODULE Storage --------------------------------
(***************************************************************************)
(* The SQLite file as the program shares it: each process has one          *)
(* connection for all its coroutines and an asyncio lock that only writers *)
(* take (class DB).  The first write of a connection opens a transaction;  *)
(* a failed write leaves it open unless the code rolls back, and what is   *)
(* read in an open transaction stays as first read.  On this run the edit  *)
(* of a row, the removal of a server, a sale, a restore, an export, the    *)
(* snapshots of core/backup.py and the scheduler's lease.                  *)
(* A table is the name of the task that last wrote it.  SQLite's own rules *)
(* (WAL, busy_timeout, VACUUM) are external.                               *)
(* A definition introduced by "Mistake:" is no part of the specification.  *)
(***************************************************************************)
EXTENDS Integers, Sequences, FiniteSets, FiniteSetsExt

CONSTANTS
  Procs,      \* processes that have the file open
  Tasks,      \* requests and passes, each doing one thing once
  HomeOf,     \* the process of each
  Kind,       \* what each does
  Shipped,    \* who wrote the tables before
  Gone,       \* the table after DELETE FROM
  None,       \* no task, no process, NULL
  AtOnce,     \* bound: how many of the tasks there are in one behaviour
  MaxCrashes  \* bound

Kinds == {"edit", "removal", "sale", "restore", "export", "snapshot"}
Tables == {"servers", "keys", "settings", "admins", "ledger"}
Contents == [Tables -> Tasks \cup {Shipped, Gone}]

ASSUME ConstantsAssumption ==
  /\ HomeOf \in [Tasks -> Procs] /\ Kind \in [Tasks -> Kinds]
  /\ None \notin Procs \cup Tasks \cup Contents /\ {Shipped, Gone} \cap Tasks = {}
  /\ Shipped # Gone
  /\ AtOnce \in Nat /\ MaxCrashes \in Nat

VARIABLES
  file,     \* the tables, as committed
  writer,   \* the process whose transaction has SQLite's write lock
  conn,     \* each process's connection: in a transaction, and what it sees there
  lock,     \* each process's asyncio lock: the task that has it
  todo,     \* each task's statements to come
  got,      \* what each export has read
  vacuum,   \* the task whose VACUUM keeps a connection's thread busy
  disk,     \* snapshots of one second: who wrote what has either name; whose is whole
  crashes,  \* how many more there may be
  hist      \* history: exports and snapshots that something else overlapped

vars == <<file, writer, conn, lock, todo, got, vacuum, disk, crashes, hist>>
sqlite == <<file, writer, conn>>
copies == <<vacuum, disk>>

Closed == [open |-> FALSE, view |-> None, stale |-> FALSE]
Names == {"partial", "db"}

-----------------------------------------------------------------------------
(* What a task executes, one statement or await after the other *)

Statements == [does : {"write", "wipe", "commit", "read", "look", "vacuum", "end", "rename"},
               to : Tables \cup Names \cup {None}]
Say(what, table) == [does |-> what, to |-> table]
Each(what, tables) == [i \in 1..Len(tables) |-> Say(what, tables[i])]
Writes(tables) == Each("write", tables) \o <<Say("commit", None)>>

InOrder == <<"servers", "keys", "settings", "admins", "ledger">>

\* Mistake: the server goes first, its keys in a transaction of their own.
RemovalInTwo == Writes(<<"servers">>) \o Writes(<<"keys">>)

\* delete_server
Removal == Writes(<<"servers", "keys">>)

\* import_all, its wipe and its refill in one transaction
Restore ==
  Each("wipe", InOrder) \o Each("write", InOrder) \o <<Say("commit", None)>>

\* Mistake: the snapshot is written under the name it will have.
WriteInPlace == <<Say("look", None), Say("vacuum", "db"), Say("end", None)>>

\* make_backup
MakeBackup ==
  <<Say("look", None), Say("vacuum", "partial"), Say("end", None), Say("rename", None)>>

Program(k) ==
  CASE k = "edit"     -> Writes(<<"settings">>)
    [] k = "removal"  -> Removal
    [] k = "sale"     -> Writes(<<"admins", "ledger">>)
    [] k = "restore"  -> Restore
    [] k = "export"   -> Each("read", InOrder)
    [] k = "snapshot" -> MakeBackup \o Writes(<<"settings">>)

\* What is left of it after n statements.
Left(k, n) == SubSeq(Program(k), n + 1, Len(Program(k)))

TypeOK ==
  /\ file \in Contents
  /\ writer \in Procs \cup {None}
  /\ conn \in [Procs -> [open : BOOLEAN, view : Contents \cup {None}, stale : BOOLEAN]]
  /\ lock \in [Procs -> Tasks \cup {None}]
  /\ todo \in [Tasks -> Seq(Statements)]
  /\ \A t \in Tasks : \E n \in 0..Len(Program(Kind[t])) : todo[t] = Left(Kind[t], n)
  /\ got \in [Tasks -> [Tables -> Tasks \cup {Shipped, Gone, None}]]
  /\ vacuum \in [Procs -> Tasks \cup {None}]
  /\ disk \in [at : [Names -> Tasks \cup {None}], whole : SUBSET Tasks]
  /\ crashes \in 0..MaxCrashes
  /\ hist \in [mixed : SUBSET Tasks, twins : BOOLEAN]

Init ==
  /\ file = [b \in Tables |-> Shipped]
  /\ writer = None
  /\ conn = [p \in Procs |-> Closed]
  /\ lock = [p \in Procs |-> None]
  /\ \E some \in kSubset(AtOnce, Tasks) :
       todo = [t \in Tasks |-> IF t \in some THEN Program(Kind[t]) ELSE <<>>]
  /\ got = [t \in Tasks |-> [b \in Tables |-> None]]
  /\ vacuum = [p \in Procs |-> None]
  /\ disk = [at |-> [n \in Names |-> None], whole |-> {}]
  /\ crashes = MaxCrashes
  /\ hist = [mixed |-> {}, twins |-> FALSE]

Runs(t) == todo[t] # <<>> /\ todo[t] # Program(Kind[t])
Home(t) == HomeOf[t]
\* The next statement of t is one of these, and its connection's thread is free.
Next1(t, which) ==
  todo[t] # <<>> /\ Head(todo[t]).does \in which /\ vacuum[Home(t)] = None
Goes(t) == todo' = [todo EXCEPT ![t] = Tail(@)]
Ends(t) == todo' = [todo EXCEPT ![t] = <<>>]

\* A write while an export is reading.
Overlaps ==
  hist' = [hist EXCEPT !.mixed = @ \cup {t \in Tasks : Kind[t] = "export" /\ Runs(t)}]

-----------------------------------------------------------------------------
(* The connection *)

Sees(p) == IF conn[p].view = None THEN file ELSE conn[p].view
CanWrite(p) == writer = p \/ (writer = None /\ ~conn[p].stale)

WritesTo(p, content) ==
  /\ conn' = [conn EXCEPT ![p] = [open |-> TRUE, view |-> content, stale |-> FALSE]]
  /\ writer' = p /\ file' = file

\* What others have read in an open transaction is now out of date.
CommitOf(p, content) ==
  /\ file' = content /\ writer' = None
  /\ conn' = [q \in Procs |-> IF q = p THEN Closed
                              ELSE [conn[q] EXCEPT !.stale = conn[q].view # None]]

RollbackOf(p) ==
  /\ conn' = [conn EXCEPT ![p] = Closed]
  /\ writer' = (IF writer = p THEN None ELSE writer) /\ file' = file

\* SQLITE_BUSY: the transaction that execute() began stays open.
LeftOpen(p) ==
  /\ conn' = [conn EXCEPT ![p].open = TRUE]
  /\ UNCHANGED <<file, writer>>

\* A SELECT, of any request.  In an open transaction it is what all later ones see.
Looked(p) ==
  IF conn[p].open /\ conn[p].view = None
  THEN conn' = [conn EXCEPT ![p].view = file] ELSE conn' = conn

-----------------------------------------------------------------------------
(* Writers *)

\* "async with self._lock", with the first write.
HasLock(t) == lock[Home(t)] \in {t, None}

Statement(t) ==
  LET p == Home(t) IN
  /\ Next1(t, {"write", "wipe"}) /\ HasLock(t) /\ CanWrite(p)
  /\ lock' = [lock EXCEPT ![p] = t]
  /\ WritesTo(p, [Sees(p) EXCEPT ![Head(todo[t]).to] =
                    IF Head(todo[t]).does = "wipe" THEN Gone ELSE t])
  /\ Goes(t) /\ Overlaps
  /\ UNCHANGED <<got, copies, crashes>>

Commits(t) ==
  LET p == Home(t) IN
  /\ Next1(t, {"commit"})
  /\ CommitOf(p, conn[p].view)
  /\ lock' = [lock EXCEPT ![p] = None]
  /\ Goes(t) /\ Overlaps
  /\ UNCHANGED <<got, copies, crashes>>

\* Mistake: nothing rolls back ("without the rollback, a bad row leaves the DELETEs
\* pending").
NobodyRollsBack == {}

\* charge, credit_admin, import_all: "except BaseException: await self.conn.rollback()"
RollsBack == {"sale", "restore"}

Fails(t) ==
  LET p == Home(t) IN
  /\ IF Kind[t] \in RollsBack THEN RollbackOf(p)
     ELSE IF CanWrite(p) THEN WritesTo(p, Sees(p)) ELSE LeftOpen(p)
  /\ lock' = [lock EXCEPT ![p] = None]
  /\ Ends(t) /\ Overlaps
  /\ UNCHANGED <<got, copies, crashes>>

\* Another process has the write lock for longer than busy_timeout, or has committed
\* since this transaction first read.
Busy(t) ==
  Next1(t, {"write", "wipe"}) /\ HasLock(t) /\ ~CanWrite(Home(t)) /\ Fails(t)

\* A row is refused: a restore's is bad, a sale's UPDATE finds no credit, an edit's name
\* is taken.
Rejected(t) ==
  /\ Next1(t, {"write"}) /\ HasLock(t) /\ CanWrite(Home(t))
  /\ \/ Kind[t] = "restore"
     \/ Kind[t] = "sale" /\ Head(todo[t]).to = "admins"
     \/ Kind[t] = "edit"
  /\ Fails(t)

\* Mistake: a process that does not get the lease returns without a commit.
NoCommit(p) == WritesTo(p, Sees(p))

CommitLease(p) == CommitOf(p, Sees(p))

\* acquire_lease, in every process again and again; it does not roll back either.
Lease(p) ==
  /\ lock[p] = None /\ vacuum[p] = None
  /\ IF CanWrite(p) THEN CommitLease(p) ELSE LeftOpen(p)
  /\ Overlaps
  /\ UNCHANGED <<lock, todo, got, copies, crashes>>

-----------------------------------------------------------------------------
(* Readers *)

\* export_all reads a table after the other and takes no lock.
Reads(t) ==
  LET p == Home(t) IN
  /\ Next1(t, {"read"})
  /\ got' = [got EXCEPT ![t][Head(todo[t]).to] = Sees(p)[Head(todo[t]).to]]
  /\ Looked(p)
  /\ Goes(t)
  /\ hist' = IF ~Runs(t) /\ lock[p] # None
             THEN [hist EXCEPT !.mixed = @ \cup {t}] ELSE hist
  /\ UNCHANGED <<file, writer, lock, copies, crashes>>

\* Any other request, SettingsStore.get among them.
Request(p) ==
  /\ vacuum[p] = None
  /\ Looked(p)
  /\ UNCHANGED <<file, writer, lock, todo, got, copies, crashes, hist>>

-----------------------------------------------------------------------------
(* Snapshots, of one second: of another second they have other names *)

\* target.exists(), then tmp.unlink(missing_ok=True)
LooksForTarget(t) ==
  /\ Next1(t, {"look"})
  /\ IF disk.at["db"] # None
     THEN /\ todo' = [todo EXCEPT ![t] = Writes(<<"settings">>)]
          /\ UNCHANGED <<disk, hist>>
     ELSE /\ Goes(t)
          /\ disk' = [disk EXCEPT !.at["partial"] = None]
          /\ hist' = [hist EXCEPT !.twins = @ \/ \E u \in Tasks \ {t} :
                                     Kind[u] = "snapshot" /\ Runs(u)]
  /\ UNCHANGED <<sqlite, lock, got, vacuum, crashes>>

Vacuums(t) ==
  LET name == Head(todo[t]).to IN
  /\ Next1(t, {"vacuum"})
  /\ IF conn[Home(t)].open \/ disk.at[name] # None   \* raises
     THEN Ends(t) /\ UNCHANGED copies
     ELSE /\ Goes(t)
          /\ disk' = [disk EXCEPT !.at[name] = t]
          /\ vacuum' = [vacuum EXCEPT ![Home(t)] = t]
  /\ UNCHANGED <<sqlite, lock, got, crashes, hist>>

VacuumEnds(t) ==
  /\ vacuum[Home(t)] = t
  /\ vacuum' = [vacuum EXCEPT ![Home(t)] = None]
  /\ disk' = [disk EXCEPT !.whole = @ \cup {t}]
  /\ Goes(t)
  /\ UNCHANGED <<sqlite, lock, got, crashes, hist>>

\* os.replace runs in the event loop, whatever the connection's thread is at.
Renames(t) ==
  /\ todo[t] # <<>> /\ Head(todo[t]).does = "rename"
  /\ IF disk.at["partial"] = None   \* raises
     THEN Ends(t) /\ UNCHANGED disk
     ELSE /\ Goes(t)
          /\ disk' = [disk EXCEPT !.at = [partial |-> None, db |-> disk.at["partial"]]]
  /\ UNCHANGED <<sqlite, lock, got, vacuum, crashes, hist>>

-----------------------------------------------------------------------------
Crash(p) ==
  /\ crashes > 0 /\ crashes' = crashes - 1
  /\ RollbackOf(p)
  /\ lock' = [lock EXCEPT ![p] = None]
  /\ vacuum' = [vacuum EXCEPT ![p] = None]
  /\ todo' = [t \in Tasks |-> IF Home(t) = p /\ Runs(t) THEN <<>> ELSE todo[t]]
  /\ UNCHANGED <<file, got, disk, hist>>

Does(t) ==
  \/ Statement(t) \/ Commits(t) \/ Busy(t) \/ Rejected(t)
  \/ Reads(t) \/ LooksForTarget(t) \/ Vacuums(t) \/ VacuumEnds(t) \/ Renames(t)

Next ==
  \/ \E t \in Tasks : Does(t)
  \/ \E p \in Procs : Lease(p) \/ Request(p) \/ Crash(p)

Spec == Init /\ [][Next]_vars

\* Each event loop goes on with some coroutine that can, the scheduler's loop never ends.
FairSpec ==
  /\ Spec
  /\ \A p \in Procs :
       WF_vars(\E t \in Tasks : Home(t) = p /\ Does(t)) /\ WF_vars(Lease(p))

-----------------------------------------------------------------------------
(* What must hold *)

\* Outside an operation a process may have the write lock (a bare write was refused) but
\* nothing written under it: the next commit, whoever makes it, flushes no half of
\* anything (import_all's "the next commit from anywhere flushes them").
NothingIsLeftPending ==
  \A p \in Procs : writer = p /\ lock[p] = None => conn[p].view = file

\* The types, and the invariant above.
StoreInv == TypeOK /\ NothingIsLeftPending

Whole(c) ==
  /\ c["servers"] = c["keys"] /\ c["admins"] = c["ledger"]
  /\ \A b \in Tables : c[b] # Gone

\* What is committed is whole: a restore is all of it or nothing, the keys of a removed
\* server go with it and a balance moves with its ledger, whatever crashes, is refused
\* or busy.
CommittedIsWhole == Whole(file)

\* A downloaded backup that no write overlapped is one state of the panel, never an
\* unfinished one (export_all takes no lock and reads what its process has not committed).
FileIsWhole ==
  \A t \in Tasks \ hist.mixed :
    Kind[t] = "export" /\ (\A b \in Tables : got[t][b] # None) => Whole(got[t])

\* A file that has a snapshot's name is complete, unless two snapshots were taken in the
\* same second ("a crash mid-VACUUM leaves a .partial rather than a truncated file that
\* looks like a usable backup").
WholeUnderItsName ==
  disk.at["db"] # None /\ ~hist.twins => disk.at["db"] \in disk.whole

\* Neither the database, nor a download, nor a snapshot of it is ever a half of anything.
EveryCopyIsWhole == CommittedIsWhole /\ FileIsWhole /\ WholeUnderItsName

\* SQLite's write lock always comes back: what a bare write left is ended by the lease.
WriteLockIsReleased == []<>(writer = None)

\* The tables each kind of task is about.
Replaced(k) ==
  CASE k \in {"edit", "snapshot"} -> {"settings"}
    [] k = "removal"            -> {"servers", "keys"}
    [] k = "sale"               -> {"admins", "ledger"}
    [] k = "restore"            -> Tables
    [] OTHER                    -> {}

Abstract == INSTANCE AtomicStore WITH
  Operations <- {t \in Tasks : Kind[t] # "export"},
  Replaces <- [t \in Tasks |-> Replaced(Kind[t])],
  tables <- file,
  asked <- {t \in Tasks : Kind[t] # "export" /\ todo[t] # <<>>}

\* Through implicit transactions, shared connections, views gone stale, refusals, retries
\* of the lock and crashes, the file is an atomic store: no update is lost, and none is
\* done by halves, twice or after it was answered with an error.
TakesEffectAtOnce == Abstract!StoreSpec

\* What the code says and does not do. SettingsStore "reads straight through to SQLite",
\* so that no process goes on with a value another has replaced: what a process reads is
\* what is committed, or what it is writing itself.
ReadsAreCurrent ==
  \A p \in Procs : conn[p].view # None /\ writer # p => conn[p].view = file
=============================================================================
