------------------------------- MODULE Scheduler -------------------------------
(***************************************************************************)
(* The scheduler's lease and its scheduled snapshot.  Every process runs   *)
(* expiry_loop(): it reads the clock, tries to take or renew the one row   *)
(* of `locks`, makes a pass if it got it, and sleeps.  A pass is long: it  *)
(* calls every Outline server, and nothing renews the lease meanwhile.     *)
(* Nothing bounds its length either, nor that of a sleep or of a wait for  *)
(* the database: the clock runs as it likes.  Of the pass itself this      *)
(* module keeps maybe_backup(), whose promise of one snapshot per interval *)
(* hangs on the lease and on the order of its writes, and beside it the    *)
(* owner's own snapshots.                                                  *)
(*                                                                         *)
(* A process that restarts draws a new holder name, so a restart is a      *)
(* process of its own: Procs are the incarnations.  All read one clock.    *)
(* A definition introduced by "Mistake:" is no part of the specification.  *)
(***************************************************************************)
EXTENDS Integers, FiniteSets

CONSTANTS
  Procs,      \* processes, each running once from start to death
  Nobody,     \* the lease row does not exist
  Naps,       \* the intervals the panel may be set to
  MinTtl,     \* the shortest lease: 30 seconds
  Requests,   \* the owner's POST /snapshots
  Every,      \* backup_interval_hours
  Keep,       \* backup_keep
  MaxTime     \* bound: the last moment of the clock

ASSUME ConstantsAssumption ==
  /\ Nobody \notin Procs
  /\ Naps \subseteq Nat \ {0}
  /\ MinTtl \in Nat \ {0}
  /\ Every \in Nat \ {0}
  /\ Keep \in Nat \ {0}
  /\ MaxTime \in Nat

VARIABLES
  now,         \* the wall clock
  lock,        \* the row of `locks` named "scheduler"
  pc,          \* where each process stands in its loop
  nap,         \* the interval it read for this round
  mark,        \* the clock it read before it asked; when it sleeps, its end
  started,     \* the clock it read when its pass began
  slowest,     \* history: the longest round or wait so far, from MinTtl upwards
  lastBackup,  \* the setting backup_last_ts
  files,       \* the snapshots on disk, by their stamps
  owner,       \* where each of the owner's requests stands
  stamp,       \* the clock it read when it began, which names its snapshot
  wrote,       \* the clock it read when the snapshot was there
  latest,      \* history: the newest stamp a pass wrote
  torn,        \* history: backup_last_ts may not tell of that snapshot
  recorded     \* history: the stamp of the snapshot that it does tell of

disk == <<lastBackup, files>>
request == <<owner, stamp, wrote>>
record == <<latest, torn, recorded>>
vars == <<now, lock, pc, nap, mark, started, slowest, disk, request, record>>

InPass == {"passing", "copying", "recording", "closing"}
Busy == InPass \cup {"asking"}
Waiting == {"asleep", "unheard"}  \* between two rounds; unheard: the last ask failed

TypeOK ==
  /\ now \in Nat
  /\ lock \in [holder : Procs \cup {Nobody}, expires : Nat]
  /\ pc \in [Procs -> Busy \cup Waiting \cup {"new", "dead"}]
  /\ nap \in [Procs -> Nat]
  /\ mark \in [Procs -> Nat]
  /\ started \in [Procs -> Nat]
  /\ slowest \in Nat
  /\ lastBackup \in Nat
  /\ files \subseteq Nat
  /\ owner \in [Requests -> {"unsent", "copying", "storing", "over"}]
  /\ stamp \in [Requests -> Nat]
  /\ wrote \in [Requests -> Nat]
  /\ latest \in Nat
  /\ torn \in BOOLEAN
  /\ recorded \in Nat

\* No lease was ever taken and no snapshot made: the first one is due at once.
Init ==
  /\ now = Every
  /\ lock = [holder |-> Nobody, expires |-> 0]
  /\ pc = [p \in Procs |-> "new"]
  /\ nap = [p \in Procs |-> 0]
  /\ mark = [p \in Procs |-> 0]
  /\ started = [p \in Procs |-> 0]
  /\ slowest = MinTtl
  /\ lastBackup = 0 /\ files = {}
  /\ owner = [o \in Requests |-> "unsent"]
  /\ stamp = [o \in Requests |-> 0]
  /\ wrote = [o \in Requests |-> 0]
  /\ latest = 0 /\ torn = FALSE /\ recorded = 0

Goto(p, there) == pc' = [pc EXCEPT ![p] = there]

-----------------------------------------------------------------------------
(* The lease *)

\* The loop reads the interval and acquire_lease() the clock, then waits for
\* db._lock and for SQLite's.
Ask(p) ==
  /\ pc[p] = "new" \/ (pc[p] \in Waiting /\ mark[p] <= now)
  /\ \E n \in Naps : nap' = [nap EXCEPT ![p] = n]
  /\ mark' = [mark EXCEPT ![p] = now]
  /\ Goto(p, "asking")
  /\ UNCHANGED <<now, lock, started, slowest, disk, request, record>>

\* Mistake: the lease lasts one interval, so it lapses before it is renewed.
OneInterval(n) == n

\* max(30, nap * 3)
Ttl(n) == IF 3 * n > MinTtl THEN 3 * n ELSE MinTtl

\* The INSERT finds no row, or the UPDATE ... WHERE holder = ? OR expires_ts <= ?
\* matches it.
Grants(p) == lock.holder \in {Nobody, p} \/ lock.expires <= mark[p]

Row(p) == [holder |-> p, expires |-> mark[p] + Ttl(nap[p])]

\* How long it took, from reading the clock, to get this far.
Took(p) == slowest' = IF now - mark[p] > slowest THEN now - mark[p] ELSE slowest

\* One transaction, decided on the clock of a moment ago.
Acquire(p) ==
  /\ pc[p] = "asking" /\ Grants(p)
  /\ lock' = Row(p)
  /\ started' = [started EXCEPT ![p] = now]
  /\ Took(p)
  /\ Goto(p, "passing")
  /\ UNCHANGED <<now, nap, mark, disk, request, record>>

\* Mistake: whoever does not lead looks again when this lease would be over.
LeaseLater(p) == now + Ttl(nap[p])

Later(p) == now + nap[p]

Sleep(p, how) ==
  /\ mark' = [mark EXCEPT ![p] = Later(p)]
  /\ Took(p)
  /\ Goto(p, how)

StandBy(p) ==
  /\ pc[p] = "asking" /\ ~Grants(p)
  /\ Sleep(p, "asleep")
  /\ UNCHANGED <<now, lock, nap, started, disk, request, record>>

\* The loop swallows whatever acquire_lease() raises.
AskFails(p) ==
  /\ pc[p] = "asking"
  /\ Sleep(p, "unheard")
  /\ UNCHANGED <<now, lock, nap, started, disk, request, record>>

-----------------------------------------------------------------------------
(* The pass: maybe_backup() *)

\* Mistake: due when it would be due before the next pass.
DueByNextPass(p) == started[p] + nap[p] - lastBackup >= Every

Due(p) == started[p] - lastBackup >= Every

BackupCheck(p) ==
  /\ pc[p] = "passing"
  /\ Goto(p, IF Due(p) THEN "copying" ELSE "closing")
  /\ UNCHANGED <<now, lock, nap, mark, started, slowest, disk, request, record>>

\* Mistake: the list is sorted oldest first, so rotation drops the newest.
OldestOf(S) == {f \in S : Cardinality({g \in S : g <= f}) <= Keep}

\* prune(): all but the newest Keep.
NewestOf(S) == {f \in S : Cardinality({g \in S : g >= f}) <= Keep}

\* make_backup(): the rename puts the whole snapshot in place; the names are
\* stamps, and a stamp that is there already is left alone.
Write(t) == files' = IF t \in files THEN files ELSE NewestOf(files \cup {t})

\* The pass has spent the shortest lease it can have had, and three intervals.
Slow(p) == now - mark[p] >= MinTtl /\ now - mark[p] >= 3 * nap[p]

Copy(p) ==
  /\ pc[p] = "copying"
  /\ Write(started[p])
  /\ latest' = IF started[p] > latest THEN started[p] ELSE latest
  /\ torn' = FALSE
  /\ Goto(p, "recording")
  /\ UNCHANGED <<now, lock, nap, mark, started, slowest, lastBackup, request, recorded>>

Record(p) ==
  /\ pc[p] = "recording"
  /\ lastBackup' = started[p]
  /\ recorded' = started[p]
  /\ torn' = (Slow(p) \/ started[p] < latest)
  /\ Goto(p, "closing")
  /\ UNCHANGED <<now, lock, nap, mark, started, slowest, files, request, latest>>

\* The locals of the pass are gone; it may have written a snapshot and not
\* recorded it.
Leave(p) ==
  /\ started' = [started EXCEPT ![p] = 0]
  /\ torn' = (torn \/ pc[p] = "recording")

\* The pass is over, or something in it raised: the loop swallows that, too.
PassEnds(p) ==
  /\ pc[p] \in InPass
  /\ Sleep(p, "asleep")
  /\ Leave(p)
  /\ UNCHANGED <<now, lock, nap, disk, request, latest, recorded>>

-----------------------------------------------------------------------------
(* The owner's POST /snapshots *)

\* The name is the clock of this moment; VACUUM INTO takes its time.
BeginSnapshot(o) ==
  /\ owner[o] = "unsent"
  /\ stamp' = [stamp EXCEPT ![o] = now]
  /\ owner' = [owner EXCEPT ![o] = "copying"]
  /\ UNCHANGED <<now, lock, pc, nap, mark, started, slowest, disk, wrote, record>>

\* The snapshot is there, older ones are pruned, and the clock is read again.
WriteSnapshot(o) ==
  /\ owner[o] = "copying"
  /\ Write(stamp[o])
  /\ wrote' = [wrote EXCEPT ![o] = now]
  /\ owner' = [owner EXCEPT ![o] = "storing"]
  /\ UNCHANGED <<now, lock, pc, nap, mark, started, slowest, lastBackup, stamp, record>>

RequestEnds(o) ==
  /\ owner' = [owner EXCEPT ![o] = "over"]
  /\ stamp' = [stamp EXCEPT ![o] = 0]
  /\ wrote' = [wrote EXCEPT ![o] = 0]

\* settings.set() has had its turn at the database: a pass may have recorded its
\* own snapshot since the clock was read.
StoreTime(o) ==
  /\ owner[o] = "storing"
  /\ lastBackup' = wrote[o]
  /\ recorded' = stamp[o]
  /\ torn' = (torn \/ wrote[o] < latest)
  /\ RequestEnds(o)
  /\ UNCHANGED <<now, lock, pc, nap, mark, started, slowest, files, latest>>

\* make_backup() raises (400), the write fails, or the process dies.
SnapshotFails(o) ==
  /\ owner[o] \in {"copying", "storing"}
  /\ RequestEnds(o)
  /\ UNCHANGED <<now, lock, pc, nap, mark, started, slowest, disk, record>>

-----------------------------------------------------------------------------
(* The machine and the clock *)

\* A process dies or is stopped; neither lets go of the lease.
Die(p) ==
  /\ pc[p] \in Busy \cup Waiting
  /\ Leave(p)
  /\ mark' = [mark EXCEPT ![p] = 0]
  /\ nap' = [nap EXCEPT ![p] = 0]
  /\ Goto(p, "dead")
  /\ UNCHANGED <<now, lock, slowest, disk, request, latest, recorded>>

\* Time passes, whoever is asleep, waiting or in the middle of a pass.
Tick ==
  /\ now < MaxTime
  /\ now' = now + 1
  /\ UNCHANGED <<lock, pc, nap, mark, started, slowest, disk, request, record>>

-----------------------------------------------------------------------------

Round(p) ==
  \/ Ask(p) \/ Acquire(p) \/ StandBy(p) \/ AskFails(p)
  \/ BackupCheck(p) \/ Copy(p) \/ Record(p) \/ PassEnds(p)

Manual(o) ==
  BeginSnapshot(o) \/ WriteSnapshot(o) \/ StoreTime(o) \/ SnapshotFails(o)

Next ==
  \/ \E p \in Procs : Round(p) \/ Die(p)
  \/ \E o \in Requests : Manual(o)
  \/ Tick

Spec == Init /\ [][Next]_vars

-----------------------------------------------------------------------------
(* What must hold *)

\* Two processes are inside a pass together only if one of them has been at it for
\* longer than max(30, nap * 3), so that its lease ran out under it (expiry_loop,
\* acquire_lease).
OneScheduler ==
  \A p, q \in Procs :
     pc[p] \in InPass /\ pc[q] \in InPass => p = q \/ Slow(p) \/ Slow(q)

\* The whole of what expiry_loop() says ("in exactly one process", "a slow pass
\* cannot lose the lease mid-run").
ExactlyOnePasses ==
  \A p, q \in Procs : pc[p] \in InPass /\ pc[q] \in InPass => p = q

\* Nobody who has had an answer plans to sleep through a lapsed lease for longer
\* than its interval and the slowest round there has been (or MinTtl): a dead holder is replaced
\* promptly, whatever interval its lease was taken with (expiry_loop, acquire_lease).
LapseIsNoticed ==
  \A p \in Procs :
     pc[p] = "asleep" => mark[p] < lock.expires + nap[p] + slowest

\* A pass writes its snapshot an interval or more after the newest that a pass wrote,
\* unless a pass is slow, or the last one was slow or stopped before it had stored
\* backup_last_ts, or the owner's store came in after it with an older clock
\* (maybe_backup, "writes at most one snapshot per interval").
SnapshotsAreSpaced ==
  [][\A p \in Procs : Copy(p) =>
       \/ latest = 0 \/ torn
       \/ \E q \in Procs : pc[q] \in InPass /\ Slow(q)
       \/ started[p] - latest >= Every]_vars

\* The snapshot that backup_last_ts tells of is on disk, or a newer one is: neither
\* rotation nor snapshots that overlap have removed it (make_backup before
\* settings.set, list_backups' order).
RecordedBackupExists ==
  lastBackup # 0 => \E f \in files : f >= recorded

\* There is a snapshot as new as backup_last_ts itself.
RecordedTimeExists ==
  lastBackup # 0 => \E f \in files : f >= lastBackup
=============================================================================
