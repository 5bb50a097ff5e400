---------------------------- MODULE SchedulerProofs ----------------------------
(***************************************************************************)
(* What is true of Scheduler for every set of processes, of intervals and  *)
(* of requests, however long passes, sleeps and waits for the database     *)
(* last.                                                                   *)
(***************************************************************************)
EXTENDS Scheduler, FiniteSetTheorems, TLAPS

\* Whoever is in its pass and has not outlived its lease still holds the row, with
\* the expiry it wrote itself.
LeaseHeld == \A p \in Procs : pc[p] \in InPass /\ ~Slow(p) => lock = Row(p)

\* The clock was read in the past, and nobody sleeps for longer than its interval.
ReadBefore == \A p \in Procs : pc[p] \in Busy => mark[p] <= now
SleepsAreShort == \A p \in Procs : pc[p] \in Waiting => mark[p] <= now + nap[p]

\* The lease, whoever has it by now, outlasts the clock of everyone in a pass, and
\* whoever has it asked last.
LeaseIsLatest ==
  \A p \in Procs : pc[p] \in InPass =>
     /\ mark[p] < lock.expires
     /\ lock.holder # Nobody
     /\ \A q \in Procs : lock.holder = q /\ pc[q] \in Busy => mark[p] <= mark[q]

LeaseInv ==
  TypeOK /\ LeaseHeld /\ ReadBefore /\ SleepsAreShort /\ LeaseIsLatest /\ LapseIsNoticed

\* Where a pass stands with its snapshot: the newest is recorded, or torn, or about
\* to be recorded; one that is about to be written is due, or its pass is slow, or it
\* has overtaken another that has not recorded its own yet.
Recording(p) == pc[p] = "recording"
SpacingInv ==
  /\ latest = 0 \/ torn \/ latest <= lastBackup \/ \E p \in Procs : Recording(p)
  /\ \A p \in Procs : pc[p] = "copying" =>
       \/ latest = 0 \/ torn \/ Slow(p)
       \/ started[p] - latest >= Every
       \/ \E q \in Procs \ {p} : Recording(q)

\* Some snapshot on disk is the newest, and it is as new as what is recorded and
\* as what is about to be.
Newest(S, f) == f \in S /\ \A g \in S : g <= f
RotationInv ==
  /\ files # {} => \E f \in files : Newest(files, f)
  /\ RecordedBackupExists
  /\ \A p \in Procs : Recording(p) => \E f \in files : f >= started[p]
  /\ \A o \in Requests : owner[o] = "storing" => \E f \in files : f >= stamp[o]

-----------------------------------------------------------------------------

\* A lease lasts at least as long as the shortest one.
LEMMA TtlBound ==
  ASSUME NEW n \in Nat PROVE Ttl(n) \in Nat \ {0} /\ Ttl(n) >= MinTtl
BY ConstantsAssumption DEF Ttl

\* A pass is slow from the moment its lease has lapsed.
LEMMA SlowIsLapsed ==
  ASSUME TypeOK, NEW p \in Procs
  PROVE  Slow(p) <=> mark[p] + Ttl(nap[p]) <= now
<1>1. mark[p] \in Nat /\ nap[p] \in Nat /\ now \in Nat /\ MinTtl \in Nat
  BY ConstantsAssumption DEF TypeOK
<1> QED BY <1>1 DEF Slow, Ttl

\* Rotation never drops the newest snapshot.
LEMMA NewestStays ==
  ASSUME NEW S \in SUBSET Nat, NEW f, Newest(S, f)
  PROVE  Newest(NewestOf(S), f)
<1>1. {g \in S : g >= f} = {f}
  <2>1. f \in S /\ \A g \in S : g >= f => g = f
    BY DEF Newest
  <2>2. f >= f
    BY <2>1
  <2> QED BY <2>1, <2>2
<1>2. Cardinality({g \in S : g >= f}) = 1
  BY <1>1, FS_Singleton
<1> QED
  BY <1>2, ConstantsAssumption DEF NewestOf, Newest

LEMMA TypeInitially == Init => TypeOK
<1> SUFFICES ASSUME Init PROVE TypeOK
  OBVIOUS
<1>1. torn \in BOOLEAN
  BY DEF Init
<1>2. /\ now \in Nat /\ lastBackup \in Nat /\ latest \in Nat /\ files \subseteq Nat
      /\ slowest \in Nat /\ recorded \in Nat
  BY ConstantsAssumption DEF Init
<1>3. lock \in [holder : Procs \cup {Nobody}, expires : Nat]
  BY DEF Init
<1>4. /\ pc \in [Procs -> Busy \cup Waiting \cup {"new", "dead"}]
      /\ nap \in [Procs -> Nat]
      /\ mark \in [Procs -> Nat] /\ started \in [Procs -> Nat]
  BY DEF Init
<1>5. /\ owner \in [Requests -> {"unsent", "copying", "storing", "over"}]
      /\ stamp \in [Requests -> Nat] /\ wrote \in [Requests -> Nat]
  BY DEF Init
<1> QED BY <1>1, <1>2, <1>3, <1>4, <1>5 DEF TypeOK

LEMMA WriteTypes == ASSUME TypeOK, NEW t \in Nat, Write(t) PROVE files' \subseteq Nat
BY DEF TypeOK, Write, NewestOf

\* A round that ends now: how long it was, and until when its process sleeps.
LEMMA RoundEnds ==
  ASSUME TypeOK, NEW p \in Procs
  PROVE  /\ Later(p) \in Nat /\ Later(p) = now + nap[p]
         /\ Took(p) => /\ slowest' \in Nat /\ slowest' >= slowest
                       /\ now - mark[p] <= slowest'
<1>1. now \in Nat /\ mark[p] \in Nat /\ nap[p] \in Nat /\ slowest \in Nat
  BY DEF TypeOK
<1> QED BY <1>1 DEF Later, Took

LEMMA TypeStep == TypeOK /\ [Next]_vars => TypeOK'
<1> SUFFICES ASSUME TypeOK, [Next]_vars PROVE TypeOK'
  OBVIOUS
<1> USE ConstantsAssumption DEF TypeOK, Busy, InPass, Waiting, disk, request, record, Goto
<1>1. ASSUME NEW p \in Procs, Ask(p) PROVE TypeOK'
  BY <1>1 DEF Ask
<1>2. ASSUME NEW p \in Procs, Acquire(p) PROVE TypeOK'
  <2>1. Row(p) \in [holder : Procs \cup {Nobody}, expires : Nat]
    <3>1. mark[p] \in Nat /\ Ttl(nap[p]) \in Nat
      BY TtlBound
    <3>2. mark[p] + Ttl(nap[p]) \in Nat
      BY <3>1
    <3> QED BY <3>2 DEF Row
  <2>2. slowest' \in Nat
    BY <1>2, RoundEnds DEF Acquire
  <2> QED BY <1>2, <2>1, <2>2 DEF Acquire
<1>3. ASSUME NEW p \in Procs, NEW how \in Waiting, Sleep(p, how)
      PROVE  /\ mark' \in [Procs -> Nat] /\ slowest' \in Nat
             /\ pc' \in [Procs -> Busy \cup Waiting \cup {"new", "dead"}]
  BY <1>3, RoundEnds DEF Sleep
<1>4. ASSUME NEW p \in Procs, StandBy(p) \/ AskFails(p) PROVE TypeOK'
  <2>1. /\ UNCHANGED <<now, lock, nap, started, disk, request, record>>
        /\ \E how \in Waiting : Sleep(p, how)
    BY <1>4 DEF StandBy, AskFails
  <2> QED BY <1>3, <2>1
<1>5. ASSUME NEW p \in Procs, BackupCheck(p) PROVE TypeOK'
  <2>1. \E there \in {"copying", "closing"} : Goto(p, there)
    BY <1>5 DEF BackupCheck
  <2> QED BY <1>5, <2>1 DEF BackupCheck
<1>6. ASSUME NEW p \in Procs, Copy(p) PROVE TypeOK'
  BY <1>6, WriteTypes DEF Copy
<1>7. ASSUME NEW p \in Procs, Record(p) PROVE TypeOK'
  <2>1. torn' \in BOOLEAN
    BY <1>7 DEF Record, Slow
  <2>2. /\ lastBackup' \in Nat /\ recorded' \in Nat
        /\ pc' \in [Procs -> Busy \cup Waiting \cup {"new", "dead"}]
    BY <1>7 DEF Record
  <2> QED BY <1>7, <2>1, <2>2 DEF Record
<1>8. ASSUME NEW p \in Procs, PassEnds(p) PROVE TypeOK'
  <2>1. Sleep(p, "asleep") /\ Leave(p)
        /\ UNCHANGED <<now, lock, nap, disk, request, latest, recorded>>
    BY <1>8 DEF PassEnds
  <2>2. started' \in [Procs -> Nat] /\ torn' \in BOOLEAN
    BY <2>1 DEF Leave
  <2> QED BY <1>3, <2>1, <2>2
<1>9. ASSUME NEW p \in Procs, Die(p) PROVE TypeOK'
  BY <1>9 DEF Die, Leave
<1>10. ASSUME NEW o \in Requests, BeginSnapshot(o) PROVE TypeOK'
  BY <1>10 DEF BeginSnapshot
<1>11. ASSUME NEW o \in Requests, WriteSnapshot(o) PROVE TypeOK'
  <2>1. files' \subseteq Nat
    <3>1. stamp[o] \in Nat /\ Write(stamp[o])
      BY <1>11 DEF WriteSnapshot
    <3> QED BY <3>1, WriteTypes
  <2>2. wrote' \in [Requests -> Nat]
        /\ owner' \in [Requests -> {"unsent", "copying", "storing", "over"}]
    BY <1>11 DEF WriteSnapshot
  <2>3. UNCHANGED <<now, lock, pc, nap, mark, started, slowest, lastBackup, stamp, record>>
    BY <1>11 DEF WriteSnapshot
  <2> QED BY <2>1, <2>2, <2>3
<1>12. ASSUME NEW o \in Requests, StoreTime(o) PROVE TypeOK'
  BY <1>12 DEF StoreTime, RequestEnds
<1>13. ASSUME NEW o \in Requests, SnapshotFails(o) PROVE TypeOK'
  BY <1>13 DEF SnapshotFails, RequestEnds
<1>14. CASE Tick
  BY <1>14 DEF Tick
<1>15. CASE UNCHANGED vars
  BY <1>15 DEF vars
<1> QED
  BY <1>1, <1>2, <1>4, <1>5, <1>6, <1>7, <1>8, <1>9, <1>10, <1>11, <1>12, <1>13, <1>14,
     <1>15 DEF Next, Round, Manual

\* Every process and every request goes through its places with clock readings that
\* are numbers.
THEOREM TypeCorrect == Spec => []TypeOK
BY TypeInitially, TypeStep, PTL DEF Spec

-----------------------------------------------------------------------------

\* While a process has not outlived its lease, no other process is granted one.
LEMMA LeaseCovers ==
  ASSUME LeaseInv, NEW p \in Procs, pc[p] \in InPass, ~Slow(p)
  PROVE  \A q \in Procs : pc[q] = "asking" /\ Grants(q) => q = p
<1>1. /\ lock.holder = p /\ lock.expires = mark[p] + Ttl(nap[p])
  BY DEF LeaseInv, LeaseHeld, Row
<1>2. TypeOK
  BY DEF LeaseInv
<1>3. now \in Nat /\ mark[p] \in Nat /\ Ttl(nap[p]) \in Nat
  BY <1>2, TtlBound DEF TypeOK
<1>4. lock.expires \in Nat /\ lock.expires > now
  BY <1>1, <1>2, <1>3, SlowIsLapsed
<1>5. ASSUME NEW q \in Procs, pc[q] = "asking", Grants(q) PROVE q = p
  <2>1. mark[q] <= now /\ mark[q] \in Nat
    BY <1>2, <1>5 DEF LeaseInv, TypeOK, ReadBefore, Busy
  <2>2. ~(lock.expires <= mark[q])
    BY <1>3, <1>4, <2>1
  <2>3. lock.holder # Nobody
    BY <1>1, ConstantsAssumption
  <2> QED BY <1>1, <1>5, <2>2, <2>3 DEF Grants
<1> QED BY <1>5

LEMMA HeldByOne == LeaseInv => OneScheduler
<1> SUFFICES ASSUME LeaseInv, NEW p \in Procs, NEW q \in Procs,
                    pc[p] \in InPass, pc[q] \in InPass, ~Slow(p), ~Slow(q)
             PROVE  p = q
  BY DEF OneScheduler
<1>1. lock = Row(p) /\ lock = Row(q)
  BY DEF LeaseInv, LeaseHeld
<1> QED BY <1>1 DEF Row

\* What is said of the lease is kept when p only moves on inside its pass.
LEMMA PassMovesOn ==
  ASSUME LeaseInv, NEW p \in Procs, pc[p] \in InPass, NEW there \in InPass,
         pc' = [pc EXCEPT ![p] = there], UNCHANGED <<now, lock, nap, mark, slowest>>
  PROVE  /\ LeaseHeld' /\ ReadBefore' /\ SleepsAreShort'
         /\ LeaseIsLatest' /\ LapseIsNoticed'
<1>1. TypeOK
  BY DEF LeaseInv
<1>2. /\ \A q \in Procs : pc'[q] \in InPass <=> pc[q] \in InPass
      /\ \A q \in Procs : pc'[q] \in Busy <=> pc[q] \in Busy
      /\ \A q \in Procs : pc'[q] \in Waiting <=> pc[q] \in Waiting
      /\ \A q \in Procs : pc'[q] = "asleep" <=> pc[q] = "asleep"
  BY <1>1 DEF TypeOK, InPass, Busy, Waiting
<1>3. LeaseHeld'
  BY <1>2 DEF LeaseInv, LeaseHeld, Slow, Row
<1>4. ReadBefore' /\ SleepsAreShort'
  BY <1>2 DEF LeaseInv, ReadBefore, SleepsAreShort
<1>5. LeaseIsLatest'
  BY <1>2 DEF LeaseInv, LeaseIsLatest
<1>6. LapseIsNoticed'
  BY <1>2 DEF LeaseInv, LapseIsNoticed
<1> QED BY <1>3, <1>4, <1>5, <1>6

\* The same, when p stops, waits or dies: what is left to show is about p alone.
LEMMA LeavesAlone ==
  ASSUME LeaseInv, NEW p \in Procs, UNCHANGED <<now, lock>>,
         pc'[p] \notin Busy,
         \A q \in Procs : q # p =>
            pc'[q] = pc[q] /\ nap'[q] = nap[q] /\ mark'[q] = mark[q],
         slowest' \in Nat, slowest' >= slowest,
         pc'[p] \in Waiting => mark'[p] <= now + nap'[p],
         pc'[p] = "asleep" => mark'[p] < lock.expires + nap'[p] + slowest'
  PROVE  /\ LeaseHeld' /\ ReadBefore' /\ SleepsAreShort'
         /\ LeaseIsLatest' /\ LapseIsNoticed'
<1>1. TypeOK
  BY DEF LeaseInv
<1>2. \A q \in Procs : pc'[q] \in Busy => q # p
  OBVIOUS
<1>3. \A q \in Procs : pc'[q] \in InPass => q # p
  BY DEF Busy
<1>4. LeaseHeld'
  BY <1>3 DEF LeaseInv, LeaseHeld, Slow, Row
<1>5. ReadBefore'
  BY <1>2 DEF LeaseInv, ReadBefore
<1>6. SleepsAreShort'
  BY DEF LeaseInv, SleepsAreShort
<1>7. LeaseIsLatest'
  BY <1>2, <1>3 DEF LeaseInv, LeaseIsLatest
<1>8. LapseIsNoticed'
  <2> SUFFICES ASSUME NEW q \in Procs, pc'[q] = "asleep"
               PROVE  mark'[q] < lock'.expires + nap'[q] + slowest'
    BY DEF LapseIsNoticed
  <2>1. CASE q = p
    BY <2>1
  <2>2. CASE q # p
    <3>1. mark[q] < lock.expires + nap[q] + slowest
      BY <2>2 DEF LeaseInv, LapseIsNoticed
    <3>2. /\ mark[q] \in Nat /\ lock.expires \in Nat /\ nap[q] \in Nat /\ slowest \in Nat
      BY <1>1 DEF TypeOK
    <3>3. mark[q] < lock.expires + nap[q] + slowest'
      BY <3>1, <3>2
    <3> QED BY <2>2, <3>3
  <2> QED BY <2>1, <2>2
<1> QED BY <1>4, <1>5, <1>6, <1>7, <1>8

LEMMA LeaseStep == LeaseInv /\ [Next]_vars => LeaseInv'
<1> SUFFICES ASSUME LeaseInv, [Next]_vars PROVE LeaseInv'
  OBVIOUS
<1>0. TypeOK /\ TypeOK'
  BY TypeStep DEF LeaseInv
<1>a. /\ now \in Nat /\ lock.expires \in Nat /\ slowest \in Nat
      /\ \A p \in Procs : mark[p] \in Nat /\ nap[p] \in Nat
  BY <1>0 DEF TypeOK
<1> DEFINE Rest == LeaseHeld /\ ReadBefore /\ SleepsAreShort /\ LeaseIsLatest /\ LapseIsNoticed
<1> USE DEF Goto
<1>1. ASSUME NEW p \in Procs, Ask(p) PROVE Rest'
  <2>1. /\ UNCHANGED <<now, lock, slowest>> /\ pc'[p] = "asking" /\ mark'[p] = now
        /\ \A q \in Procs : q # p => pc'[q] = pc[q] /\ nap'[q] = nap[q] /\ mark'[q] = mark[q]
    BY <1>0, <1>1 DEF Ask, TypeOK
  <2>2. /\ \A q \in Procs : pc'[q] \in InPass => q # p
        /\ \A q \in Procs : pc'[q] \in Waiting => q # p
    BY <2>1 DEF InPass, Waiting
  <2>3. LeaseHeld'
    BY <2>1, <2>2 DEF LeaseInv, LeaseHeld, Slow, Row
  <2>4. ReadBefore'
    BY <1>a, <2>1 DEF LeaseInv, ReadBefore
  <2>5. SleepsAreShort'
    BY <2>1, <2>2 DEF LeaseInv, SleepsAreShort
  <2>6. LeaseIsLatest'
    <3> SUFFICES ASSUME NEW q \in Procs, pc'[q] \in InPass
                 PROVE  /\ mark'[q] < lock'.expires /\ lock'.holder # Nobody
                        /\ \A r \in Procs : lock'.holder = r /\ pc'[r] \in Busy
                                              => mark'[q] <= mark'[r]
      BY DEF LeaseIsLatest
    <3>1. q # p /\ pc[q] \in InPass /\ mark'[q] = mark[q]
      BY <2>1, <2>2
    <3>2. mark[q] <= now
      BY <3>1 DEF LeaseInv, ReadBefore, Busy
    <3> QED BY <2>1, <3>1, <3>2 DEF LeaseInv, LeaseIsLatest
  <2>7. LapseIsNoticed'
    BY <2>1, <2>2 DEF LeaseInv, LapseIsNoticed, Waiting
  <2> QED BY <2>3, <2>4, <2>5, <2>6, <2>7
<1>2. ASSUME NEW p \in Procs, Acquire(p) PROVE Rest'
  <2>1. /\ UNCHANGED <<now, nap, mark>> /\ pc'[p] = "passing" /\ lock' = Row(p)
        /\ pc[p] = "asking" /\ Grants(p) /\ Took(p)
        /\ \A q \in Procs : q # p => pc'[q] = pc[q]
    BY <1>0, <1>2 DEF Acquire, TypeOK
  <2>2. /\ \A q \in Procs : pc'[q] \in InPass => q = p \/ pc[q] \in InPass
        /\ \A q \in Procs : pc'[q] \in Busy => pc[q] \in Busy
        /\ \A q \in Procs : pc'[q] \in Waiting => pc[q] \in Waiting
        /\ \A q \in Procs : pc'[q] = "asleep" => pc[q] = "asleep"
    BY <2>1 DEF InPass, Busy, Waiting
  <2>3. /\ lock'.holder = p /\ lock'.expires = mark[p] + Ttl(nap[p])
        /\ Ttl(nap[p]) \in Nat \ {0}
    BY <1>a, <2>1, TtlBound DEF Row
  <2>4. LeaseHeld'
    <3> SUFFICES ASSUME NEW q \in Procs, pc'[q] \in InPass, ~Slow(q)' PROVE lock' = Row(q)'
      BY DEF LeaseHeld
    <3>1. ~Slow(q) /\ Row(q)' = Row(q)
      BY <2>1 DEF Slow, Row
    <3>2. q = p
      BY <2>1, <2>2, <3>1, LeaseCovers
    <3> QED BY <2>1, <3>1, <3>2
  <2>5. ReadBefore' /\ SleepsAreShort'
    BY <2>1, <2>2 DEF LeaseInv, ReadBefore, SleepsAreShort
  <2>6. LeaseIsLatest'
    <3>1. ASSUME NEW q \in Procs, pc[q] \in InPass PROVE mark[q] <= mark[p]
      <4>1. mark[q] < lock.expires /\ lock.holder # Nobody
        BY <3>1 DEF LeaseInv, LeaseIsLatest
      <4>2. CASE lock.holder = p
        BY <2>1, <3>1, <4>2 DEF LeaseInv, LeaseIsLatest, Busy
      <4>3. CASE lock.expires <= mark[p]
        BY <1>a, <4>1, <4>3
      <4> QED BY <2>1, <4>1, <4>2, <4>3 DEF Grants
    <3>2. \A q \in Procs : pc'[q] \in InPass => mark[q] <= mark[p]
      BY <1>a, <2>2, <3>1
    <3>3. \A q \in Procs : pc'[q] \in InPass => mark'[q] < lock'.expires
      BY <1>a, <2>1, <2>3, <3>2
    <3>4. lock'.holder # Nobody
      BY <2>3, ConstantsAssumption
    <3>5. \A q, r \in Procs : pc'[q] \in InPass /\ lock'.holder = r => mark'[q] <= mark'[r]
      BY <2>1, <2>3, <3>2
    <3> QED BY <3>3, <3>4, <3>5 DEF LeaseIsLatest
  <2>7. LapseIsNoticed'
    <3> SUFFICES ASSUME NEW q \in Procs, pc'[q] = "asleep"
                 PROVE  mark'[q] < lock'.expires + nap'[q] + slowest'
      BY DEF LapseIsNoticed
    <3>1. mark[q] <= now + nap[q]
      BY <2>2 DEF LeaseInv, SleepsAreShort, Waiting
    <3>2. slowest' \in Nat /\ now - mark[p] <= slowest'
      BY <1>0, <2>1, RoundEnds
    <3>3. mark[q] < mark[p] + Ttl(nap[p]) + nap[q] + slowest'
      BY <1>a, <2>3, <3>1, <3>2
    <3> QED BY <2>1, <2>3, <3>3
  <2> QED BY <2>4, <2>5, <2>6, <2>7
<1>3. ASSUME NEW p \in Procs, NEW how \in Waiting, Sleep(p, how), UNCHANGED <<now, lock, nap>>,
             how = "asleep" => mark[p] < lock.expires
      PROVE  Rest'
  <2>1. /\ pc'[p] = how /\ mark'[p] = Later(p) /\ Took(p)
        /\ \A q \in Procs : q # p => pc'[q] = pc[q] /\ nap'[q] = nap[q] /\ mark'[q] = mark[q]
    BY <1>0, <1>3 DEF Sleep, TypeOK
  <2>2. /\ mark'[p] = now + nap[p]
        /\ slowest' \in Nat /\ slowest' >= slowest /\ now - mark[p] <= slowest'
    BY <1>0, <2>1, RoundEnds
  <2>3. pc'[p] \notin Busy
    BY <2>1 DEF Busy, InPass, Waiting
  <2>4. mark'[p] <= now + nap'[p]
    BY <1>3, <1>a, <2>2
  <2>5. pc'[p] = "asleep" => mark'[p] < lock.expires + nap'[p] + slowest'
    BY <1>3, <1>a, <2>1, <2>2
  <2> QED BY <1>3, <2>1, <2>2, <2>3, <2>4, <2>5, LeavesAlone
<1>4. ASSUME NEW p \in Procs, StandBy(p) PROVE Rest'
  <2>1. Sleep(p, "asleep") /\ UNCHANGED <<now, lock, nap>> /\ ~Grants(p)
    BY <1>4 DEF StandBy
  <2>2. mark[p] < lock.expires
    BY <1>a, <2>1 DEF Grants
  <2> QED BY <1>3, <2>1, <2>2 DEF Waiting
<1>5. ASSUME NEW p \in Procs, AskFails(p) PROVE Rest'
  <2>1. Sleep(p, "unheard") /\ UNCHANGED <<now, lock, nap>>
    BY <1>5 DEF AskFails
  <2> QED BY <1>3, <2>1 DEF Waiting
<1>6. ASSUME NEW p \in Procs, PassEnds(p) PROVE Rest'
  <2>1. Sleep(p, "asleep") /\ UNCHANGED <<now, lock, nap>> /\ pc[p] \in InPass
    BY <1>6 DEF PassEnds
  <2>2. mark[p] < lock.expires
    BY <2>1 DEF LeaseInv, LeaseIsLatest
  <2> QED BY <1>3, <2>1, <2>2 DEF Waiting
<1>7. ASSUME NEW p \in Procs, BackupCheck(p) \/ Copy(p) \/ Record(p) PROVE Rest'
  <2>1. PICK there \in {"copying", "recording", "closing"} :
          /\ pc' = [pc EXCEPT ![p] = there] /\ pc[p] \in InPass
          /\ UNCHANGED <<now, lock, nap, mark, slowest>>
    <3>1. CASE BackupCheck(p)
      BY <3>1 DEF BackupCheck, InPass
    <3>2. CASE Copy(p)
      BY <3>2 DEF Copy, InPass
    <3>3. CASE Record(p)
      BY <3>3 DEF Record, InPass
    <3> QED BY <1>7, <3>1, <3>2, <3>3
  <2> QED BY <2>1, PassMovesOn DEF InPass
<1>8. ASSUME NEW p \in Procs, Die(p) PROVE Rest'
  <2>1. /\ UNCHANGED <<now, lock, slowest>> /\ pc'[p] = "dead"
        /\ \A q \in Procs : q # p => pc'[q] = pc[q] /\ nap'[q] = nap[q] /\ mark'[q] = mark[q]
    BY <1>0, <1>8 DEF Die, TypeOK
  <2>2. pc'[p] \notin Busy /\ pc'[p] \notin Waiting /\ pc'[p] # "asleep"
    BY <2>1 DEF Busy, InPass, Waiting
  <2>3. slowest' \in Nat /\ slowest' >= slowest
    BY <1>a, <2>1
  <2> QED BY <2>1, <2>2, <2>3, LeavesAlone
<1>9. ASSUME Tick PROVE Rest'
  <2>1. UNCHANGED <<lock, pc, nap, mark, slowest>> /\ now' = now + 1
    BY <1>9 DEF Tick
  <2>2. \A p \in Procs : ~Slow(p)' => ~Slow(p)
    BY <1>a, <2>1, ConstantsAssumption DEF Slow
  <2>3. LeaseHeld'
    BY <2>1, <2>2 DEF LeaseInv, LeaseHeld, Row
  <2>4. ReadBefore' /\ SleepsAreShort'
    BY <1>a, <2>1 DEF LeaseInv, ReadBefore, SleepsAreShort
  <2>5. LeaseIsLatest' /\ LapseIsNoticed'
    BY <2>1 DEF LeaseInv, LeaseIsLatest, LapseIsNoticed
  <2> QED BY <2>3, <2>4, <2>5
<1>10. ASSUME UNCHANGED <<now, lock, pc, nap, mark, slowest>> PROVE Rest'
  BY <1>10 DEF LeaseInv, LeaseHeld, ReadBefore, SleepsAreShort, LeaseIsLatest, LapseIsNoticed,
               Slow, Row
<1>11. ASSUME NEW o \in Requests, Manual(o) PROVE Rest'
  <2>1. UNCHANGED <<now, lock, pc, nap, mark, slowest>>
    BY <1>11 DEF Manual, BeginSnapshot, WriteSnapshot, StoreTime, SnapshotFails
  <2> QED BY <1>10, <2>1
<1>12. ASSUME UNCHANGED vars PROVE Rest'
  BY <1>10, <1>12 DEF vars
<1> HIDE DEF Rest
<1>13. Rest'
  BY <1>1, <1>2, <1>4, <1>5, <1>6, <1>7, <1>8, <1>9, <1>11, <1>12 DEF Next, Round
<1> QED
  BY <1>0, <1>13 DEF LeaseInv, Rest

LEMMA LeaseInvariant == Spec => []LeaseInv
<1>1. Init => LeaseInv
  <2>1. Init => LeaseHeld /\ ReadBefore /\ SleepsAreShort /\ LeaseIsLatest /\ LapseIsNoticed
    BY DEF Init, LeaseHeld, ReadBefore, SleepsAreShort, LeaseIsLatest, LapseIsNoticed, Busy,
           InPass, Waiting
  <2> QED BY <2>1, TypeInitially DEF LeaseInv
<1> QED BY <1>1, LeaseStep, PTL DEF Spec

\* Passes overlap only if one of them has gone on for longer than its lease.
THEOREM OnlyOneScheduler == Spec => []OneScheduler
BY LeaseInvariant, HeldByOne, PTL

\* However long rounds and waits are, a lapsed lease is noticed by everyone who has
\* had an answer, within its interval and the longest of them.
THEOREM LapsesAreNoticed == Spec => []LapseIsNoticed
<1>1. LeaseInv => LapseIsNoticed
  BY DEF LeaseInv
<1> QED BY <1>1, LeaseInvariant, PTL

-----------------------------------------------------------------------------

LEMMA SpacingStep ==
  ASSUME LeaseInv, SpacingInv, [Next]_vars PROVE SpacingInv'
<1>0. TypeOK
  BY DEF LeaseInv
<1>a. \A p, q \in Procs : pc[p] \in InPass /\ pc[q] \in InPass => p = q \/ Slow(p) \/ Slow(q)
  BY HeldByOne DEF OneScheduler
<1>b. /\ latest \in Nat /\ lastBackup \in Nat /\ Every \in Nat /\ torn \in BOOLEAN
      /\ \A p \in Procs : started[p] \in Nat
      /\ \A o \in Requests : wrote[o] \in Nat
  BY <1>0, ConstantsAssumption DEF TypeOK
<1> USE DEF Goto, disk, request, record, Recording
<1>1. ASSUME NEW p \in Procs, pc[p] \notin {"copying", "recording"},
             pc'[p] \notin {"copying", "recording"},
             \A q \in Procs : q # p => pc'[q] = pc[q] /\ started'[q] = started[q]
                                         /\ Slow(q)' = Slow(q),
             lastBackup' = lastBackup, latest' = latest, torn' = torn
      PROVE  SpacingInv'
  <2>1. \A q \in Procs : pc'[q] = "copying" \/ pc'[q] = "recording"
                           <=> pc[q] = "copying" \/ pc[q] = "recording"
    BY <1>1
  <2>2. \A q \in Procs : Recording(q) => q # p /\ pc'[q] = "recording"
    BY <1>1
  <2>3. latest' = 0 \/ torn' \/ latest' <= lastBackup' \/ \E q \in Procs : pc'[q] = "recording"
    BY <1>1, <2>2 DEF SpacingInv
  <2>4. ASSUME NEW q \in Procs, pc'[q] = "copying"
        PROVE  \/ latest' = 0 \/ torn' \/ Slow(q)'
               \/ started'[q] - latest' >= Every
               \/ \E r \in Procs \ {q} : pc'[r] = "recording"
    <3>1. q # p /\ pc[q] = "copying"
      BY <1>1, <2>4
    <3>2. \/ latest = 0 \/ torn \/ Slow(q) \/ started[q] - latest >= Every
          \/ \E r \in Procs \ {q} : Recording(r)
      BY <3>1 DEF SpacingInv
    <3> QED BY <1>1, <2>2, <3>1, <3>2
  <2> QED BY <2>3, <2>4 DEF SpacingInv
<1>2. ASSUME NEW p \in Procs, Ask(p) \/ StandBy(p) \/ AskFails(p) \/ Acquire(p)
      PROVE  SpacingInv'
  <2>1. /\ UNCHANGED <<now, lastBackup, latest, torn>>
        /\ pc[p] \in {"new", "asking"} \cup Waiting
        /\ pc'[p] \in {"asking", "passing"} \cup Waiting
        /\ \A q \in Procs : q # p => pc'[q] = pc[q] /\ nap'[q] = nap[q] /\ mark'[q] = mark[q]
                                     /\ started'[q] = started[q]
    BY <1>0, <1>2 DEF Ask, StandBy, AskFails, Acquire, Sleep, TypeOK, Waiting
  <2>2. \A q \in Procs : q # p => Slow(q)' = Slow(q)
    BY <2>1 DEF Slow
  <2> QED BY <1>1, <2>1, <2>2 DEF Waiting
<1>3. ASSUME NEW p \in Procs, BackupCheck(p) PROVE SpacingInv'
  <2>1. /\ UNCHANGED <<now, nap, mark, started, lastBackup, latest, torn>> /\ pc[p] = "passing"
        /\ pc'[p] = IF Due(p) THEN "copying" ELSE "closing"
        /\ \A q \in Procs : q # p => pc'[q] = pc[q]
    BY <1>0, <1>3 DEF BackupCheck, TypeOK
  <2>2. \A q \in Procs : (pc'[q] = "recording") <=> (pc[q] = "recording")
    BY <2>1
  <2>3. latest = 0 \/ torn \/ latest <= lastBackup \/ \E q \in Procs : pc'[q] = "recording"
    BY <2>2 DEF SpacingInv
  <2>4. pc'[p] = "copying" =>
          latest = 0 \/ torn \/ started[p] - latest >= Every
            \/ \E q \in Procs \ {p} : pc'[q] = "recording"
    BY <1>b, <2>1, <2>3 DEF Due
  <2>5. ASSUME NEW q \in Procs \ {p}, pc'[q] = "copying"
        PROVE  latest = 0 \/ torn \/ Slow(q) \/ started[q] - latest >= Every
                 \/ \E r \in Procs \ {q} : pc'[r] = "recording"
    BY <2>1, <2>2, <2>5 DEF SpacingInv
  <2>6. \A q \in Procs : Slow(q)' = Slow(q)
    BY <2>1 DEF Slow
  <2> QED BY <2>1, <2>3, <2>4, <2>5, <2>6 DEF SpacingInv
<1>4. ASSUME NEW p \in Procs, Copy(p) PROVE SpacingInv'
  <2>1. /\ pc'[p] = "recording"
        /\ \A q \in Procs : q # p => pc'[q] = pc[q]
    BY <1>0, <1>4 DEF Copy, TypeOK
  <2>2. \A q \in Procs : pc'[q] = "copying" => p \in Procs \ {q}
    BY <2>1
  <2> QED BY <2>1, <2>2 DEF SpacingInv
<1>5. ASSUME NEW p \in Procs, Record(p) PROVE SpacingInv'
  <2>1. /\ UNCHANGED <<now, nap, mark, started, latest>> /\ pc[p] = "recording"
        /\ lastBackup' = started[p] /\ torn' = (Slow(p) \/ started[p] < latest)
        /\ pc'[p] = "closing"
        /\ \A q \in Procs : q # p => pc'[q] = pc[q]
    BY <1>0, <1>5 DEF Record, TypeOK
  <2>2. latest' <= lastBackup' \/ torn'
    <3>1. CASE started[p] < latest
      BY <2>1, <3>1
    <3>2. CASE ~(started[p] < latest)
      <4>1. latest <= started[p]
        BY <1>b, <3>2
      <4> QED BY <2>1, <4>1
    <3> QED BY <3>1, <3>2
  <2>3. ASSUME NEW q \in Procs, pc'[q] = "copying" PROVE Slow(q)' \/ torn'
    <3>1. q # p /\ pc[q] = "copying"
      BY <2>1, <2>3
    <3>2. Slow(p) \/ Slow(q)
      BY <1>a, <2>1, <3>1 DEF InPass
    <3>3. Slow(q)' = Slow(q)
      BY <2>1 DEF Slow
    <3> QED BY <2>1, <3>2, <3>3
  <2> QED BY <2>2, <2>3 DEF SpacingInv
<1>6. ASSUME NEW p \in Procs, PassEnds(p) \/ Die(p) PROVE SpacingInv'
  <2>1. /\ UNCHANGED <<now, lastBackup, latest>> /\ pc'[p] \in {"asleep", "dead"}
        /\ torn' = (torn \/ pc[p] = "recording")
        /\ \A q \in Procs : q # p => pc'[q] = pc[q] /\ started'[q] = started[q]
                                     /\ nap'[q] = nap[q] /\ mark'[q] = mark[q]
    BY <1>0, <1>6 DEF PassEnds, Die, Sleep, Leave, TypeOK
  <2>2. \A q \in Procs : Recording(q) => torn' \/ (q # p /\ pc'[q] = "recording")
    BY <2>1
  <2>3. latest' = 0 \/ torn' \/ latest' <= lastBackup' \/ \E q \in Procs : pc'[q] = "recording"
    BY <2>1, <2>2 DEF SpacingInv
  <2>4. ASSUME NEW q \in Procs, pc'[q] = "copying"
        PROVE  \/ latest' = 0 \/ torn' \/ Slow(q)'
               \/ started'[q] - latest' >= Every
               \/ \E r \in Procs \ {q} : pc'[r] = "recording"
    <3>1. q # p /\ pc[q] = "copying"
      BY <2>1, <2>4
    <3>2. \/ latest = 0 \/ torn \/ Slow(q) \/ started[q] - latest >= Every
          \/ \E r \in Procs \ {q} : Recording(r)
      BY <3>1 DEF SpacingInv
    <3>3. Slow(q)' = Slow(q)
      BY <2>1, <3>1 DEF Slow
    <3> QED BY <2>1, <2>2, <3>1, <3>2, <3>3
  <2> QED BY <2>3, <2>4 DEF SpacingInv
<1>7. ASSUME UNCHANGED <<pc, started, latest>>,
             torn' \/ (torn' = torn /\ lastBackup' = lastBackup) \/ latest <= lastBackup',
             torn => torn',
             \A p \in Procs : pc[p] = "copying" => (Slow(p) => Slow(p)')
      PROVE  SpacingInv'
  BY <1>7 DEF SpacingInv
<1>8. ASSUME NEW o \in Requests, Manual(o) PROVE SpacingInv'
  <2>1. /\ UNCHANGED <<now, pc, nap, mark, started, latest>>
        /\ \/ UNCHANGED <<torn, lastBackup>>
           \/ lastBackup' = wrote[o] /\ torn' = (torn \/ wrote[o] < latest)
    BY <1>8 DEF Manual, BeginSnapshot, WriteSnapshot, StoreTime, SnapshotFails
  <2>2. /\ torn' \/ (torn' = torn /\ lastBackup' = lastBackup) \/ latest <= lastBackup'
        /\ torn => torn'
    <3>1. CASE UNCHANGED <<torn, lastBackup>>
      BY <3>1
    <3>2. CASE lastBackup' = wrote[o] /\ torn' = (torn \/ wrote[o] < latest)
      <4>1. wrote[o] < latest \/ latest <= wrote[o]
        BY <1>b
      <4> QED BY <3>2, <4>1
    <3> QED BY <2>1, <3>1, <3>2
  <2>3. \A p \in Procs : Slow(p)' = Slow(p)
    BY <2>1 DEF Slow
  <2> QED BY <1>7, <2>1, <2>2, <2>3
<1>9. CASE Tick
  <2>1. UNCHANGED <<pc, nap, mark, started, lastBackup, latest, torn>> /\ now' = now + 1
    BY <1>9 DEF Tick
  <2>2. \A p \in Procs : Slow(p) => Slow(p)'
    BY <1>0, <2>1, ConstantsAssumption DEF Slow, TypeOK
  <2> QED BY <1>7, <2>1, <2>2
<1>10. CASE UNCHANGED vars
  BY <1>7, <1>10 DEF vars, Slow
<1> QED
  BY <1>2, <1>3, <1>4, <1>5, <1>6, <1>8, <1>9, <1>10 DEF Next, Round

\* Passes write one snapshot per interval, as long as they keep to their lease and
\* what they wrote gets recorded.
THEOREM OneSnapshotPerInterval == Spec => SnapshotsAreSpaced
<1>1. Init => SpacingInv
  BY DEF Init, SpacingInv
<1>2. LeaseInv /\ SpacingInv /\ [Next]_vars => SpacingInv'
  BY SpacingStep
<1> DEFINE Spaced(p) == \/ latest = 0 \/ torn
                        \/ \E q \in Procs : pc[q] \in InPass /\ Slow(q)
                        \/ started[p] - latest >= Every
<1>3. LeaseInv /\ SpacingInv => \A p \in Procs : Copy(p) => Spaced(p)
  <2> SUFFICES ASSUME LeaseInv, SpacingInv, NEW p \in Procs, Copy(p) PROVE Spaced(p)
    OBVIOUS
  <2>1. pc[p] = "copying" /\ pc[p] \in InPass
    BY DEF Copy, InPass
  <2>2. \/ latest = 0 \/ torn \/ Slow(p) \/ started[p] - latest >= Every
        \/ \E q \in Procs \ {p} : Recording(q)
    BY <2>1 DEF SpacingInv
  <2>3. ASSUME NEW q \in Procs \ {p}, Recording(q)
        PROVE  \E r \in Procs : pc[r] \in InPass /\ Slow(r)
    <3>1. pc[q] \in InPass
      BY <2>3 DEF Recording, InPass
    <3> QED BY <2>1, <3>1, HeldByOne DEF OneScheduler
  <2> QED BY <2>1, <2>2, <2>3
<1>4. LeaseInv /\ SpacingInv /\ [Next]_vars => [\A p \in Procs : Copy(p) => Spaced(p)]_vars
  BY <1>3
<1> QED
  BY <1>1, <1>2, <1>4, LeaseInvariant, PTL DEF Spec, SnapshotsAreSpaced

-----------------------------------------------------------------------------

\* A snapshot more, and rotation: the newest is still there, and is no older
\* than the newest was and than the one that was added.
LEMMA RotationKeeps ==
  ASSUME TypeOK, RotationInv, NEW t \in Nat, Write(t)
  PROVE  \E f \in files' : /\ Newest(files', f) /\ f >= t
                           /\ \A g \in files : f >= g
<1>0. files \subseteq Nat /\ files' = IF t \in files THEN files ELSE NewestOf(files \cup {t})
  BY DEF TypeOK, Write
<1>1. CASE t \in files
  <2>1. PICK f \in files : Newest(files, f)
    BY <1>1 DEF RotationInv
  <2> QED BY <1>0, <1>1, <2>1 DEF Newest
<1>2. CASE t \notin files
  <2>1. PICK f \in files \cup {t} : Newest(files \cup {t}, f)
    <3>1. CASE files = {}
      BY <3>1 DEF Newest
    <3>2. CASE files # {}
      <4>1. PICK g \in files : Newest(files, g)
        BY <3>2 DEF RotationInv
      <4>2. CASE g >= t
        BY <1>0, <4>1, <4>2 DEF Newest
      <4>3. CASE ~(g >= t)
        <5>1. \A h \in files \cup {t} : h <= t
          BY <1>0, <4>1, <4>3 DEF Newest
        <5> QED BY <5>1 DEF Newest
      <4> QED BY <4>2, <4>3
    <3> QED BY <3>1, <3>2
  <2>2. Newest(NewestOf(files \cup {t}), f)
    BY <1>0, <2>1, NewestStays
  <2>3. Newest(files', f)
    BY <1>0, <1>2, <2>2
  <2> QED BY <1>0, <2>1, <2>3 DEF Newest
<1> QED BY <1>1, <1>2

\* What is as new as a snapshot of before is as new as the newest of now.
LEMMA StaysCovered ==
  ASSUME TypeOK, RotationInv, NEW t \in Nat, Write(t), files' \subseteq Nat
  PROVE  /\ files' # {} => \E f \in files' : Newest(files', f)
         /\ \E f \in files' : f >= t
         /\ \A n \in Nat : (\E f \in files : f >= n) => \E f \in files' : f >= n
<1>1. PICK f \in files' : /\ Newest(files', f) /\ f >= t
                          /\ \A g \in files : f >= g
  BY RotationKeeps
<1>2. files \subseteq Nat
  BY DEF TypeOK
<1>3. ASSUME NEW n \in Nat, NEW g \in files, g >= n PROVE f >= n
  BY <1>1, <1>2, <1>3
<1> QED BY <1>1, <1>3

LEMMA RotationStep ==
  ASSUME TypeOK, RotationInv, [Next]_vars PROVE RotationInv'
<1>0. /\ lastBackup \in Nat /\ recorded \in Nat /\ files \subseteq Nat
      /\ \A p \in Procs : started[p] \in Nat
      /\ \A o \in Requests : stamp[o] \in Nat
  BY DEF TypeOK
<1>a. files' \subseteq Nat
  BY TypeStep DEF TypeOK
<1> USE DEF Goto, disk, request, record, Recording
<1>1. ASSUME NEW p \in Procs, Copy(p) PROVE RotationInv'
  <2>1. /\ UNCHANGED <<started, lastBackup, recorded, owner, stamp>> /\ pc'[p] = "recording"
        /\ Write(started[p])
        /\ \A q \in Procs : q # p => pc'[q] = pc[q]
    BY <1>1 DEF Copy, TypeOK
  <2>2. /\ files' # {} => \E f \in files' : Newest(files', f)
        /\ \E f \in files' : f >= started[p]
        /\ \A n \in Nat : (\E f \in files : f >= n) => \E f \in files' : f >= n
    BY <1>0, <1>a, <2>1, StaysCovered
  <2>3. RecordedBackupExists'
    BY <1>0, <2>1, <2>2 DEF RotationInv, RecordedBackupExists
  <2>4. \A q \in Procs : pc'[q] = "recording" => \E f \in files' : f >= started'[q]
    BY <1>0, <2>1, <2>2 DEF RotationInv
  <2>5. \A o \in Requests : owner'[o] = "storing" => \E f \in files' : f >= stamp'[o]
    BY <1>0, <2>1, <2>2 DEF RotationInv
  <2> QED BY <2>2, <2>3, <2>4, <2>5 DEF RotationInv
<1>2. ASSUME NEW o \in Requests, WriteSnapshot(o) PROVE RotationInv'
  <2>1. /\ UNCHANGED <<started, pc, lastBackup, recorded, stamp>> /\ Write(stamp[o])
        /\ \A r \in Requests : r # o => owner'[r] = owner[r]
    BY <1>2 DEF WriteSnapshot, TypeOK
  <2>2. /\ files' # {} => \E f \in files' : Newest(files', f)
        /\ \E f \in files' : f >= stamp[o]
        /\ \A n \in Nat : (\E f \in files : f >= n) => \E f \in files' : f >= n
    BY <1>0, <1>a, <2>1, StaysCovered
  <2>3. RecordedBackupExists'
    BY <1>0, <2>1, <2>2 DEF RotationInv, RecordedBackupExists
  <2>4. \A q \in Procs : pc'[q] = "recording" => \E f \in files' : f >= started'[q]
    BY <1>0, <2>1, <2>2 DEF RotationInv
  <2>5. \A r \in Requests : owner'[r] = "storing" => \E f \in files' : f >= stamp'[r]
    BY <1>0, <2>1, <2>2 DEF RotationInv
  <2> QED BY <2>2, <2>3, <2>4, <2>5 DEF RotationInv
<1>3. ASSUME UNCHANGED files,
             UNCHANGED <<lastBackup, recorded>> \/ \E f \in files : f >= recorded',
             \A q \in Procs : pc'[q] = "recording" =>
               pc[q] = "recording" /\ started'[q] = started[q],
             \A o \in Requests : owner'[o] = "storing" =>
               owner[o] = "storing" /\ stamp'[o] = stamp[o]
      PROVE  RotationInv'
  <2>1. RecordedBackupExists'
    BY <1>3 DEF RotationInv, RecordedBackupExists
  <2> QED BY <1>3, <2>1 DEF RotationInv
<1>4. ASSUME NEW p \in Procs, Record(p) PROVE RotationInv'
  <2>1. UNCHANGED <<started, files, owner, stamp>> /\ recorded' = started[p]
        /\ pc[p] = "recording"
    BY <1>4 DEF Record
  <2>2. \A q \in Procs : pc'[q] = "recording" => pc[q] = "recording"
    BY <1>4 DEF Record, TypeOK
  <2>3. \E f \in files : f >= recorded'
    BY <2>1 DEF RotationInv
  <2> QED BY <1>3, <2>1, <2>2, <2>3
<1>5. ASSUME NEW o \in Requests, StoreTime(o) PROVE RotationInv'
  <2>1. /\ UNCHANGED <<started, files, pc>> /\ recorded' = stamp[o] /\ owner[o] = "storing"
        /\ \A r \in Requests : owner'[r] = "storing" => owner[r] = "storing" /\ stamp'[r] = stamp[r]
    BY <1>5 DEF StoreTime, RequestEnds, TypeOK
  <2>2. \E f \in files : f >= recorded'
    BY <2>1 DEF RotationInv
  <2> QED BY <1>3, <2>1, <2>2
<1>6. ASSUME NEW o \in Requests, BeginSnapshot(o) \/ SnapshotFails(o) PROVE RotationInv'
  <2>1. /\ UNCHANGED <<started, files, pc, lastBackup, recorded>>
        /\ \A r \in Requests : owner'[r] = "storing" => owner[r] = "storing" /\ stamp'[r] = stamp[r]
    BY <1>6 DEF BeginSnapshot, SnapshotFails, RequestEnds, TypeOK
  <2> QED BY <1>3, <2>1
<1>7. ASSUME NEW p \in Procs,
             Ask(p) \/ Acquire(p) \/ StandBy(p) \/ AskFails(p) \/ BackupCheck(p)
               \/ PassEnds(p) \/ Die(p)
      PROVE  RotationInv'
  <2>1. /\ UNCHANGED <<files, lastBackup, recorded, owner, stamp>> /\ pc'[p] # "recording"
        /\ \A q \in Procs : q # p => pc'[q] = pc[q] /\ started'[q] = started[q]
    BY <1>7 DEF Ask, Acquire, StandBy, AskFails, BackupCheck, PassEnds, Die, Sleep, Leave,
                TypeOK
  <2> QED BY <1>3, <2>1
<1>8. CASE Tick \/ UNCHANGED vars
  BY <1>3, <1>8 DEF Tick, vars
<1> QED
  BY <1>1, <1>2, <1>4, <1>5, <1>6, <1>7, <1>8 DEF Next, Round, Manual

\* Whatever fails and however long passes and requests take, the snapshot that
\* backup_last_ts tells of, or a newer one, is on disk.
THEOREM RecordedBackupsExist == Spec => []RecordedBackupExists
<1>1. Init => RotationInv
  <2> SUFFICES ASSUME Init PROVE RotationInv
    OBVIOUS
  <2>1. files = {} /\ RecordedBackupExists
    BY DEF Init, RecordedBackupExists
  <2>2. \A p \in Procs : ~Recording(p)
    BY DEF Init, Recording
  <2>3. \A o \in Requests : owner[o] # "storing"
    BY DEF Init
  <2> QED BY <2>1, <2>2, <2>3 DEF RotationInv
<1>2. TypeOK /\ RotationInv /\ [Next]_vars => RotationInv'
  BY RotationStep
<1>3. RotationInv => RecordedBackupExists
  BY DEF RotationInv
<1> QED
  BY <1>1, <1>2, <1>3, TypeCorrect, PTL DEF Spec
=============================================================================
