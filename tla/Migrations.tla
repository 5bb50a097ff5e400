------------------------------ MODULE Migrations ------------------------------
(***************************************************************************)
(* DB._migrate(): processes that start bring the schema up to date, step   *)
(* by numbered step.  Outside a transaction DDL takes effect at once; the  *)
(* first INSERT or UPDATE of a step opens a transaction, which everything  *)
(* after it joins and the commit at the end of the step closes.  Several   *)
(* processes may start on one file (web workers, the bot) and any of them  *)
(* may die at any statement.                                               *)
(*                                                                         *)
(* Steps 002 to 005 only create objects and are one step here, so that the *)
(* steps are: 1 the baseline, 2 objects, 3 customer links (006), 4 the     *)
(* owner's second factor (007).  A customer is a row of `keys`.            *)
(* A definition introduced by "Mistake:" is no part of the specification.  *)
(***************************************************************************)
EXTENDS Integers, Sequences, FiniteSets, SequencesExt

CONSTANTS
  Procs,      \* processes that use the file; also the names of the links they mint
  Customers,  \* whoever has a key before the upgrade
  None,       \* NULL, no process, no table
  MaxCrashes  \* bound

ASSUME ConstantsAssumption ==
  /\ None \notin Procs /\ \A S \in SUBSET Customers : S # None
  /\ IsFiniteSet(Customers) /\ MaxCrashes \in Nat

VARIABLES
  db,       \* the file, as committed
  tx,       \* the transaction that holds the write lock: whose, and its database
  phase,    \* each process: "down", "boot", "up"
  at,       \* the step it is at
  todo,     \* the statements left of that step
  crashes,  \* how many more there may be
  hist      \* history: together, two started at once; halted, one died in a start

vars == <<db, tx, phase, at, todo, crashes, hist>>
procs == <<phase, at, todo>>

Newest == 4

\* keys: the table is missing, has no server_id ("legacy"), lacks later columns
\* ("early") or is complete. old: the rows of keys_old, if there is such a table.
Databases ==
  [version : 0..Newest, keys : {"none", "legacy", "early", "current"},
   rows : SUBSET Customers, old : (SUBSET Customers) \cup {None},
   link : [Customers -> Procs \cup {None}], objects : BOOLEAN,
   column : BOOLEAN, factor : {"none", "on", "off"}, stored : BOOLEAN]

NoTx == [by |-> None, db |-> None]

\* What a step executes: it reads, opens a transaction, or is DDL, the counter, a commit.
Looks == {"look_at_keys", "look_at_columns", "look_at_links", "look_at_factor"}
Data == {"copy", "link", "carry"}
Plain == {"rename", "create", "copy", "drop", "add_columns", "objects",
          "add_factor", "carry", "commit"}
Statements ==
  [does : Looks \cup Plain, of : {None}]
    \cup [does : {"link"}, of : Customers] \cup [does : {"version"}, of : 0..Newest]

TypeOK ==
  /\ db \in Databases
  /\ tx = NoTx \/ (tx.by \in Procs /\ tx.db \in Databases)
  /\ phase \in [Procs -> {"down", "boot", "up"}]
  /\ at \in [Procs -> 0..Newest]
  /\ todo \in [Procs -> Seq(Statements)]
  /\ crashes \in 0..MaxCrashes
  /\ hist \in [together : BOOLEAN, halted : BOOLEAN]

Empty ==
  [version |-> 0, keys |-> "none", rows |-> {}, old |-> None,
   link |-> [c \in Customers |-> None], objects |-> FALSE, column |-> FALSE,
   factor |-> "none", stored |-> FALSE]

\* A new file, and what is deployed: with one server, or with several, where some
\* customers have a link, and with the owner's second factor in `settings` or not.
Init ==
  /\ \/ db = Empty
     \/ \E kind \in {"legacy", "early"}, stored \in BOOLEAN, p \in Procs,
          linked \in SUBSET Customers :
          db = [Empty EXCEPT !.keys = kind, !.rows = Customers, !.stored = stored,
                             !.link = [c \in Customers |->
                               IF kind = "early" /\ c \in linked THEN p ELSE None]]
  /\ tx = NoTx
  /\ phase = [p \in Procs |-> "down"]
  /\ at = [p \in Procs |-> 0]
  /\ todo = [p \in Procs |-> <<>>]
  /\ crashes = MaxCrashes
  /\ hist = [together |-> FALSE, halted |-> FALSE]

Sees(p) == IF tx.by = p THEN tx.db ELSE db

-----------------------------------------------------------------------------
(* Statements: whether one raises, what it does, whether it opens a         *)
(* transaction.  A "look" reads, and the statements it leads to come next.  *)

Do(what) == [does |-> what, of |-> None]
Link(c) == [does |-> "link", of |-> c]

Legal(s, d) ==
  CASE s.does = "rename" -> d.keys # "none" /\ d.old = None
    [] s.does = "copy" -> d.keys # "none" /\ d.old # None /\ d.rows \cap d.old = {}
    [] s.does = "drop" -> d.old # None
    [] s.does = "add_columns" -> d.keys = "early"
    [] s.does = "add_factor" -> ~d.column
    [] OTHER -> TRUE

After(s, d, p) ==
  CASE s.does = "rename" -> [d EXCEPT !.keys = "none", !.rows = {}, !.old = d.rows]
    [] s.does = "create" ->
         IF d.keys = "none" THEN [d EXCEPT !.keys = "early"] ELSE d
    [] s.does = "copy" ->
         [d EXCEPT !.rows = @ \cup d.old,
                   !.link = [c \in Customers |-> IF c \in d.old THEN None ELSE @[c]]]
    [] s.does = "drop" -> [d EXCEPT !.old = None]
    [] s.does = "add_columns" -> [d EXCEPT !.keys = "current"]
    [] s.does = "objects" -> [d EXCEPT !.objects = TRUE]
    [] s.does = "link" ->
         IF s.of \in d.rows THEN [d EXCEPT !.link[s.of] = p] ELSE d
    [] s.does = "add_factor" -> [d EXCEPT !.column = TRUE]
    [] s.does = "carry" -> [d EXCEPT !.factor = "on"]
    [] s.does = "version" -> [d EXCEPT !.version = s.of]

When(b, steps) == IF b THEN steps ELSE <<>>

\* Mistake: the old table goes before its rows are copied.
DropFirst == <<Do("rename"), Do("create"), Do("drop"), Do("copy")>>

\* _migrate_keys
Carried == <<Do("rename"), Do("create"), Do("copy"), Do("drop")>>

\* Steps 002 to 005: CREATE TABLE and CREATE INDEX IF NOT EXISTS.
Objects == <<Do("objects")>>

\* Mistake: every customer gets a link, also those who have one.
AnyLink(d) == d.rows

Unlinked(d) == {c \in d.rows : d.link[c] = None}

\* Mistake: a column is added without a look at the table.
MissingBlindly(d) == <<Do("add_columns")>>

Missing(d) == When(d.keys = "early", <<Do("add_columns")>>)

Found(look, d) ==
  CASE look = "look_at_keys" ->
         IF d.keys = "legacy" THEN Carried ELSE When(d.keys = "none", <<Do("create")>>)
    [] look = "look_at_columns" -> Missing(d)
    [] look = "look_at_links" -> [i \in 1..Cardinality(Unlinked(d)) |->
                                    Link(SetToSeq(Unlinked(d))[i])]
    [] look = "look_at_factor" ->
         When(~d.column, <<Do("add_factor")>>) \o When(d.stored, <<Do("carry")>>)

\* Mistake: the version is written when the step begins.
VersionFirst(v, steps) ==
  <<[does |-> "version", of |-> v], Do("commit")>> \o steps \o <<Do("commit")>>

Numbered(v, steps) ==
  steps \o <<[does |-> "version", of |-> v], Do("commit")>>

\* _MIGRATIONS
Migration(v) ==
  Numbered(v, CASE v = 1 -> <<Do("look_at_keys"), Do("look_at_columns")>>
                [] v = 2 -> Objects
                [] v = 3 -> <<Do("look_at_links")>>
                [] v = 4 -> <<Do("look_at_factor")>>)

-----------------------------------------------------------------------------
(* A process starts *)

\* PRAGMA user_version, read once.
Have == db.version

Arrives(p, v) ==
  IF v = Newest THEN /\ phase' = [phase EXCEPT ![p] = "up"]
                   /\ at' = at /\ todo' = todo
  ELSE /\ phase' = [phase EXCEPT ![p] = "boot"]
       /\ at' = [at EXCEPT ![p] = v + 1]
       /\ todo' = [todo EXCEPT ![p] = Migration(v + 1)]

Starts(p) ==
  /\ phase[p] = "down"
  /\ Arrives(p, Have)
  /\ hist' = [hist EXCEPT !.together = @ \/ \E q \in Procs : phase[q] = "boot"]
  /\ UNCHANGED <<db, tx, crashes>>

NextStep(p) ==
  /\ phase[p] = "boot" /\ todo[p] = <<>>
  /\ Arrives(p, at[p])
  /\ UNCHANGED <<db, tx, crashes, hist>>

Now(p) == Head(todo[p])
AtStatement(p) == phase[p] = "boot" /\ todo[p] # <<>>
Free(p) == tx.by \in {p, None}

Reads(p) ==
  /\ AtStatement(p) /\ Now(p).does \in Looks
  /\ todo' = [todo EXCEPT ![p] = Found(Now(p).does, Sees(p)) \o Tail(@)]
  /\ UNCHANGED <<db, tx, phase, at, crashes, hist>>

Executes(p) ==
  /\ AtStatement(p) /\ Now(p).does \notin Looks \cup {"commit"}
  /\ Free(p) /\ Legal(Now(p), Sees(p))
  /\ LET d == After(Now(p), Sees(p), p) IN
       IF tx.by = p \/ Now(p).does \in Data
       THEN tx' = [by |-> p, db |-> d] /\ db' = db
       ELSE db' = d /\ tx' = tx
  /\ todo' = [todo EXCEPT ![p] = Tail(@)]
  /\ UNCHANGED <<phase, at, crashes, hist>>

Commits(p) ==
  /\ AtStatement(p) /\ Now(p).does = "commit"
  /\ IF tx.by = p THEN db' = tx.db /\ tx' = NoTx ELSE UNCHANGED <<db, tx>>
  /\ todo' = [todo EXCEPT ![p] = Tail(@)]
  /\ UNCHANGED <<phase, at, crashes, hist>>

Down(p) ==
  /\ phase' = [phase EXCEPT ![p] = "down"]
  /\ at' = [at EXCEPT ![p] = 0]
  /\ todo' = [todo EXCEPT ![p] = <<>>]
  /\ tx' = IF tx.by = p THEN NoTx ELSE tx
  /\ hist' = [hist EXCEPT !.halted = @ \/ phase[p] = "boot"]

\* A statement is illegal, or waits for another's transaction longer than busy_timeout:
\* the process does not start.
Raises(p) ==
  /\ AtStatement(p) /\ Now(p).does \notin Looks \cup {"commit"}
  /\ ~Free(p) \/ ~Legal(Now(p), Sees(p))
  /\ Down(p)
  /\ UNCHANGED <<db, crashes>>

Crash(p) ==
  /\ crashes > 0 /\ crashes' = crashes - 1
  /\ phase[p] # "down"
  /\ Down(p)
  /\ db' = db

\* The owner switches the second factor off, in a panel that is up.
SwitchesOff(p) ==
  /\ phase[p] = "up" /\ db.factor = "on" /\ tx = NoTx
  /\ db' = [db EXCEPT !.factor = "off"]
  /\ UNCHANGED <<tx, procs, crashes, hist>>

Goes(p) == Starts(p) \/ NextStep(p) \/ Reads(p) \/ Executes(p) \/ Commits(p)

Next == \E p \in Procs : Goes(p) \/ Raises(p) \/ Crash(p) \/ SwitchesOff(p)

Spec == Init /\ [][Next]_vars

\* A process goes on, raises, or is started again; it is not held up for ever.
FairSpec == Spec /\ \A p \in Procs : WF_vars(Goes(p) \/ Raises(p))

-----------------------------------------------------------------------------
(* What must hold *)

Step(v, d) ==
  CASE v = 1 -> d.keys = "current"
    [] v = 2 -> d.objects
    [] v = 3 -> \A c \in d.rows : d.link[c] # None
    [] v = 4 -> d.column /\ (d.stored => d.factor # "none")

\* No customer's row is ever lost: it is in `keys` or still in keys_old, whatever
\* crashes and whoever migrates at the same time (_migrate_keys: copy, then drop).
Kept(d) == d.rows \cup (IF d.old = None THEN {} ELSE d.old)
NoRowIsLost == [][Kept(db) \subseteq Kept(db')]_vars

\* The counter says what is there ("the steps that did land applied and the counter
\* agreeing with them"), as long as two processes do not migrate at once.
VersionAgrees ==
  ~hist.together => \A v \in 1..db.version : Step(v, db)

\* The types, and the invariant above.
SchemaInv == TypeOK /\ VersionAgrees

\* A start undoes nothing, whatever crashes and however often a step is run: a link once
\* handed out stays ("cannot disturb a subscription that already has a token"), and a
\* second factor the owner has switched off is not brought back from `settings`.
StartsUndoNothing ==
  [][ ~hist'.together =>
        /\ \A c \in Customers : db.link[c] # None => db'.link[c] = db.link[c]
        /\ db.factor = "off" => db'.factor = "off" ]_vars

\* However processes crash and get in each other's way, all of them are up in the end:
\* a step that was half applied can be run again.
EveryoneStarts == <>[](\A p \in Procs : phase[p] = "up")

\* What the code says and does not do. "Every step must be re-runnable", and IF NOT
\* EXISTS is "the one thing that makes a half-applied step recoverable" (_migrate): a
\* panel that is up has all its customers.
HalfAppliedIsRecoverable ==
  (\E p \in Procs : phase[p] = "up") /\ ~hist.together => db.old = None
=============================================================================
