------------------------------- MODULE Purchase -------------------------------
(***************************************************************************)
(* How a reseller buys: the idempotency reservation, the charge against    *)
(* `admins.credit` with its row in `credit_ledger`, the call to Outline,   *)
(* the reversal when the sale does not happen, and the owner's top-ups     *)
(* that run beside it.                                                     *)
(*                                                                         *)
(* Every operation of core/db.py that writes holds the process's           *)
(* `db._lock` and SQLite's single write lock until it commits, so at most  *)
(* one transaction is open in the whole installation: `tx`.  A transaction *)
(* of several statements takes a step per statement, because each `await`  *)
(* lets other coroutines run (and lets the process die); the others take   *)
(* one step, guarded by CanWrite.  Reads take no lock.                     *)
(*                                                                         *)
(* A definition introduced by "Mistake:" is no part of the specification:  *)
(* it is the way the definition below it could be wrong, and the README    *)
(* says which property refutes it.                                         *)
(***************************************************************************)
EXTENDS Integers, FiniteSetsExt

CONSTANTS
  Procs,          \* OS processes: uvicorn workers and the standalone bot
  Admins,         \* resellers
  Orders,         \* attempts to buy: one coroutine each, a retry is another
  Adjustments,    \* the owner's POST /admins/{id}/credit requests
  Keys,           \* scoped idempotency keys "{admin id}:{header}"
  NoKey,          \* the request carries no Idempotency-Key
  NoOp,           \* nobody
  HomeOf,         \* the process each request runs in
  AdminOf,        \* whose credit it moves
  Amount,         \* the price of an order, the delta of an adjustment
  KeyOf,          \* the idempotency key of an order
  BodyOf,         \* the hash of its method, path and body
  Creates,        \* the orders that create a key (the others renew one)
  BadPackage,     \* the orders whose body names no package still on sale
  InitialCredit,  \* balances on which the ledger already agrees
  MaxCrashes,     \* bound: how many times a process dies
  DbMayFail       \* whether a statement may fail (busy, disk full)

Ops == Orders \cup Adjustments

ASSUME ConstantsAssumption ==
  /\ Orders \cap Adjustments = {}
  /\ NoOp \notin Ops
  /\ NoKey \notin Keys
  /\ HomeOf \in [Ops -> Procs]
  /\ AdminOf \in [Ops -> Admins]
  /\ Amount \in [Ops -> Int]
  /\ \A r \in Orders : Amount[r] >= 0
  /\ KeyOf \in [Orders -> Keys \cup {NoKey}]
  /\ Creates \subseteq Orders
  /\ BadPackage \subseteq Orders
  /\ InitialCredit \in [Admins -> Nat]
  /\ MaxCrashes \in Nat
  /\ DbMayFail \in BOOLEAN

VARIABLES
  credit,      \* admins.credit, committed
  ledger,      \* SUM(delta) of an admin's credit_ledger rows, committed
  account,     \* the admins row: on credit, not on credit, or gone
  tx,          \* the open transaction of charge() or credit_admin()
  rows,        \* the idempotency table
  pc,          \* where each request stands
  pays,        \* on_credit(admin) as the request read it on arrival
  reply,       \* the order whose result a request answered with
  crashes,
  paid,        \* history: orders charged and not reversed
  out,         \* history: orders whose key or volume Outline has
  delivered,   \* history: orders whose goods the database has as well
  unreserved,  \* history: orders that went on without a row of their own
  pruned       \* history: keys whose row the housekeeping deleted

vars == <<credit, ledger, account, tx, rows, pc, pays, reply, crashes,
          paid, out, delivered, unreserved, pruned>>
money == <<credit, ledger, tx, paid>>
history == <<out, delivered, unreserved, pruned>>

Terminal == {"ok", "failed", "refused", "replayed", "error", "crashed"}
Running  == {"claim", "lookup", "buy", "sell", "store", "reverse", "abandon",
             "tag", "finish", "adjust"}
Live(op) == pc[op] \in Running

NoTx  == [op |-> NoOp, credit |-> 0, ledger |-> 0, logged |-> FALSE]
NoRow == [st |-> "none", by |-> NoOp, answer |-> NoOp]

\* Nobody holds the write lock.
Idle == tx = NoTx

\* Mistake: the collision lets another coroutine of its process write first.
LockReleasedBeforeLookup(w) == Idle

\* A process sends its statements to SQLite in order, and one whose INSERT just
\* collided queues its SELECT before it lets another coroutine have db._lock.
CanWriteAt(w) == Idle /\ \A r \in Orders : pc[r] = "lookup" => HomeOf[r] # w
CanWrite(op) == CanWriteAt(HomeOf[op])
SomeoneCanWrite == \E w \in Procs : CanWriteAt(w)

\* The request came with an Idempotency-Key.
Holds(r) == KeyOf[r] # NoKey

Goto(op, there) == pc' = [pc EXCEPT ![op] = there]

TypeOK ==
  /\ credit \in [Admins -> Int]
  /\ ledger \in [Admins -> Int]
  /\ account \in [Admins -> {"open", "frozen", "deleted"}]
  /\ tx \in [op : Ops \cup {NoOp}, credit : Int, ledger : Int, logged : BOOLEAN]
  /\ rows \in [Keys -> [st : {"none", "running", "done"},
                        by : Orders \cup {NoOp}, answer : Orders \cup {NoOp}]]
  /\ pc \in [Ops -> {"idle"} \cup Running \cup Terminal]
  /\ pays \in [Orders -> BOOLEAN]
  /\ reply \in [Orders -> Orders \cup {NoOp}]
  /\ crashes \in 0..MaxCrashes
  /\ paid \subseteq Orders
  /\ out \subseteq Orders
  /\ delivered \subseteq Orders
  /\ unreserved \subseteq Orders
  /\ pruned \subseteq Keys

Init ==
  /\ credit = InitialCredit
  /\ ledger = InitialCredit
  /\ account = [a \in Admins |-> "open"]
  /\ tx = NoTx
  /\ rows = [k \in Keys |-> NoRow]
  /\ pc = [op \in Ops |-> "idle"]
  /\ pays = [r \in Orders |-> FALSE]
  /\ reply = [r \in Orders |-> NoOp]
  /\ crashes = 0
  /\ paid = {} /\ out = {} /\ delivered = {} /\ unreserved = {} /\ pruned = {}

-----------------------------------------------------------------------------
(* begin(): reserve the key, or find out who did *)

\* current_admin loads the row the whole request then works from.
Arrive(r) ==
  /\ pc[r] = "idle"
  /\ account[AdminOf[r]] # "deleted"
  /\ pays' = [pays EXCEPT ![r] = account[AdminOf[r]] = "open"]
  /\ Goto(r, IF Holds(r) THEN "claim" ELSE "buy")
  /\ UNCHANGED <<money, account, rows, reply, crashes, history>>

\* The INSERT succeeds: the row is this request's reservation.
Reserve(r) ==
  /\ pc[r] = "claim" /\ CanWrite(r)
  /\ rows[KeyOf[r]].st = "none"
  /\ rows' = [rows EXCEPT ![KeyOf[r]] = [st |-> "running", by |-> r, answer |-> NoOp]]
  /\ Goto(r, "buy")
  /\ UNCHANGED <<money, account, pays, reply, crashes, history>>

\* IntegrityError: roll back, let go of the lock, and only then SELECT the row.
Collide(r) ==
  /\ pc[r] = "claim" /\ CanWrite(r)
  /\ rows[KeyOf[r]].st # "none"
  /\ Goto(r, "lookup")
  /\ UNCHANGED <<money, account, rows, pays, reply, crashes, history>>

\* The row is gone by the time of the SELECT: `None` tells begin() it owns it.
LookupMiss(r) ==
  /\ pc[r] = "lookup"
  /\ rows[KeyOf[r]].st = "none"
  /\ unreserved' = unreserved \cup {r}
  /\ Goto(r, "buy")
  /\ UNCHANGED <<money, account, rows, pays, reply, crashes, out, delivered, pruned>>

\* Mistake: the fingerprint is stored and never compared.
AnyOrder(r) == TRUE

SameOrder(r) == BodyOf[rows[KeyOf[r]].by] = BodyOf[r]

\* Mistake: a refused retry releases the reservation of the first attempt.
RefusalAbandons(r) ==
  /\ pc[r] = "lookup" /\ rows[KeyOf[r]].st = "running"
  /\ Goto(r, "abandon")
  /\ UNCHANGED <<money, account, rows, pays, reply, crashes, history>>

\* 422 for another order under this key, 409 while the first is running.
Refuse(r) ==
  /\ pc[r] = "lookup"
  /\ rows[KeyOf[r]].st # "none"
  /\ ~SameOrder(r) \/ rows[KeyOf[r]].st = "running"
  /\ Goto(r, "refused")
  /\ UNCHANGED <<money, account, rows, pays, reply, crashes, history>>

Replay(r) ==
  /\ pc[r] = "lookup"
  /\ rows[KeyOf[r]].st = "done"
  /\ SameOrder(r)
  /\ reply' = [reply EXCEPT ![r] = rows[KeyOf[r]].answer]
  /\ Goto(r, "replayed")
  /\ UNCHANGED <<money, account, rows, pays, crashes, history>>

-----------------------------------------------------------------------------
(* _buy(): take the money before Outline is called *)

\* Mistake: charge() and its caller each ask for themselves who is on credit.
BuyNothingNow(r) ==
  /\ pc[r] = "buy" /\ account[AdminOf[r]] # "open"
  /\ Goto(r, "sell")
  /\ UNCHANGED <<money, account, rows, pays, reply, crashes, history>>

\* Not on credit: no purchase, the free-form path.
BuyNothing(r) ==
  /\ pc[r] = "buy"
  /\ ~pays[r]
  /\ Goto(r, "sell")
  /\ UNCHANGED <<money, account, rows, pays, reply, crashes, history>>

\* Mistake: the UPDATE has no `AND credit >= ?`.
EnabledOnly(r) == account[AdminOf[r]] = "open"

\* The WHERE of the charge matches the admin.
Covers(r) == account[AdminOf[r]] = "open" /\ credit[AdminOf[r]] >= Amount[r]

\* UPDATE admins SET credit = credit - price WHERE credit_enabled = 1 AND credit >= price
ChargeUpdate(r) ==
  /\ pc[r] = "buy" /\ CanWrite(r)
  /\ pays[r] /\ r \notin BadPackage
  /\ Covers(r)
  /\ tx' = [op |-> r, credit |-> -Amount[r], ledger |-> 0, logged |-> FALSE]
  /\ UNCHANGED <<credit, ledger, paid, account, rows, pc, pays, reply, crashes, history>>

\* The UPDATE matched no row, or there is no such package: 402 or 400.
ChargeRefused(r) ==
  /\ pc[r] = "buy" /\ CanWrite(r)
  /\ pays[r]
  /\ r \in BadPackage \/ ~Covers(r)
  /\ Goto(r, "abandon")
  /\ UNCHANGED <<money, account, rows, pays, reply, crashes, history>>

\* Mistake: a reversal is written to the ledger as another charge.
AlwaysOut(op) == IF op \in Orders THEN -Amount[op] ELSE Amount[op]

\* What a transaction adds to the ledger: the price out, the price back, the delta.
Movement(op) == IF pc[op] = "buy" THEN -Amount[op] ELSE Amount[op]

\* _ledger(): the row goes in whether or not the admin still exists.
LedgerInsert(op) ==
  /\ tx.op = op /\ ~tx.logged
  /\ tx' = [tx EXCEPT !.ledger = Movement(op), !.logged = TRUE]
  /\ UNCHANGED <<credit, ledger, paid, account, rows, pc, pays, reply, crashes, history>>

\* Mistake: a reversal is tried again although it has committed.
ReverseAgain(op) ==
  CASE pc[op] = "buy" -> "sell" [] pc[op] = "reverse" -> "reverse" [] OTHER -> "ok"

\* Where charge(), a reversal and a top-up go on once they have committed.
AfterCommit(op) ==
  CASE pc[op] = "buy"     -> "sell"
    [] pc[op] = "reverse" -> "abandon"
    [] OTHER              -> "ok"

PaidAfterCommit(op) ==
  CASE pc[op] = "buy"     -> paid \cup {op}
    [] pc[op] = "reverse" -> paid \ {op}
    [] OTHER              -> paid

Commit(op) ==
  /\ tx.op = op /\ tx.logged
  /\ credit' = [credit EXCEPT ![AdminOf[op]] = @ + tx.credit]
  /\ ledger' = [ledger EXCEPT ![AdminOf[op]] = @ + tx.ledger]
  /\ paid' = PaidAfterCommit(op)
  /\ tx' = NoTx
  /\ Goto(op, AfterCommit(op))
  /\ UNCHANGED <<account, rows, pays, reply, crashes, history>>

-----------------------------------------------------------------------------
(* The sale, and giving the money back *)

\* Outline is told first: the key exists there, or the raised limit holds.
HandsOver(r) ==
  /\ pc[r] = "sell"
  /\ out' = out \cup {r}
  /\ Goto(r, "store")
  /\ UNCHANGED <<money, account, rows, pays, reply, crashes, delivered, unreserved, pruned>>

\* The rest of create_key_for or _apply_package commits.  Only a bought key is tagged.
Deliver(r) ==
  /\ pc[r] = "store"
  /\ delivered' = delivered \cup {r}
  /\ Goto(r, IF r \in Creates /\ pays[r] THEN "tag" ELSE "finish")
  /\ UNCHANGED <<money, account, rows, pays, reply, crashes, out, unreserved, pruned>>

\* Mistake: the error path answers without giving the price back.
AbandonsAtOnce(r) == Goto(r, "abandon")

\* What the caller does with a sale that raised.
GiveUp(r) == Goto(r, IF pays[r] THEN "reverse" ELSE "abandon")

\* Outline cannot be reached or refuses: but an answer that got lost is an error
\* too, and then Outline has done what it was asked.
SaleFails(r) ==
  /\ pc[r] = "sell"
  /\ GiveUp(r)
  /\ out' \in {out, out \cup {r}}
  /\ UNCHANGED <<money, account, rows, pays, reply, crashes, delivered, unreserved, pruned>>

\* A statement fails when Outline is done.  A new key is deleted there again, if
\* that call gets through; a limit that was raised stays raised.
StoreFails(r) ==
  /\ DbMayFail
  /\ pc[r] = "store"
  /\ GiveUp(r)
  /\ out' \in {out} \cup (IF r \in Creates THEN {out \ {r}} ELSE {})
  /\ UNCHANGED <<money, account, rows, pays, reply, crashes, delivered, unreserved, pruned>>

\* Mistake: credit_admin() has the `AND credit_enabled = 1` of charge().
CreditIfEnabled(op) ==
  /\ pc[op] \in {"reverse", "adjust"} /\ CanWrite(op)
  /\ tx' = [op |-> op, ledger |-> 0, logged |-> FALSE,
            credit |-> IF account[AdminOf[op]] # "open" THEN 0 ELSE Amount[op]]
  /\ UNCHANGED <<credit, ledger, paid, account, rows, pc, pays, reply, crashes, history>>

\* _reverse() and add_credit(): credit_admin's UPDATE, unconditional but for the id.
CreditUpdate(op) ==
  /\ pc[op] \in {"reverse", "adjust"} /\ CanWrite(op)
  /\ tx' = [op |-> op, ledger |-> 0, logged |-> FALSE,
            credit |-> IF account[AdminOf[op]] = "deleted" THEN 0 ELSE Amount[op]]
  /\ UNCHANGED <<credit, ledger, paid, account, rows, pc, pays, reply, crashes, history>>

\* DELETE FROM idempotency WHERE key = ? AND status IS NULL, whoever inserted it.
Abandon(r) ==
  /\ pc[r] = "abandon"
  /\ Holds(r) => CanWrite(r)
  /\ rows' = IF Holds(r) /\ rows[KeyOf[r]].st = "running"
               THEN [rows EXCEPT ![KeyOf[r]] = NoRow]
               ELSE rows
  /\ Goto(r, "failed")
  /\ UNCHANGED <<money, account, pays, reply, crashes, history>>

\* tag_ledger(): points the charge at its key; moves no money.
Tag(r) ==
  /\ pc[r] = "tag" /\ CanWrite(r)
  /\ Goto(r, "finish")
  /\ UNCHANGED <<money, account, rows, pays, reply, crashes, history>>

Answered(row, r) == [st |-> "done", by |-> row.by, answer |-> r]

\* done(): UPDATE idempotency SET status = 200, response = ?.
Finish(r) ==
  /\ pc[r] = "finish"
  /\ Holds(r) => CanWrite(r)
  /\ rows' = IF Holds(r) /\ rows[KeyOf[r]].st # "none"
               THEN [rows EXCEPT ![KeyOf[r]] = Answered(@, r)]
               ELSE rows
  /\ reply' = [reply EXCEPT ![r] = r]
  /\ Goto(r, "ok")
  /\ UNCHANGED <<money, account, pays, crashes, history>>

-----------------------------------------------------------------------------
(* A statement that fails where the code has a handler for it *)

\* charge() and credit_admin() roll back and raise; _reverse() swallows it.
TxFails(op) ==
  /\ DbMayFail
  /\ \/ tx.op = op
     \/ CanWrite(op) /\ pc[op] \in {"buy", "reverse", "adjust"} /\ (pc[op] = "buy" => pays[op])
  /\ tx' = NoTx
  /\ Goto(op, IF pc[op] = "adjust" THEN "error" ELSE "abandon")
  /\ UNCHANGED <<credit, ledger, paid, account, rows, pays, reply, crashes, history>>

\* Mistake: a charge that could not be tagged is given back, as a failed sale is.
ReversesUntagged(r) ==
  CASE pc[r] = "abandon" -> "failed"
    [] pc[r] = "finish"  -> "ok"
    [] pc[r] = "tag"     -> "reverse"
    [] OTHER             -> "error"

\* claim and tag_ledger raise to the client; abandon() and done() log and go on.
AfterFailure(r) ==
  CASE pc[r] = "abandon" -> "failed"
    [] pc[r] = "finish"  -> "ok"
    [] OTHER             -> "error"

WriteFails(r) ==
  /\ DbMayFail
  /\ pc[r] \in {"claim", "tag", "abandon", "finish"}
  /\ pc[r] \in {"abandon", "finish"} => Holds(r)
  /\ Goto(r, AfterFailure(r))
  /\ reply' = IF pc[r] = "finish" THEN [reply EXCEPT ![r] = r] ELSE reply
  /\ UNCHANGED <<money, account, rows, pays, crashes, history>>

-----------------------------------------------------------------------------
(* The owner, the housekeeping and the machine *)

\* What a SELECT of process w sees: committed state and w's own open transaction.
SeenCredit(w, a) ==
  credit[a] + IF ~Idle /\ HomeOf[tx.op] = w /\ AdminOf[tx.op] = a THEN tx.credit ELSE 0
SeenLedger(w, a) ==
  ledger[a] + IF ~Idle /\ HomeOf[tx.op] = w /\ AdminOf[tx.op] = a THEN tx.ledger ELSE 0

\* add_credit() reads the balance, decides, and only then calls credit_admin().
AdjustCheck(t) ==
  /\ pc[t] = "idle"
  /\ Goto(t, IF /\ account[AdminOf[t]] # "deleted"
                /\ Amount[t] # 0
                /\ SeenCredit(HomeOf[t], AdminOf[t]) + Amount[t] >= 0
             THEN "adjust" ELSE "refused")
  /\ UNCHANGED <<money, account, rows, pays, reply, crashes, history>>

\* edit_admin() turns credit_enabled off or on again.
SetCreditEnabled(a) ==
  /\ SomeoneCanWrite /\ account[a] # "deleted"
  /\ account' = [account EXCEPT ![a] = IF @ = "open" THEN "frozen" ELSE "open"]
  /\ UNCHANGED <<money, rows, pc, pays, reply, crashes, history>>

\* remove_admin(): the admins row goes, its ledger stays.
RemoveAdmin(a) ==
  /\ SomeoneCanWrite /\ account[a] # "deleted"
  /\ account' = [account EXCEPT ![a] = "deleted"]
  /\ UNCHANGED <<money, rows, pc, pays, reply, crashes, history>>

\* Mistake: only the reservations that were answered are pruned.
PruneAnswered(k) ==
  /\ SomeoneCanWrite /\ rows[k].st = "done"
  /\ rows' = [rows EXCEPT ![k] = NoRow]
  /\ pruned' = pruned \cup {k}
  /\ UNCHANGED <<money, account, pc, pays, reply, crashes, out, delivered, unreserved>>

\* prune_idempotency(now - 86400): the request that inserted the row is long over.
Prune(k) ==
  /\ SomeoneCanWrite
  /\ rows[k].st # "none" /\ ~Live(rows[k].by)
  /\ rows' = [rows EXCEPT ![k] = NoRow]
  /\ pruned' = pruned \cup {k}
  /\ UNCHANGED <<money, account, pc, pays, reply, crashes, out, delivered, unreserved>>

\* A process dies: its coroutines vanish and SQLite discards its open transaction.
Crash(w) ==
  /\ crashes < MaxCrashes
  /\ crashes' = crashes + 1
  /\ pc' = [op \in Ops |-> IF Live(op) /\ HomeOf[op] = w THEN "crashed" ELSE pc[op]]
  /\ tx' = IF ~Idle /\ HomeOf[tx.op] = w THEN NoTx ELSE tx
  /\ UNCHANGED <<credit, ledger, paid, account, rows, pays, reply, history>>

-----------------------------------------------------------------------------

\* Everything a request does by itself once it has arrived.
Step(r) ==
  \/ Reserve(r) \/ Collide(r) \/ LookupMiss(r) \/ Refuse(r) \/ Replay(r)
  \/ BuyNothing(r) \/ ChargeUpdate(r) \/ ChargeRefused(r)
  \/ HandsOver(r) \/ Deliver(r) \/ SaleFails(r) \/ StoreFails(r)
  \/ Abandon(r) \/ Tag(r) \/ Finish(r) \/ WriteFails(r)

TxStep(op) == CreditUpdate(op) \/ LedgerInsert(op) \/ Commit(op) \/ TxFails(op)

Next ==
  \/ \E r \in Orders : Arrive(r) \/ Step(r)
  \/ \E op \in Ops : TxStep(op)
  \/ \E t \in Adjustments : AdjustCheck(t)
  \/ \E a \in Admins : SetCreditEnabled(a) \/ RemoveAdmin(a)
  \/ \E k \in Keys : Prune(k)
  \/ \E w \in Procs : Crash(w)

Spec == Init /\ [][Next]_vars

\* The event loop runs every ready coroutine, and the scheduler's housekeeping
\* is repeated for ever.  Nobody is obliged to send a request or to crash.
Fairness ==
  /\ \A r \in Orders : WF_vars(Step(r) \/ TxStep(r))
  /\ \A t \in Adjustments : WF_vars(TxStep(t))
  /\ \A k \in Keys : WF_vars(Prune(k))

FairSpec == Spec /\ Fairness

-----------------------------------------------------------------------------
(* What must hold *)

\* The balance a purchase is checked against is the one the ledger explains,
\* for every admin who still exists: through crashes between the UPDATE and the
\* ledger row, failed statements, and removals while a sale is in flight
\* (DB.charge, DB.credit_admin, DB.ledger_sum).
LedgerAgrees ==
  \A a \in Admins : account[a] # "deleted" => credit[a] = ledger[a]

\* Amounts of several requests together, and whose requests move an admin's money.
Total(S) == MapThenSumSet(LAMBDA op : Amount[op], S)
PaidBy(a) == {r \in paid : AdminOf[r] = a}
GrantedTo(a) == {t \in Adjustments : AdminOf[t] = a /\ pc[t] = "ok"}

\* The ledger is explained by the orders that are paid for and by the
\* adjustments granted, each in full and once (DB._ledger's callers).
EveryMovementIsExplained ==
  \A a \in Admins :
     ledger[a] = InitialCredit[a] + Total(GrantedTo(a)) - Total(PaidBy(a))

\* Sales that overlap never spend the same credit twice: DB.charge never
\* overdraws, however many processes sell for one admin.
NoOverdraft == \A a \in Admins : credit[a] >= 0

\* Outline never has goods of a paying order that are not paid for, from the moment
\* it is asked for them and whatever fails afterwards, unless the order is being
\* answered with an error (create_key, extend_key, create_key_for, _apply_package).
NoFreeGoods ==
  \A r \in out : pays[r] /\ r \notin paid =>
     pc[r] \in {"abandon", "failed", "crashed"} /\ r \notin delivered

\* An order that is answered with an error leaves nothing behind on Outline either:
\* what _reverse() says of it ("Nothing was bought here").
NothingLeaks == \A r \in out : pays[r] => r \in paid

\* A request that was answered with an error, or with an earlier answer, has
\* cost nothing by itself (_reverse before abandon, begin before _buy).
FailureIsFree ==
  \A r \in Orders : pc[r] \in {"failed", "refused", "replayed"} => r \notin paid

\* Every attempt under the key holds, or found, its row: no LookupMiss on it.
Undisturbed(k) ==
  k \notin pruned /\ \A r \in unreserved : KeyOf[r] # k

\* A charge that landed keeps its row, so that a retry cannot charge again: true
\* of every key whose attempts all found the row they collided with.
ChargeKeepsItsRow ==
  \A r \in paid : Holds(r) /\ Undisturbed(KeyOf[r]) =>
     rows[KeyOf[r]].st # "none" /\ rows[KeyOf[r]].by = r

\* Two attempts under one key are never both past the claim: what
\* DB.claim_idempotency says of the INSERT.
TwoRetriesCannotBothProceed ==
  \A r, q \in Orders :
     /\ r # q /\ Holds(r) /\ KeyOf[r] = KeyOf[q]
     /\ KeyOf[r] \notin pruned
     => ~({pc[r], pc[q]} \subseteq {"buy", "sell", "store", "reverse", "tag", "finish"})

\* A replay hands out the answer of an order for the same thing, whose goods
\* were delivered (begin's hash comparison, done after the work).
ReplayIsTheSameSale ==
  \A r \in Orders : pc[r] = "replayed" /\ Undisturbed(KeyOf[r]) =>
     reply[r] \in delivered /\ BodyOf[reply[r]] = BodyOf[r]

\* Under one key goods are handed over once, however often and wherever it is retried,
\* whatever fails or dies, unless one attempt was told that it failed; and whoever is told
\* of a sale is told of that one ("making a retried purchase safe to send twice").
GoodsComeOnce ==
  \A r, q \in out :
     r # q /\ Holds(r) /\ KeyOf[r] = KeyOf[q] /\ Undisturbed(KeyOf[r]) =>
       "failed" \in {pc[r], pc[q]}

OneSalePerKey == ReplayIsTheSameSale /\ GoodsComeOnce

\* abandon() is only reached on a path that charged nothing or reversed it: the
\* contract of Purchase.abandon.
AbandonedChargedNothing == \A r \in Orders : pc[r] = "abandon" => r \notin paid

\* What credit_drift() reports if it runs now, in process w.
Drift(w) ==
  {a \in Admins : account[a] # "deleted" /\ SeenCredit(w, a) # SeenLedger(w, a)}

\* No coroutine that runs credit_drift() now would find an admin whose balance
\* disagrees with the ledger.
NoFalseDrift == \A w \in Procs : Drift(w) = {}

\* It reads what its own process has not committed yet, so it may report an admin
\* whose books are in order; but only the one whose charge, reversal or top-up is
\* half done there, and by no more than that movement.
DriftIsOneMovement ==
  \A w \in Procs : \A a \in Drift(w) :
    /\ ~Idle /\ HomeOf[tx.op] = w /\ AdminOf[tx.op] = a /\ ~tx.logged
    /\ SeenCredit(w, a) - SeenLedger(w, a) = Movement(tx.op)

\* The books agree as committed, and a reconciliation in the middle of a movement
\* is wrong by that movement and no other.
BooksAgree == LedgerAgrees /\ DriftIsOneMovement

\* Money does not stay in limbo: a charge ends as goods delivered or as a
\* reversal, unless the process died over it.
PaidSettles ==
  \A r \in Orders :
     r \in paid ~> (r \in delivered \/ r \notin paid \/ pc[r] = "crashed")

\* A reservation is not for ever, even if its holder died: it is finished,
\* released, or pruned (scheduler._check_once).
ReservationEnds ==
  \A k \in Keys : rows[k].st = "running" ~> rows[k].st # "running"

-----------------------------------------------------------------------------
(* Purchase implements Till *)

SaleOf(r) ==
  CASE r \in paid /\ r \in delivered    -> "sold"
    [] r \in paid /\ r \notin delivered -> "held"
    [] r \notin paid /\ r \in delivered -> "given"
    [] OTHER -> IF pc[r] \notin {"abandon"} \cup Terminal THEN "open"
                ELSE IF r \in out THEN "leaked" ELSE "void"

Abstract == INSTANCE Till WITH
  balance <- credit,
  sale    <- [r \in Orders |-> SaleOf(r)],
  granted <- {t \in Adjustments : pc[t] = "ok"},
  closed  <- {a \in Admins : account[a] = "deleted"}

\* Every step of the statements, crashes and retries is a step of the till, or
\* none: the whole price at once, covered, charged and returned at most once.
SellsLikeATill == Abstract!TillSpec
=============================================================================
