# Outline Panel in TLA+

Outline Panel lets resellers ("admins") sell Outline VPN keys against prepaid
credit. Coroutines of one Python process share a single SQLite connection;
several processes (web workers and the standalone Telegram bot) share the
database file; every one of them runs the scheduler loop. What is hard about it
is in that sharing, and in sales that touch two systems (the database and an
Outline server) without a common transaction. This directory holds TLA+ models
of that logic, the TLC runs that check them on small instances, and theorems
that hold for every instance, checked by TLAPS.

Paths below are relative to `src/outline_panel/`.

## The system

| Component | State | Operations | Interacts through | What must be right |
|---|---|---|---|---|
| Credit and ledger (`core/db.py`, `web/routers/keys.py`, `web/routers/admins.py`) | `admins.credit`, `credit_ledger` | `charge`, `credit_admin`, `tag_ledger`, `credit_drift`, top-up | every sale | no overdraft; balance = ledger; a failed sale costs nothing, a delivered one is paid |
| Idempotent purchases (`web/idempotency.py`) | table `idempotency` | `begin`, `done`, `abandon`, prune | wraps `create_key`, `extend_key` | one charge per key; a replay is the answer to the same order |
| Scheduler (`core/scheduler.py`) | row of `locks`, per-process `notified` | lease, pass, sleep | every key, settings, backups, alerts | one pass at a time unless one outlasts its lease; a dead leader is replaced |
| Backups (`core/backup.py`, `web/routers/backup.py`) | snapshot files, `backup_last_ts` | scheduled and manual snapshot, rotate, export, restore | scheduler, owner | one per interval; the newest survives; an export is one state |
| Key lifecycle (`web/routers/keys.py`, scheduler) | table `keys`, limits on Outline | create, extend, limit, quota, enable, disable, activate, reset, expire | two writers: routes and pass | no lost renewal; expired is off, renewed is on; always metered |
| Subscriptions (`keys.py`, `web/routers/subscription.py`) | `sub_token`, mirrors, page cache | rotate, mirror, unlink, collect, invalidate | Outline, cache | allowance and expiry survive rotation; nothing half-built; no stale page |
| SQLite connection (`core/db.py`) | open transaction, snapshot | statements, commit, rollback | everything | a failed write does not wedge the process |
| Migrations (`core/db.py`) | `user_version`, the schema | versioned steps | start-up of every process | a crash in a step is recoverable; no row is lost |
| Registry, Outline client | servers in memory, metric cache | sync, add, remove, fetch | all routes | memory follows the table |
| Admins, sessions, rights (`web/routers/auth.py`, `core/rights.py`) | `admins`, rate events, the second factor in two places | login, edit, remove, second factor, password | every request | one budget of tries; nobody is locked out |
| Telegram bot, mini app (`bot/`) | bot task, dialogs in memory | start, stop, messages, buttons | rights, same creation as the web | one key per dialog; revoked rights bite |
| Settings, packages, audit, metrics, profile host, UI | key-value rows, price list, log rows | read, write | - | - |

What makes them hard: `await` between any two statements lets every other
coroutine run; `db._lock` covers writes but never reads, so a coroutine can read
its own process's uncommitted statement; the lock is per process, SQLite's is
not; a process may die at any step; clients retry; Outline answers late or not
at all; a pass of the scheduler works for a long time from what it read at its
start. `PROJECT.json` lists these hazards one by one at the line where they bite,
with the properties that are about them.

## Modules

| Module | What it is |
|---|---|
| `Till` | abstract: what selling on credit promises |
| `Purchase` | idempotency, credit and ledger, the sale and its reversal, top-ups, removal, pruning, crashes, failing statements |
| `PurchaseProofs` | theorems about `Purchase`, and that it implements `Till` |
| `Scheduler` | the lease and the loop, and the scheduled snapshot |
| `SchedulerProofs` | theorems about `Scheduler` |
| `KeyLifecycle` | one key: the routes that change it, the scheduler's pass over it, Outline's limit and usage |
| `KeyProofs` | theorems about `KeyLifecycle` |
| `Subscription` | the keys behind one link: create, rotate, mirror, remove, with their cleanup; the page and its cache |
| `SubscriptionProofs` | theorems about the page and its cache, and about the plans |
| `Migrations` | `DB._migrate`, its statements and implicit transactions, processes that start together and die |
| `MigrationsProofs` | theorems about `Migrations` |
| `AtomicStore` | abstract: what the database promises those who write to it |
| `Storage` | connections, locks, transactions; restore, export, snapshots |
| `StorageProofs` | theorems about `Storage`, and that it implements `AtomicStore` |
| `Access` | login, its failure counters, the second factor in its two places, the password |
| `AccessProofs` | theorems about `Access` |
| `Bot` | the dialogs of the Telegram bot, handlers in flight, rights that change, the bot's own life |
| `BotProofs` | theorems about `Bot` |
| `MCPurchase`, `MCScheduler`, `MCKeys`, `MCSubscription`, `MCMigrations`, `MCStorage`, `MCAccess`, `MCBot` | the constants of their instances |

How they fit: `Purchase.HandsOver` and `Purchase.Deliver` are what `KeyLifecycle` and
`Subscription` do to keys step by step, on Outline and in the database; a pass that
`Scheduler` grants is the `Pass` of `KeyLifecycle`; the transactions that `Purchase` and
`Scheduler` take as atomic are made of the statements of `Storage`, and
`TakesEffectAtOnce` is why that is no simplification; `Bot.Creates` is an order of
`Purchase` without a key. They share no variables and are checked one by one.

In all of them a definition introduced by "Mistake:" is not part of the
specification. It is a plausible bug in the definition that follows it, kept to
show that a property is able to fail: with the mistake in place of the
definition, TLC refutes the property the manifest names beside it.

### Purchase

| Code | Model |
|---|---|
| a request's coroutine: `create_key` / `extend_key`; a retry is another | `r \in Orders`, its place `pc[r]` |
| `add_credit` | `t \in Adjustments` |
| committed `admins.credit`, the sum of `credit_ledger` | `credit`, `ledger` |
| statements of `charge` / `credit_admin` not yet committed | `tx`; one at a time in the installation, since a writer holds `db._lock` and SQLite's write lock |
| `idempotency` row: none, `status IS NULL`, `status = 200` | `rows[k].st` |
| `current_admin` loads the admin for the whole request | `Arrive`, `pays` |
| `claim_idempotency`: INSERT; on conflict rollback, release, SELECT | `Reserve`, `Collide`, then `LookupMiss` / `Refuse` / `Replay` |
| `_buy` -> `charge`: UPDATE, ledger INSERT, COMMIT | `BuyNothing`, `ChargeUpdate` / `ChargeRefused`, `LedgerInsert`, `Commit` |
| `create_key_for` / `_apply_package`: Outline's part | `HandsOver`, or `SaleFails`: an `OutlineError`, after which Outline may have done it all the same |
| their writes to the database afterwards | `Deliver`, or `StoreFails`: one raises, a new key is deleted again if that call gets through, a raised limit stays |
| the `except` branches of the callers | `GiveUp` |
| `_reverse` -> `credit_admin` | `CreditUpdate`, `LedgerInsert`, `Commit`; `TxFails` is the exception it swallows |
| `abandon`, `tag_ledger`, `done` | `Abandon`, `Tag`, `Finish`; `WriteFails` when they raise |
| `edit_admin`, `remove_admin`, housekeeping, SIGKILL | `SetCreditEnabled`, `RemoveAdmin`, `Prune`, `Crash` |

`CanWrite` is both locks. It has one subtlety: in one process an INSERT that
collides and the SELECT after it are queued to the connection's thread before
another coroutine of that process gets the lock, so only another *process* can
come between. `paid`, `out`, `delivered`, `unreserved` and `pruned` are history: `out`
are the orders whose goods Outline has, `delivered` those the database knows of as well.
What is done to the key is left out; that it is done in this order, and that each half may
fail, is not. A sale that fails between the halves is reversed and its reservation
released, while the volume, or now and then the key, stays out: so much of what the code
does `NoFreeGoods` and `OneSalePerKey` allow, under an answer that is an error. An order
without a key has `NoKey`, as the bot's have. `Prune` takes a row only when the request that inserted it is over: a request
does not live for a day.

`Till` knows a balance per admin and a state per order (open, held, sold, given,
void, leaked). `Abstract` in `Purchase` maps `credit` to the balance and (`paid`,
`out`, `delivered`, `pc`) to the state of the sale; it is a promise about money, and
"leaked" is an order that ends unpaid with its goods out; `SellsLikeATill` says that every
step of the statements is one step of the till, or none.

### Scheduler

| Code | Model |
|---|---|
| a process from start to death (`holder` is drawn at start) | `p \in Procs`; a restart is another process |
| the row of `locks` | `lock` |
| `nap`, re-read every round | `nap[p]`, chosen from `Naps` in `Ask` |
| `now` in `acquire_lease`, read before the locks are waited for | `mark[p]` while busy |
| end of `asyncio.sleep(nap)` | `mark[p]` while asleep |
| INSERT ... DO NOTHING and UPDATE ... WHERE in one transaction | `Acquire` or `StandBy`, decided by `Grants` |
| the `except` of the loop | `AskFails`, `PassEnds` |
| `maybe_backup`: check, `make_backup` with `prune`, store `backup_last_ts` | `BackupCheck`, `Copy`, `Record` |
| `POST /snapshots`: `make_backup` reads the clock, `VACUUM INTO`, rename and `prune`, `time.time()`, `settings.set` | `BeginSnapshot`, `WriteSnapshot`, `StoreTime`; `SnapshotFails` |
| shutdown or death; `release_lease` is not called | `Die` |

The clock is one integer for all (processes share a host or its time); a sleeper
wakes when its sleep is over, or later. Nothing bounds a round: `Tick` is always
possible, in the middle of a pass too. `Slow` says that a pass has lasted for the
`max(30, nap * 3)` its lease was taken for; `slowest` is the longest round or wait so
far. What the properties allow is put in these terms: passes overlap only if one is
`Slow`, and a lapse is noticed within an interval and the `slowest` round. `recorded` is the
stamp of the snapshot that `backup_last_ts` tells of, `latest` the newest that a pass wrote,
`torn` that the setting may not tell of that one: a pass stopped before it recorded, or
was slow, or an older time was stored over it.

### KeyLifecycle

| Code | Model |
|---|---|
| the row of `keys`; the key on Outline | `row` (NULL is `None`), `out` (`cap` is the data limit, `used` the metered traffic) |
| a route under way; the pass | `todo[w]`: what is left of its plan, one effect per call or commit |
| `extend_key`, `_apply_package` | `ExtendKey` and `RenewKey`: `Extend`, `Renew`, with `LongerTerm` for a term that has, or has not, begun |
| `set_key_limit`, `set_key_monthly`, `reset_usage`, `enable_key`, `disable_key`, `delete_key` | `LimitKey`, `QuotaKey`, `ResetKey`, `EnableKey`, `DisableKey`, `DeleteKey` |
| `ensure_local` | `Adopted`, `Adoption` |
| `_check_once`: activation, quota, expiry | `PassStarts` / `PassReads` / `PassMeasures` / `PassDecides` / `PassExpires`, then effects |
| an `OutlineError`, a refused commit, a crash | `CallFails`, `Stops` |

`disturbed` records that a writer acted while another was half-way, or that one
stopped half-way: nothing in the code serialises routes and pass, and what a
property says of row and Outline agreeing can only hold without that. `inherited`
records that a key made in Outline Manager came with a data limit, which `ensure_local`
does not read: its row says there is none, until the panel sets one. What
customers notice most does not depend on it: `QuotaDoesNotCompound`, `ResetReopens`
and `QuotaComesBack` are unconditional in that respect.

### Subscription

| Code | Model |
|---|---|
| `keys.sub_token`, the row's disabled flag and term | `rows[k]` |
| `create_key_for`, `rotate_key`, `mirror_onto`, `delete_key`, ... | a sequence of steps and a sequence that undoes them; each step says what the code does when it raises |
| `_add_extra_servers`, `bulk_server_membership` | `job[j].extras`, `MirrorNext` |
| `_collect`, `_collect_fresh`, `_cache`, `invalidate` | `Ask`, `Answer`, `PageFails`, `Older`, `Forgets`, in every process |

`asked`, `clash`, `torn` and `stray` are history: tokens an operator took keys
out of, requests that overlapped, a request that broke off, a key whose own
cleanup call failed. `rotate_key` begins with a row, adopted if need be, whether or not
Outline still has the key. Every key of the model has its link: `make_sub_link`, which
mints one for a key without, is left out.

### Migrations

A process is at a statement of a step of `_MIGRATIONS` (`at`, `todo`); `db` is the
file and `tx` the transaction that sqlite3 opens before the first INSERT or
UPDATE. DDL outside it takes effect at once. `Legal` says which statements raise,
and a process whose statement raises, or waits longer than `busy_timeout`, does
not start and is started again (`Raises`, `Starts`). Steps 002 to 005 only create
objects and are one.

### Storage

`conn[p]` is a process's connection (in a transaction or not, what it sees),
`lock[p]` the asyncio lock writers take, `writer` SQLite's write lock. A task is a
list of statements; `Statement`, `Commits`, `RollsBack`, `Fails`, `Busy` are what
may become of one. Which callers roll back is the code's: `charge`,
`credit_admin` and `import_all` do, the bare setters and `acquire_lease` do not.
`export_all` reads without the lock. `make_backup` looks, runs VACUUM INTO the
`.partial` name, and renames. The contents of a table is who wrote it last.

`AtomicStore` knows the tables and who is still waiting: an operation replaces the
tables it is about in one step, or gives up. `Abstract` in `Storage` maps `file` to its
tables and the tasks that have statements left to `asked`; a commit is the effect of
its task, everything else (statements, refusals, reads, leases, crashes) leaves the
file alone. `TakesEffectAtOnce` says so of every behaviour: no lost update, nothing by
halves or twice.

### Access

A tab's request holds the row it read on arrival (`tab[t].mine`) and the writes it
has still to make, each of them a commit. The second factor is in the admin's row
and in `settings`; `WritesOf` is the order in which the new and the old routes
write the two. `Asked` is what login asks a code for. A secret is in `minted` once
an authenticator has it, in `proved` once a code for it was accepted.
At the start the factor is in both places, in `settings` alone, or in neither: migration
007 copies it to the owner's row, but runs before `bootstrap` adds that row to a panel
from before there were admins, and a restored backup may have no such columns. From
`settings` alone, `start_my_2fa` looks at the row, stores a secret there that is not
enabled, and login asks no code any more. An `enable_2fa` cut in two by a crash leads
to the same state. `OnlyDisableSwitchesOff` names that way out (`Hides`) and says
there is no other but the routes that take a password, and that after those, done, no
factor is left.

### Bot

| Code | Model |
|---|---|
| `FSMContext` in the memory of a dispatcher | `chat[g]`, `g` the number of the dispatcher |
| an update's task, waiting in `admin_of`, `db.get_key`, an Outline call | `task[t]`, `todo` the waits to come; what runs between two waits is one action |
| `gate`, `gate_key`, `refuse_free` | `Checks`, `AdminRead`, `OwnerRead`, `IsFree` |
| handlers | `Press`, `TypeFreely`, `TypeName`, `TypeDuration`, `TypeReply`, then `Work` |
| `_finish_create`, `create_key_as` | `Takes`, `Creates` |
| `edit_admin`, `set_key_owner` while a handler waits | `Regrants`, `Reassigns` |
| `set_bot`, `BotManager.start` / `stop`, SIGKILL | `SetBot`, `Crash` |

`had` and `owned` record the rights there were at some time since the message
came: what is read before a wait may be stale after it, and the property asks
only that an effect was allowed at some point of its handling.

## Runs

| Run | Asks | Answer |
|---|---|---|
| `sales` | an order and its retry under one key in two processes, another tab, a top-up, one crash, removal, freezing, pruning | no overdraft, failures are free, a charge keeps its row, every movement of the ledger is explained, all of it is a Till |
| `retries` | three attempts under one key in one process, two different orders, any statement failing, one crash | balance and ledger agree, and whoever compares them at any time finds them apart by at most the one movement being written; goods without payment only under an error, one sale per key unless an attempt was told that it failed, honest replays, one attempt is past the claim |
| `settles` | fairness | every charge settles, every reservation ends |
| `one_scheduler` | two processes, intervals 1 and 2, leases 3 to 6, rounds of any length, the owner's snapshot beside them | passes overlap only if one is slow, a lapse is noticed, one snapshot per interval, the recorded snapshot exists |
| `keys` | two requests, one at a time, beside passes; one failure; five kinds of key and one the panel has no row for, with and without a limit on Outline | cut off only when over and always when over; metered; quotas neither add up nor stay away; the row says what Outline enforces once the panel has set it |
| `subscriptions` | two requests in two processes beside a page being collected, one fault | one config per server, and at least one at every moment; heirs inherit the cut before the link leads to them; cleanup leaves nothing; pages are recent |
| `migrations` | two processes on a new, an early and a legacy file, two crashes | no row is lost, nothing is undone, the version tells the truth, both come up |
| `storage` | any three of seven tasks in two processes, a crash | every committed, exported or snapshot state is whole; the file is an atomic store; the write lock comes back |
| `access` | two tabs, two places, four requests, two crashes, a factor in the row, in `settings` or nowhere | one budget of failures; the owner can sign in after changes that neither overlap nor are cut in two; a factor goes for a password, or hidden where the row has none |
| `bot` | five messages, two handled at once, one change of rights, of a key's owner or of the bot | one key per name asked for; replies hit the key chosen; no effect without the right to it |
| `claim_race` | is the claim exclusive across processes? | no: INSERT and SELECT are two steps |
| `half_migrated` | is a half-applied `_migrate_keys` recoverable? | no: the renamed table is not looked for again |

The last two are disagreements between the code and what its docstrings say;
`PROJECT.json` quotes them. The properties of the passing runs say what they need:
`ChargeKeepsItsRow` and `OneSalePerKey` speak of keys on which no attempt
missed its row (`Undisturbed`), `FailureIsFree` is checked where statements do
not fail, `NoOverdraft` where adjustments are not negative, and the properties of
the later modules carry their condition (`disturbed`, `inherited`, `clash`, `torn`,
`together`, `mixed`, `twins`, `changes`, `cut`) in their own text.

Some more statements of the code's docstrings, comments and tests are written down
as invariants that no run lists, because TLC refutes them; each is found as soon
as it is added to the configuration named:

| Definition | Statement | What TLC finds |
|---|---|---|
| `Purchase.NoOverdraft`, `sales` with `Amount <- MCTakeBack` | "a correction may not push a balance below zero" (tests/test_subadmins.py:486) | `add_credit` checks a balance it read before |
| `Purchase.AbandonedChargedNothing`, `retries` | "Only ever called on a path that reversed its charge" (web/idempotency.py:71) | `_reverse` swallows its failure |
| `Purchase.NoFalseDrift`, `sales` | "Admins whose balance disagrees with their own ledger" (core/db.py:855) | `credit_drift` reads an open charge (`BooksAgree` says how far off it can be) |
| `Purchase.NothingLeaks`, `sales` or `retries` | "Nothing was bought here" (`_reverse`, web/routers/keys.py:297) | Outline's answer is lost, or a write fails after it |
| `Scheduler.ExactlyOnePasses`, `one_scheduler` | "a slow pass cannot lose the lease mid-run" (core/scheduler.py:62) | a pass that lasts as long as its lease |
| `Scheduler.RecordedTimeExists`, `one_scheduler` | "The last run is kept in `settings`" (core/backup.py:99) | the owner's snapshot is stamped before VACUUM and its time is read after it |
| `KeyLifecycle.AdoptedRowMatches`, `keys` | "a key made straight from Outline Manager has no row here until someone edits it" (`ensure_local`): the row it gets then has no limit | a limit set in Outline Manager |
| `Subscription.ClockIsCarried`, `FirstStates <- MCDated` | "Carry the clock exactly" (`rotate_key`) | a key that was never activated but has a date loses it |
| `Subscription.NothingHalfBuilt`, `subscriptions` | "nothing is left half-built" (`mirror_onto`) | the calls before the block that cleans up |
| `Subscription.StopsAtOnce`, `subscriptions` | "a removed server stops being served at once" (`invalidate`) | a page that was being collected, another process's cache |
| `Storage.ReadsAreCurrent`, `storage` | "Reads straight through to SQLite" (core/settings.py:144) | a write that failed leaves its snapshot open |
| `Access.OnlyAPasswordSwitchesOff`, `access` | "Turning it off costs a password, so a borrowed open tab cannot" (`disable_my_2fa`) | `start_my_2fa` hides a factor that only `settings` has |
| `Access.EnabledIsProved`, `access` | "the code has to be proved first" (`start_my_2fa`) | two tabs, one of which mints a secret while the other enables |

Deadlock checking is off except in `storage`, since the systems may stop: every
request answered, every process dead or up, the bounds used up.

Bounds. One reseller, with credit for one order at a time, is where overlapping
sales compete; admins do not share rows, so a second one adds no interleaving.
Three orders are a holder, a retry and a third party, which is what the claim's
race takes; one key, because keys do not interact. `MaxCrashes` = 1: a crash
removes a process's coroutines, and those that arrive later are its restart.
`settles` has two orders to keep the temporal check small. For the scheduler,
two processes are leader and successor; time runs from `Every` = 2 to `MaxTime` = 6: two
backup intervals, and long enough for a lease of 3 to lapse and to be taken by another
process, under a pass that goes on or after a death, with one snapshot kept (`Keep` = 1, where
rotation can do most harm) and one request of the owner's. In `keys` a day, a cycle and
a unit of traffic are 1, so that one tick is the end of a term and of a cycle and
one unit of traffic is a quota; two requests make one sequence, and each meets the
pass at every step; two routes at once are left to the definitions (`Routes` may
be any set), since what they would show is `disturbed`. In `subscriptions` three
keys on two servers let a rotation and a mirror meet, or two of either;
`MaxFaults` = 1 is one cause at a time. In `migrations` the second
crash is for the restart after the first. `AtOnce` = 3 in `storage` is a writer, a
reader and somebody who commits between. `MaxFails` = `GlobalMax` = 1 in `access`
reaches both limits with two places; four requests mint, prove, enable and replace a
factor by either set of routes, and two crashes can break off two of them. In `bot` four messages
make a sale with the button pressed twice, five a creation from the choice of
server to the term; one change is the one between a button and a reply.

Symmetry is used in `access` and `bot` (tabs, places, secrets; tasks), whose
properties are invariants and action properties and name no member of these sets.

Fairness. `Purchase.FairSpec` asks for weak fairness of each request's own steps (the
event loop runs whatever is ready; every lock is released by its holder or its
death) and of pruning (each pass does it, and some process runs passes). No
request has to arrive, no process has to die. `Scheduler` states promptness as a
bound on the clock (`LapseIsNoticed`) instead of liveness. `KeyLifecycle.FairSpec`:
the loop runs passes and whatever has begun goes on; the clock and the customers
need not move, and failures are bounded by `MaxFaults`, so that a call that is
made again in every pass succeeds in the end. `Migrations.FairSpec`: a process goes
on, raises or is started again, which is what the service manager does.
`Storage.FairSpec`: each event loop goes on with some coroutine that can, and the
scheduler's loop, which never ends, asks for its lease again and again; this is
what `WriteLockIsReleased` rests on.

## Proofs

Every theorem is about `Spec`, without fairness and for every value of the constants
that `ConstantsAssumption` of its module allows; what else one assumes is said beside
it. The bounds (`MaxRequests`, `MaxCrashes`, ...) are constants, so a theorem holds for
any number of requests, messages, crashes and failures. Each module of proofs has one
inductive invariant, checked by TLC on the run of its component before it was proved.

`PurchaseProofs`, for any processes, admins, orders, prices and keys, on
`ConstantsAssumption` only:

* `TypeCorrect`, with the places of requests and the owner of a transaction
  (`TypeInv`), which everything else needs.
* `LedgerAlwaysAgrees`: inductive with `TxIsBalanced`, "an open transaction
  carries the same delta for the balance and for the ledger, and a charge in it
  is still covered"; without that the step `Commit` proves nothing.
  `NeverOverdrawn` follows from the same invariant if adjustments are not negative.
* `GoodsArePaidFor`: from `SaleInv` and `ReversalLands`, how far each place of a request
  has got with money and goods: what is out is paid for, or the request is on its way to
  an error.
* `FailuresAreFree`, `ChargesKeepTheirRow`: need in addition that reversals land,
  i.e. `~DbMayFail`. `ReplaysAreHonest`: from `AnswerInv`, "a stored answer is of
  the order that holds the row". `OneProcessReserves`: if all of `Procs`
  are one.
* `KeysSellOnce`: from `GoodsKeepTheirRow`, which needs no `~DbMayFail`: an order whose
  goods are out keeps its row until it is answered with an error, so no other can have it.
* `MovementsAreExplained`: an admin's ledger adds up to what they began with, plus the
  adjustments granted, less the orders paid for and not reversed (`Total(GrantedTo(a))`,
  `Total(PaidBy(a))`), each in full and once; `BalancesAreExplained` says the same of the
  balance. `Total` is a fold, defined by recursion over a set. That it grows by an order's
  amount when the order is added (`TotalWithOneMore`) is proved without induction over an
  operator: an `Additive` function on the subsets of a finite set exists (otherwise there
  is a smallest subset without one, which one of its own with an element less refutes),
  it solves the recursion of the fold, and the fold has one solution. `MovementInv` adds
  to the statement that finitely many orders have paid.
* `BooksAlwaysAgree`: `LedgerAlwaysAgrees`, and what `credit_drift` finds while a charge
  is open: the difference is the charge's own movement, for its admin, in its process.
* `PurchaseImplementsTill`: initial states map to initial states, and each action
  to an action of `Till` or to a stutter (`RequestRefines`, `CommitRefines`,
  `FailureRefines`, `CrashRefines`), those that leave goods out to "leaked".

`SchedulerProofs`, for any processes, intervals and requests, and rounds of any length:

* `TypeCorrect`.
* `OnlyOneScheduler` and `LapsesAreNoticed`. Inductive is `LeaseInv`: whoever is in a
  pass and is not `Slow` holds the row it wrote itself; hence (`LeaseCovers`) nobody else
  can be granted one, on a clock read now or earlier. `LeaseIsLatest` says that the lease
  there is outlasts the clock of everyone in a pass, the slow ones included.
* `OneSnapshotPerInterval`, from `SpacingInv`: the newest snapshot is recorded, or about to
  be, or `torn`; one about to be written is due, or has overtaken a slow pass.
* `RecordedBackupsExist`, from `RotationInv`: rotation keeps the newest file, and a file
  is written before it is recorded, by a pass or for the owner.

`KeyProofs`, for any number of routes at the same time:

* `KeyHolds`, from `KeyIInv`: the types; `Shaped`, which plans there can be; every
  limit, in the row, on Outline or still in somebody's plan, is one of `Allowed`; and
  `PassKnows`, what the pass has read is of the phase it is in, and it never works from
  more usage than there is.
* `ResetsDoNotAddUp`: without volume that was given, `Allowed` is "at most one quota
  above the usage". The usage only grows, so a limit that was allowed when a plan was
  made, still is when it is carried out, whoever came between. That is why it holds
  without `~disturbed`.
* `ResetsReopen`: from the part of `PassKnows` about `base`.
* `KeysStayOrderly`: while nothing is `disturbed`, at most one writer is half-way, what
  it has left `Settles` the key, and if nobody is half-way the key `Fits`: Outline has
  the row's limit, or 0 if it is off, and quota, term and switch go together. A plan
  settles a key if carrying it out from where the key stands (`Runs`) ends in one that
  fits, whatever usage it still has to measure. For each plan of a route or of the pass
  a lemma (`RenewLeads`, ..., `QuotaResetLeads`) says that it does, from a row that fits;
  an effect that is carried out only makes the plan shorter (`SettlesOn`). Of Outline's
  limit the argument takes what the panel believes (`Believed`): none, while a limit
  that came with an adopted key is `inherited`.
  `RowsMatch`, `QuotasAreEnforced` and `CutOffsAreDue` read off what fits.

`SubscriptionProofs`, for any keys, servers, tokens, requests and processes:

* `PagesAreRecent`, from `PageInv`. A key on a page that is being collected has left the
  link since the page was asked for, if at all, and one on a cached page, since then plus
  what the page still has to live. Of all other steps it needs only that `rows` and `left`
  change together and the pages stay (`Rest`).
* Everything else is about plans. A step has a `Rank`, its kind's place in whatever is
  done, and every plan is in the order of ranks (`InOrder`): so a plan is the set of what
  it is made of (`Ahead`), and its first step is the one of least rank. `WorkType` says
  that of every request, and that a plan is `Shaped`: one key is built in it at most, and
  its cleanup is that key's. A lemma per operation (`RotatePlans`, `MirrorPlans`, ...)
  shows what its plan consists of, and `Moves` that a step of the system gives a request a
  plan, carries out its first step, fails in it, or ends it, and no more than that.
* `NothingIsStray`, from `StrayInv`: two requests never build the same key; a key on
  Outline without a row is one that somebody is about to insert the row of, or is about to
  delete. Requests may overlap as they like.
* `NothingIsExposedTooSoon`, from `HeirInv`: a key that is still to be put behind a link
  has what it inherits or has the step that gives it ahead of the link.
* `NobodyIsWithoutConfig`, from `ServedInv`: of a customer's keys one works that no
  request is going to end, unless the same request has a link ahead. `OneConfigOnAServer`
  (`ConfigInv`, with the types), from `SingleInv`: of two keys on one server one is about
  to be erased, by a request that has nothing left that could fail into a cleanup. Both
  are about requests that do not overlap, `~clash`; the second one about none that broke
  off, `~torn`.

`StorageProofs`, for any processes and any tasks:

* `StoreHolds`: `StoreIInv` says which task holds a process's asyncio lock (the one in
  the middle of a transaction, `LockInv`), that only the copying one is in VACUUM
  (`VacuumInv`), and what a connection sees: whoever has the lock sees the file with
  its own statements applied and nothing else (`ConnInv`).
* `NothingPendingHolds`: `StoreInv`, from `ConnInv`. `CopiesAreWhole`: from
  `ExportInv`, an export that no write overlapped has read a prefix of what its process
  still sees, and from `SnapInv`, one copy at a time owns the `.partial` and has filled
  it when it renames it.
* `StorageImplementsAtomicStore`: a commit writes what its view is, and by `ConnInv` that
  is the file as it is now with all statements of the task applied, which
  `WhatIsReplaced` reads off its program; so nothing committed in between is undone. A
  lease that gets to commit has a view equal to the file.

`MigrationsProofs`, for any processes, customers, files and crashes:

* `MigrationHolds`: `RowInv` holds for processes that migrate at once: whoever is about
  to drop the old table is in a transaction that has copied its rows. `SoloInv` is about
  one process at a time, and says, statement by statement, what is left of the step it
  is in and what of the file that implies (`Progress`); only there is the version true.
* `CounterIsTrue`, `RowsAreKept`, `StartsKeep` follow.

`AccessProofs`, for any tabs, places, secrets and limits:

* `AccessHolds`: `RequestsOK` and `BudgetInv`, a sign-in that may still fail has found
  room in both counters; `FactorInv`: between changes hash and salt fit, and the factor that
  is on, in the row or in `settings` alone, is one that was proved (`Settled`); `Midway`
  lists for each route what it has left half done between two of its writes.
* `BudgetHolds`, `SomebodyGetsIn`, `OnlyThePasswordDoes` follow, the last two for changes
  that neither overlap nor are cut in two by a crash, as their properties say.

`BotProofs`, for any admins, servers, keys, messages and restarts:

* `TypeCorrect`; `Bookkeeping`: `HandlerInv` says of a handler which checks it is past
  and what it knew then; `NamesAreCounted` counts every name asked for once, with the
  dialog, with the handler that took it over, or with the key.
* `DialogsHold` (`BotInv`) and `RightsBite` follow. `RightsBite` is about keys that are
  there, and about keys made for nothing; whether who makes a key may still do so is not
  part of it, since the last message of a creation does not ask.

In three of the modules the invariant was not inductive as it was first written, and
what was missing is now part of it or of the model: a page of a
process whose `Ttl` is zero leaves the cache alone (`Subscription`); an installation
has a quota on offer, and a sale's quota is one of them (`KeyLifecycle`); what a role
allows is among the rights there are (`Bot`).

Only model-checked:

* the liveness properties (`PaidSettles`, `ReservationEnds`, `ExpiredIsCut`,
  `QuotaComesBack`, `EveryoneStarts`, `WriteLockIsReleased`), because fairness and ENABLED
  are out of the prover's reach.

## Not modelled

Hashing, cookies, TOTP, HTTP and HTML, translations, the audit log and metrics:
computation or records that no other state depends on. `Registry` and the cached
server metrics: memory that the next request brings up to date from the table. The
alerts of a pass (`_safe_notify`, `_probe_servers`): they change nothing but what
is sent. Names of keys, except as a reply to the bot changes them, and the lists
the dashboard, the mini app and the bot show. Settings are constants, except those
`Access` and `Bot` are about. The mini app calls the dashboard's functions after
its own check of the same rights. `make_sub_link`, which mints the link of a key that has
none. The command `reset-password`, which writes the hash and the salt as
`change_password` does, without the old password, from a process of its own: what is said
of changes that overlap or are cut in two holds of it as well.

## Plan

Done: 1. `Purchase`, `Till`. 2. `Scheduler`. 3. `KeyLifecycle`. 4. `Subscription` with
the page cache. 5. `Storage`: connection, restore, export, snapshots. 6. `Migrations`,
`Access`, `Bot`. 7. Proofs about each of them.

Next:

1. `KeyLifecycle` with the bot's own order of effects in `cb_extend`.
2. `HealthAlerts` and `Registry`, if something comes to depend on them.
