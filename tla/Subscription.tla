----------------------------- MODULE Subscription -----------------------------
(***************************************************************************)
(* A subscription is the set of keys that carry one token, on one or more  *)
(* servers, and the page that hands their configs out.  Creating, rotating *)
(* and mirroring build a key on Outline and in the database in several     *)
(* steps, any of which may fail; the page is collected from both and kept  *)
(* in a cache of each process.                                             *)
(*                                                                         *)
(* An operation is the steps it has still to make and the steps that undo  *)
(* it.  A step names what the code does when it raises: "stop" lets the    *)
(* exception out, "undo" runs the cleanup, "skip" goes on.  Limits, quotas *)
(* and dates are KeyLifecycle's; here a key is open or blocked (limit 0),  *)
(* and its row says whether its term has begun and has an end.             *)
(* A definition introduced by "Mistake:" is no part of the specification.  *)
(***************************************************************************)
EXTENDS Integers, Sequences

CONSTANTS
  Keys,        \* the ids Outline hands out
  Servers,     \* the servers
  At,          \* At[k]: the server of key k
  Tokens,      \* subscription tokens
  None,        \* no token
  Procs,       \* panel processes
  Jobs,        \* requests that change a subscription
  Home,        \* Home[j]: the process that serves request j
  FirstKey, FirstToken,  \* a customer there is at the beginning,
  FirstStates,           \* and what its row may say
  Ttl,         \* sub_cache_seconds
  CollectLimit,  \* assumed: the time it takes to collect a page
  Readers,     \* bound: the processes that are asked for pages
  MaxFaults    \* bound: calls and commits that fail, and crashes

ASSUME ConstantsAssumption ==
  /\ None \notin Tokens
  /\ At \in [Keys -> Servers] /\ Home \in [Jobs -> Procs]
  /\ FirstKey \in Keys /\ FirstToken \in Tokens
  /\ FirstStates \subseteq [off : BOOLEAN, begun : BOOLEAN, ends : BOOLEAN]
  /\ Ttl \in Nat /\ CollectLimit \in Nat \ {0} /\ MaxFaults \in Nat /\ Readers \subseteq Procs

VARIABLES
  outline,   \* each key on Outline: "none" (not made yet), "open", "blocked", "deleted"
  rows,      \* each key's row
  job,       \* each request: what it has to do
  cache,     \* each process: its cached pages
  page,      \* each process: the page it is collecting
  faults,    \* how many more there may be
  owes,      \* history: what a key's source was when the key was made
  left,      \* history: how long ago a key left its subscription, Long at most
  hist       \* history: see NoHistory

vars == <<outline, rows, job, cache, page, faults, owes, left, hist>>
pages == <<cache, page>>

NoRow == [known |-> FALSE, token |-> None, off |-> FALSE, begun |-> FALSE, ends |-> FALSE]
Fresh == [NoRow EXCEPT !.known = TRUE]
Nothing == [off |-> FALSE, begun |-> FALSE, ends |-> FALSE]
NotBegun == [stage |-> "new", todo |-> <<>>, undo |-> <<>>, extras |-> {}, token |-> None,
             heir |-> Nothing]
Finished == [NotBegun EXCEPT !.stage = "over"]
NoPage == [token |-> None, members |-> {}, age |-> 0]
NoEntry == [keys |-> {}, life |-> 0]
Long == Ttl + CollectLimit

\* asked: tokens an operator took keys out of; clash: two requests overlapped;
\* torn: one stopped half-way; stray: keys
\* a call failed for, or a process died over.
NoHistory == [asked |-> {}, clash |-> FALSE, torn |-> FALSE, stray |-> {}]

Rows == [known : BOOLEAN, token : Tokens \cup {None}, off : BOOLEAN, begun : BOOLEAN,
         ends : BOOLEAN]

TypeOK ==
  /\ outline \in [Keys -> {"none", "open", "blocked", "deleted"}]
  /\ rows \in [Keys -> Rows]
  /\ \A j \in Jobs : /\ job[j].stage \in {"new", "first", "extra", "over"}
                     /\ job[j].extras \subseteq Servers /\ job[j].token \in Tokens \cup {None}
  /\ cache \in [Procs -> [Tokens -> [keys : SUBSET Keys, life : 0..Ttl]]]
  /\ page \in [Procs -> [token : Tokens \cup {None}, members : SUBSET Keys, age : 0..CollectLimit]]
  /\ owes \in [Keys -> [off : BOOLEAN, begun : BOOLEAN, ends : BOOLEAN]]
  /\ left \in [Keys -> 0..Long]

Init ==
  /\ \E m \in FirstStates :
       /\ rows = [k \in Keys |->
            IF k = FirstKey THEN [known |-> TRUE, token |-> FirstToken, off |-> m.off,
                                  begun |-> m.begun, ends |-> m.ends]
            ELSE NoRow]
       /\ outline = [k \in Keys |->
            IF k # FirstKey THEN "none" ELSE IF m.off THEN "blocked" ELSE "open"]
  /\ job = [j \in Jobs |-> NotBegun]
  /\ cache = [p \in Procs |-> [t \in Tokens |-> NoEntry]]
  /\ page = [p \in Procs |-> NoPage]
  /\ faults = MaxFaults
  /\ owes = [k \in Keys |-> Nothing]
  /\ left = [k \in Keys |-> Long]
  /\ hist = NoHistory

Exists(k) == outline[k] \in {"open", "blocked"}
Members(t) == {k \in Keys : rows[k].known /\ rows[k].token = t}
Busy(j) == job[j].stage \notin {"new", "over"}

-----------------------------------------------------------------------------
(* The steps an operation is made of *)

\* A call to Outline, a commit, and invalidate().
Api(k, to, fails) == [on |-> "outline", key |-> k, to |-> to, fails |-> fails]
Row(k, to, fails) == [on |-> "row", key |-> k, to |-> to, fails |-> fails]
Forget(t) == [on |-> "cache", key |-> None, to |-> t, fails |-> "never"]
When(b, steps) == IF b THEN steps ELSE <<>>

CreateSteps(n, t, startNow) ==
  <<Api(n, "open", "stop"), Row(n, Fresh, "undo")>>
    \o When(startNow, <<Row(n, [begun |-> TRUE, ends |-> TRUE], "undo")>>)
    \o <<Row(n, [token |-> t], "undo")>>

\* Mistake: the link comes first, the rest of the state after it.
RotateLinksFirst(k, n, m) ==
  <<Api(n, "open", "stop"), Row(n, Fresh, "undo"), Row(n, [token |-> m.token], "undo")>>
    \o When(m.begun, <<Row(n, [begun |-> TRUE, ends |-> m.ends], "undo")>>)
    \o When(m.off, <<Api(n, "blocked", "undo"), Row(n, [off |-> TRUE], "undo")>>)
    \o <<Api(k, "deleted", "skip"), Row(k, NoRow, "stop")>>
    \o When(m.token # None, <<Forget(m.token)>>)

\* Mistake: the old key goes before the new one is made.
RotateDeletesFirst(k, n, m) ==
  <<Api(k, "deleted", "skip"), Row(k, NoRow, "stop"),
    Api(n, "open", "stop"), Row(n, Fresh, "undo"), Row(n, [token |-> m.token], "undo")>>

\* A new key with the state of the old one, whose term is carried over if it has
\* begun; the old key goes when the new one is complete.
RotateSteps(k, n, m) ==
  <<Api(n, "open", "stop"), Row(n, Fresh, "undo")>>
    \o When(m.begun, <<Row(n, [begun |-> TRUE, ends |-> m.ends], "undo")>>)
    \o When(m.off, <<Api(n, "blocked", "undo"), Row(n, [off |-> TRUE], "undo")>>)
    \o When(m.token # None, <<Row(n, [token |-> m.token], "undo")>>)
    \o <<Api(k, "deleted", "skip"), Row(k, NoRow, "stop")>>
    \o When(m.token # None, <<Forget(m.token)>>)

\* A clone of the primary. The first two steps are outside the block that cleans up.
MirrorSteps(n, t, m) ==
  <<Api(n, "open", "stop")>>
    \o When(m.off, <<Api(n, "blocked", "stop")>>)
    \o <<Row(n, Fresh, "undo")>>
    \o When(m.begun, <<Row(n, [begun |-> TRUE, ends |-> m.ends], "undo")>>)
    \o When(m.off, <<Row(n, [off |-> TRUE], "undo")>>)
    \o <<Row(n, [token |-> t], "undo"), Forget(t)>>

\* Mistake: nobody cleans up.
UndoNothing(n) == <<>>

\* Cleanup: a call that fails is ignored, a commit that fails is not.
Undo(n) == <<Api(n, "deleted", "skip")>>
UndoRotate(n) == Undo(n) \o <<Row(n, NoRow, "stop")>>

\* (The code reads the token after the call.)
RemoveSteps(k) ==
  <<Api(k, "deleted", "stop"), Row(k, NoRow, "stop")>>
    \o When(rows[k].token # None, <<Forget(rows[k].token)>>)

-----------------------------------------------------------------------------
(* The requests *)

Builds(j) == {job[j].todo[i].key : i \in DOMAIN job[j].todo}

\* Ids that are not used and that no request is about to use.
Spare(s) == {k \in Keys : At[k] = s /\ outline[k] = "none" /\ \A j \in Jobs : k \notin Builds(j)}

\* The key Outline makes next on s (they are all alike).
NextKey(s) == CHOOSE k \in Spare(s) : TRUE

\* asked: the tokens that may lose a key because an operator wants it.
Begin(j, record, asked) ==
  /\ job[j].stage = "new"
  /\ job' = [job EXCEPT ![j] = record]
  /\ hist' = [hist EXCEPT !.asked = @ \cup asked,
                          !.clash = @ \/ \E i \in Jobs : Busy(i)]
  /\ UNCHANGED <<faults, outline, rows, pages, owes, left>>

Does(steps, undo) == [NotBegun EXCEPT !.stage = "first", !.todo = steps, !.undo = undo]

\* History: the state of the key a new one is made from.
Heir(m) == [off |-> m.off, begun |-> m.begun, ends |-> m.ends]

\* create_key: a new customer, and the extra servers to put it on.
CreateKey(j) ==
  \E s \in Servers, startNow \in BOOLEAN, extras \in SUBSET Servers, t \in Tokens :
    /\ Spare(s) # {} /\ s \notin extras
    /\ t # FirstToken /\ Members(t) = {} /\ \A i \in Jobs : job[i].token # t
    /\ Begin(j, [Does(CreateSteps(NextKey(s), t, startNow), Undo(NextKey(s)))
                   EXCEPT !.extras = extras, !.token = t], {})

\* rotate_key: a key the panel has a row of, and Outline had, whether it still has it or not.
RotateKey(j) ==
  \E k \in Keys :
    /\ rows[k].known /\ outline[k] # "none" /\ Spare(At[k]) # {}
    /\ LET n == NextKey(At[k]) IN
         Begin(j, [Does(RotateSteps(k, n, rows[k]), UndoRotate(n))
                     EXCEPT !.heir = Heir(rows[k])], {})

\* sub_add_server, bulk_server_membership: one server after another.
AddServers(j) ==
  \E t \in Tokens, targets \in SUBSET Servers \ {{}} :
    /\ Members(t) # {}
    /\ Begin(j, [NotBegun EXCEPT !.stage = "extra", !.extras = targets, !.token = t], {})

\* sub_remove_server, _unmirror: the key itself is kept.
RemoveServerFrom(j) ==
  \E t \in Tokens : \E k \in Members(t) :
    /\ Begin(j, Does(<<Row(k, [token |-> None], "stop"), Forget(t)>>, <<>>), {t})

DeleteKey(j) ==
  \E k \in Keys :
    /\ rows[k].known
    /\ Begin(j, Does(RemoveSteps(k), <<>>), {rows[k].token} \ {None})

\* delete_server, Registry.remove: its rows go, its keys and the cached pages stay.
DeleteServer(j) ==
  \E s \in Servers :
    LET gone == {k \in Keys : At[k] = s /\ rows[k].known} IN
    /\ gone # {} /\ job[j].stage = "new"
    /\ job' = [job EXCEPT ![j] = Finished]
    /\ rows' = [k \in Keys |-> IF k \in gone THEN NoRow ELSE rows[k]]
    /\ left' = [k \in Keys |-> IF k \in gone THEN 0 ELSE left[k]]
    /\ hist' = [hist EXCEPT !.asked = @ \cup {rows[k].token : k \in gone},
                            !.clash = @ \/ \E i \in Jobs : Busy(i),
                            !.stray = @ \cup {k \in Keys : At[k] = s}]
    /\ UNCHANGED <<faults, outline, pages, owes>>

Request(j) ==
  \/ CreateKey(j) \/ RotateKey(j) \/ AddServers(j)
  \/ RemoveServerFrom(j) \/ DeleteKey(j) \/ DeleteServer(j)

-----------------------------------------------------------------------------
(* A request goes on *)

Settled(record) == IF record.todo = <<>> /\ record.extras = {} THEN Finished ELSE record

\* Mistake: nobody looks whether the customer is there.
NeverIncluded(members, s) == FALSE

Included(members, s) == \E k \in members : At[k] = s

\* The next server: nothing to do if the customer is on it already; otherwise a
\* clone of the first key is made there.
MirrorNext(j) ==
  /\ job[j].stage \in {"first", "extra"} /\ job[j].todo = <<>>
  /\ \E s \in job[j].extras :
       LET members == Members(job[j].token)
           next == [job[j] EXCEPT !.stage = "extra", !.extras = @ \ {s}] IN
       \/ /\ members = {} \/ Included(members, s) \/ Spare(s) = {}
          /\ job' = [job EXCEPT ![j] = Settled(next)]
       \/ /\ ~Included(members, s)
          /\ Spare(s) # {}
          /\ \E k \in members :
               job' = [job EXCEPT ![j] =
                 [next EXCEPT !.todo = MirrorSteps(NextKey(s), job[j].token, rows[k]),
                              !.undo = Undo(NextKey(s)), !.heir = Heir(rows[k])]]
  /\ UNCHANGED <<faults, outline, rows, pages, owes, left, hist>>

Step(j) == Head(job[j].todo)
Goes(j) == job' = [job EXCEPT ![j] = Settled([job[j] EXCEPT !.todo = Tail(job[j].todo)])]

\* The columns that a statement sets, set.
Applied(columns, m) == [f \in DOMAIN m |-> IF f \in DOMAIN columns THEN columns[f] ELSE m[f]]

\* UPDATE ... WHERE key_id = ?: only the insert makes a row.
Written(e) ==
  IF rows[e.key].known \/ e.to = Fresh THEN Applied(e.to, rows[e.key]) ELSE rows[e.key]

Calls(j) ==
  /\ job[j].todo # <<>> /\ Step(j).on = "outline"
  /\ Step(j).to = "blocked" => Exists(Step(j).key)
  /\ outline' = [outline EXCEPT ![Step(j).key] = Step(j).to]
  /\ owes' = IF Step(j).to = "open" THEN [owes EXCEPT ![Step(j).key] = job[j].heir] ELSE owes
  /\ Goes(j)
  /\ UNCHANGED <<faults, rows, pages, left, hist>>

Writes(j) ==
  /\ job[j].todo # <<>> /\ Step(j).on = "row"
  /\ LET k == Step(j).key IN
       /\ rows' = [rows EXCEPT ![k] = Written(Step(j))]
       /\ left' = IF rows'[k].token # rows[k].token THEN [left EXCEPT ![k] = 0] ELSE left
  /\ Goes(j)
  /\ UNCHANGED <<faults, outline, pages, owes, hist>>

\* invalidate(): the pages this process holds.
Forgets(j) ==
  /\ job[j].todo # <<>> /\ Step(j).on = "cache"
  /\ cache' = [cache EXCEPT ![Home[j]][Step(j).to] = NoEntry]
  /\ Goes(j)
  /\ UNCHANGED <<faults, outline, rows, page, owes, left, hist>>

\* What comes after a step that failed: what is next anyway, the cleanup, or nothing.
\* When a server could not be added, the next one is tried; a request that could not
\* do its own part has no extra servers to add.
After(j) ==
  LET j0 == job[j]
      first == j0.stage # "extra" IN
  CASE Step(j).fails = "skip" -> [j0 EXCEPT !.todo = Tail(@)]
    [] Step(j).fails = "undo" -> [j0 EXCEPT !.todo = j0.undo, !.undo = <<>>,
                                            !.extras = IF first THEN {} ELSE @]
    [] Step(j).fails = "stop" -> [j0 EXCEPT !.todo = <<>>, !.extras = IF first THEN {} ELSE @]

\* An Outline call or a commit raises. What a call that raised left on Outline is
\* logged: a key that should be gone, or a block that was not put on a new key.
Fails(j) ==
  /\ job[j].todo # <<>> /\ faults > 0 /\ Step(j).fails # "never"
  /\ faults' = faults - 1
  /\ job' = [job EXCEPT ![j] = Settled(After(j))]
  /\ hist' = [hist EXCEPT
       !.stray = IF Step(j).on = "outline" THEN @ \cup {Step(j).key} ELSE @,
       !.torn = @ \/ (Step(j).on = "row" /\ Step(j).fails = "stop")]
  /\ UNCHANGED <<outline, rows, pages, owes, left>>

\* A new key that somebody removed on the way cannot be blocked.
Refused(j) ==
  /\ job[j].todo # <<>> /\ Step(j).on = "outline"
  /\ Step(j).to = "blocked" /\ ~Exists(Step(j).key)
  /\ job' = [job EXCEPT ![j] = Settled(After(j))]
  /\ UNCHANGED <<faults, outline, rows, pages, owes, left, hist>>

-----------------------------------------------------------------------------
(* The page *)

\* _collect: a page that is not in the cache is collected from its members' rows.
Ask(p) ==
  \E t \in Tokens :
    /\ page[p].token = None /\ Members(t) # {}
    /\ cache[p][t].life = 0
    /\ page' = [page EXCEPT ![p] = [token |-> t, members |-> Members(t), age |-> 0]]
    /\ UNCHANGED <<faults, outline, rows, job, cache, owes, left, hist>>

\* The keys that answered; a server that does not answer is left out. A cache that
\* is full (of other customers' pages, too) is emptied first; with a Ttl of 0 there is none.
Answer(p) ==
  /\ page[p].token # None
  /\ \E got \in SUBSET {k \in page[p].members : Exists(k)}, full \in BOOLEAN :
       /\ got # {}
       /\ cache' = IF Ttl = 0 THEN cache ELSE [cache EXCEPT ![p] =
            [t \in Tokens |-> IF t = page[p].token THEN [keys |-> got, life |-> Ttl]
                              ELSE IF full THEN NoEntry ELSE cache[p][t]]]
  /\ page' = [page EXCEPT ![p] = NoPage]
  /\ UNCHANGED <<faults, outline, rows, job, owes, left, hist>>

\* 502: no server answered.
PageFails(p) ==
  /\ page[p].token # None
  /\ page' = [page EXCEPT ![p] = NoPage]
  /\ UNCHANGED <<faults, outline, rows, job, cache, owes, left, hist>>

-----------------------------------------------------------------------------
(* The world *)

\* A process dies with its requests and its pages (one without requests only
\* loses its cache).
Crash(p) ==
  /\ faults > 0 /\ faults' = faults - 1
  /\ \E j \in Jobs : Home[j] = p /\ Busy(j)
  /\ job' = [j \in Jobs |-> IF Home[j] = p /\ Busy(j) THEN Finished ELSE job[j]]
  /\ cache' = [cache EXCEPT ![p] = [t \in Tokens |-> NoEntry]]
  /\ page' = [page EXCEPT ![p] = NoPage]
  /\ hist' = [hist EXCEPT
       !.torn = TRUE,
       !.stray = @ \cup UNION {Builds(j) : j \in {i \in Jobs : Home[i] = p}}]
  /\ UNCHANGED <<outline, rows, owes, left>>

\* Mistake: an entry lives on while it is there.
Immortal(entry) == entry

Older(entry) ==
  IF entry.life <= 1 THEN NoEntry ELSE [entry EXCEPT !.life = @ - 1]

\* Time passes. Calls to Outline time out, so that a page is not collected for ever.
Tick ==
  /\ \A p \in Procs : page[p].token # None => page[p].age < CollectLimit
  /\ page' = [p \in Procs |->
       IF page[p].token = None THEN NoPage ELSE [page[p] EXCEPT !.age = @ + 1]]
  /\ cache' = [p \in Procs |-> [t \in Tokens |-> Older(cache[p][t])]]
  /\ left' = [k \in Keys |-> IF left[k] < Long THEN left[k] + 1 ELSE Long]
  /\ UNCHANGED <<faults, outline, rows, job, owes, hist>>

Acts(j) == MirrorNext(j) \/ Calls(j) \/ Writes(j) \/ Forgets(j) \/ Refused(j)

Next ==
  \/ \E j \in Jobs : Request(j) \/ Acts(j) \/ Fails(j)
  \/ \E p \in Readers : Ask(p) \/ Answer(p) \/ PageFails(p)
  \/ \E p \in Procs : Crash(p)
  \/ Tick

Spec == Init /\ [][Next]_vars

-----------------------------------------------------------------------------
(* What must hold *)

Quiet == \A j \in Jobs : ~Busy(j)
Working(k) == Exists(k) /\ rows[k].known

\* A customer nobody took a server from has a key behind the link at every moment,
\* whatever fails or dies in between (rotate_key: "a working config and at worst a
\* stale key to clean up - rather than no config at all").
NeverWithoutConfig ==
  \A t \in Tokens \ hist.asked :
     Members(t) # {} /\ ~hist.clash => \E k \in Members(t) : Working(k)

\* One request after the other gives a customer at most one config per server
\* (mirror_onto: "already included"; rotate_key takes the old key away).
OneConfigPerServer ==
  Quiet /\ ~hist.clash /\ ~hist.torn =>
     \A t \in Tokens : \A k, l \in Members(t) : At[k] = At[l] => k = l

\* The types, and the invariant above.
ConfigInv == TypeOK /\ OneConfigPerServer

\* Every key on Outline is one the panel knows, unless the call that failed was for
\* that very key (see NothingHalfBuilt) or the process died: create_key_for's and
\* rotate_key's cleanup, whatever else happens at the same time.
NothingStray ==
  Quiet => \A k \in Keys : Exists(k) => rows[k].known \/ k \in hist.stray

\* A key that replaces or doubles one that is suspended or has a term is cut off and
\* ends as well, before the link leads to it (mirror_onto: "an expired, suspended
\* user gets a live config with a full allowance and a clock that restarts").
InheritsBeforeExposed ==
  \A k \in Keys : rows[k].token # None =>
     /\ owes[k].off => outline[k] # "open" /\ rows[k].off
     /\ owes[k].begun /\ owes[k].ends => rows[k].ends

\* However pages and requests interleave, a config that has left its subscription is
\* not served for longer than an entry lives from its collection: the cache is "a few
\* seconds older than its neighbour's" at most, also where nobody invalidates it.
PageIsRecent ==
  \A p \in Procs, t \in Tokens : \A k \in cache[p][t].keys :
     rows[k].token = t \/ left[k] < Long

\* What the code says and does not do. "Raises on failure; nothing is left half-built"
\* (mirror_onto): when nothing but a call to Outline has failed, every key on a server
\* the customer was to be put on has a row.
NothingHalfBuilt ==
  Quiet /\ ~hist.torn =>
     \A k \in Keys : At[k] # At[FirstKey] /\ Exists(k) => rows[k].known

\* "Carry the clock exactly: a rotation is not a renewal" (rotate_key): the key behind
\* the link ends if the one it replaces did.
ClockIsCarried ==
  \A k \in Keys : rows[k].token # None /\ owes[k].ends => rows[k].ends

\* "a removed server stops being served at once" (invalidate): what is in the cache of
\* a process after its requests are over is in the subscription.
StopsAtOnce ==
  Quiet => \A p \in Procs, t \in Tokens : \A k \in cache[p][t].keys : rows[k].token = t
=============================================================================
