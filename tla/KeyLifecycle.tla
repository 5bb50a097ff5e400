----------------------------- MODULE KeyLifecycle -----------------------------
(***************************************************************************)
(* The life of one access key: its row in `keys`, its data limit and usage *)
(* on Outline, the routes that change them and the scheduler's pass, which *)
(* starts its term, renews its quota and cuts it off.                      *)
(*                                                                         *)
(* Every writer works alike: it reads the row, decides, then calls Outline *)
(* and commits one column after another, with an await between any two.    *)
(* So a writer is what is left of its plan: a sequence of effects, each a  *)
(* function from the fields it sets to their values.  "cap" and "live" are *)
(* Outline's, the others are columns.  A tick is a day, volumes are units. *)
(* A definition introduced by "Mistake:" is no part of the specification.  *)
(***************************************************************************)
EXTENDS Integers, Sequences

CONSTANTS
  Routes,     \* requests under way at the same time, each for one operation
  Pass,       \* the scheduler, one at a time (module Scheduler)
  None,       \* NULL in a column, no limit on Outline
  Sales,      \* what a key is created with: limit, days, monthly, startNow
  Packages,   \* the price list: volume and term (None: unlimited, no term)
  Sizes,      \* limits an operator may enter, here or in Outline Manager (None: none)
  Days,       \* terms
  Quotas,     \* monthly quotas
  Cycle,      \* cycle_seconds()
  MaxTime, MaxUsed,  \* bounds: the clock, the traffic
  MaxRequests,       \* bound: the requests there are in all
  MaxFaults   \* bound: calls and commits that fail, and crashes

ASSUME ConstantsAssumption ==
  /\ Pass \notin Routes
  /\ None \notin Nat
  /\ Sales \subseteq [limit : (Nat \ {0}) \cup {None}, days : (Nat \ {0}) \cup {None},
                      monthly : Quotas \cup {None}, startNow : BOOLEAN]
  /\ Packages \subseteq [gb : (Nat \ {0}) \cup {None}, days : (Nat \ {0}) \cup {None}]
  /\ Sizes \subseteq (Nat \ {0}) \cup {None}
  /\ Days \subseteq Nat \ {0} /\ Quotas \subseteq Nat \ {0} /\ Quotas # {}
  /\ Cycle \in Nat \ {0} /\ MaxTime \in Nat /\ MaxUsed \in Nat /\ MaxFaults \in Nat
  /\ MaxRequests \in Nat

VARIABLES
  now,      \* the wall clock
  row,      \* the key's row
  out,      \* the key on Outline
  todo,     \* what each writer has still to do
  touched,  \* whether it has done some of it
  spent,    \* how many requests there have been
  pass,     \* where the pass stands, the clock, row and usage it has read
  faults,   \* how many more failures there may be
  hist      \* history: see NoHistory

vars == <<now, row, out, todo, touched, spent, pass, faults, hist>>

Writers == Routes \cup {Pass}
Nullable == Nat \cup {None}
Outlines == {"cap", "live"}

Rows == [known : BOOLEAN, limit : Nullable, duration : Nullable, activated : Nullable,
         expiry : Nullable, disabled : BOOLEAN, monthly : Quotas \cup {None}, reset : Nullable]

\* A row as add_key() inserts it for a key the panel has not seen.
Unseen == [known |-> TRUE, limit |-> None, duration |-> None, activated |-> None,
           expiry |-> None, disabled |-> FALSE, monthly |-> None, reset |-> None]

\* disturbed: a writer acted while another was half-way, or one stopped half-way;
\* asked: an operator switched the key off; topped: volume other than the quota was
\* given; waived: an operator bypassed the quota; inherited: Outline still enforces a
\* limit of Outline Manager's, which the panel has never read.
NoHistory == [disturbed |-> FALSE, asked |-> FALSE, topped |-> FALSE, waived |-> FALSE,
              inherited |-> FALSE]

\* History: base is the usage when the pass began, blind that it could not be read.
Idle == [at |-> "idle", clock |-> 0, read |-> None, usage |-> None,
         base |-> 0, blind |-> FALSE]

\* What a step of a plan may do, a limit it sets being one of `limits`; the usage still
\* to be measured (the first allowance of a new quota depends on it); and a deletion's.
Effects(limits) ==
  [cap : limits] \cup [limit : limits] \cup [duration : Nat] \cup [expiry : Nat]
    \cup [activated : Nat, expiry : Nat] \cup [disabled : BOOLEAN] \cup [reset : Nat]
    \cup [monthly : Quotas \cup {None}, reset : Nullable] \cup {Unseen}
Measure == [measure |-> TRUE]
Remove == <<[live |-> FALSE], [known |-> FALSE]>>

TypeOK ==
  /\ now \in 0..MaxTime
  /\ row \in Rows
  /\ out \in [live : BOOLEAN, cap : Nullable, used : 0..MaxUsed]
  /\ todo \in [Writers -> Seq(Effects(Nullable) \cup {Measure, Remove[1], Remove[2]})]
  /\ touched \in [Writers -> BOOLEAN]
  /\ spent \in 0..MaxRequests
  /\ pass \in [at : {"idle", "pending", "quota", "expiry"}, clock : 0..now,
               read : Rows \cup {None}, usage : Nullable, base : 0..MaxUsed, blind : BOOLEAN]
  /\ faults \in 0..MaxFaults
  /\ hist \in [disturbed : BOOLEAN, asked : BOOLEAN, topped : BOOLEAN, waived : BOOLEAN,
               inherited : BOOLEAN]

\* A key create_key_for() has just made.
Made(sale) ==
  LET starts == sale.days # None /\ sale.startNow IN
  [Unseen EXCEPT
     !.limit = IF sale.limit = None THEN sale.monthly ELSE sale.limit,
     !.duration = sale.days,
     !.activated = IF starts THEN now ELSE None,
     !.expiry = IF starts THEN now + sale.days ELSE None,
     !.monthly = sale.monthly,
     !.reset = IF sale.monthly = None THEN None ELSE now + Cycle]

\* The panel's own, or one made in Outline Manager, with a limit or without, that the
\* panel has no row for.
Init ==
  /\ now = 0
  /\ \/ /\ \E sale \in Sales : row = Made(sale)
        /\ out = [live |-> TRUE, cap |-> row.limit, used |-> 0]
     \/ /\ row = [Unseen EXCEPT !.known = FALSE]
        /\ \E v \in Sizes : out = [live |-> TRUE, cap |-> v, used |-> 0]
  /\ todo = [w \in Writers |-> <<>>]
  /\ touched = [w \in Writers |-> FALSE]
  /\ spent = 0 /\ pass = Idle /\ faults = MaxFaults
  /\ hist = [NoHistory EXCEPT !.topped = out.cap # row.monthly,
                              !.inherited = out.cap # row.limit]

-----------------------------------------------------------------------------
(* What the routes decide, from the row m they have read and the clock t *)

Larger(a, b) == IF a > b THEN a ELSE b

\* `meta.get("expiry_ts") or 0`
OrZero(v) == IF v = None THEN 0 ELSE v

When(b, plan) == IF b THEN plan ELSE <<>>

IsPending(m) == m.duration # None /\ m.activated = None

\* A term that has not begun gets longer; one that has gets a later end.
LongerTerm(m, t, d) ==
  IF IsPending(m)
  THEN [duration |-> Larger(1, m.duration + d)]
  ELSE [expiry |-> Larger(t, Larger(OrZero(m.expiry), t) + d)]

\* _apply_package: a renewal that is paid for.
Renew(m, t, gb, d) ==
  LET new == IF gb = None \/ m.limit = None THEN None ELSE m.limit + gb IN
  <<[cap |-> new], [limit |-> new]>>
    \o When(d # None, <<LongerTerm(m, t, IF d = None THEN 0 ELSE d)>>)
    \o When(m.disabled, <<[disabled |-> FALSE]>>)

\* extend_key without a package: Outline is told first, the date moves afterwards.
Extend(m, t, d) ==
  LET on == d > 0 /\ m.disabled IN
  When(on, <<[cap |-> m.limit]>>)
    \o <<LongerTerm(m, t, d)>>
    \o When(on, <<[disabled |-> FALSE]>>)

\* Mistake: Outline is told of the limit of a key that is switched off.
LimitAtOnce(m, v) == <<[cap |-> v], [limit |-> v]>>

SetLimit(m, v) == When(~m.disabled, <<[cap |-> v]>>) \o <<[limit |-> v]>>

\* Mistake: the quota is only written down, Outline is told at the first reset.
QuotaOnPaper(m, t, q) == <<[monthly |-> q, reset |-> t + Cycle]>>

SetQuota(m, t, q) ==
  When(m.limit = None /\ ~m.disabled, <<Measure, [cap |-> q], [limit |-> q]>>)
    \o <<[monthly |-> q, reset |-> t + Cycle]>>

NoQuota == <<[monthly |-> None, reset |-> None]>>

\* Mistake: a reset adds the quota to the ceiling it finds there.
ResetCompounds(m) ==
  <<Measure, [cap |-> m.monthly + OrZero(m.limit)], [limit |-> m.monthly + OrZero(m.limit)],
    [disabled |-> FALSE]>>

\* reset_usage: used + quota, and on again.
ResetUsage(m) ==
  <<Measure, [cap |-> m.monthly], [limit |-> m.monthly], [disabled |-> FALSE]>>

SwitchOff == <<[cap |-> 0], [disabled |-> TRUE]>>

SwitchOn(m) == <<[cap |-> m.limit], [disabled |-> FALSE]>>

-----------------------------------------------------------------------------
(* The routes *)

\* ensure_local: an unknown key is adopted if Outline has it.
Adopted == IF row.known THEN row ELSE Unseen
Adoption == When(~row.known, <<Unseen>>)

Begin(r, plan) ==
  /\ todo[r] = <<>> /\ spent < MaxRequests
  /\ spent' = spent + 1
  /\ todo' = [todo EXCEPT ![r] = plan]
  /\ touched' = [touched EXCEPT ![r] = FALSE]
  /\ UNCHANGED <<now, row, out, pass, faults>>

Notes(fields) == hist' = [f \in DOMAIN hist |-> hist[f] \/ f \in fields]

Local == row.known \/ out.live

RenewKey(r) ==
  /\ Local
  /\ \E p \in Packages :
       /\ Begin(r, Adoption \o Renew(Adopted, now, p.gb, p.days))
       /\ Notes({"topped"} \cup (IF p.gb = None THEN {"waived"} ELSE {}))

ExtendKey(r) ==
  /\ Local
  /\ \E d \in Days \cup {-x : x \in Days} : Begin(r, Adoption \o Extend(Adopted, now, d))
  /\ Notes({})

LimitKey(r) ==
  /\ Local
  /\ \E v \in Sizes :
       /\ Begin(r, Adoption \o SetLimit(Adopted, v))
       /\ Notes({"topped"} \cup (IF v = None THEN {"waived"} ELSE {}))

\* A quota set on a key that is off is not seeded (the case MeteredByQuota excepts).
QuotaKey(r) ==
  /\ Local
  /\ \/ \E q \in Quotas : Begin(r, Adoption \o SetQuota(Adopted, now, q))
     \/ Begin(r, Adoption \o NoQuota)
  /\ Notes(IF row.disabled THEN {"waived"} ELSE {})

ResetKey(r) ==
  /\ Local
  /\ Begin(r, Adoption \o When(Adopted.monthly # None, ResetUsage(Adopted)))
  /\ Notes({})

DisableKey(r) ==
  /\ Local
  /\ Begin(r, Adoption \o SwitchOff)
  /\ Notes({"asked"})

\* enable_key does not adopt: without a row the limit goes and no row is updated.
EnableKey(r) ==
  /\ Begin(r, SwitchOn(Adopted))
  /\ Notes({})

DeleteKey(r) ==
  /\ Begin(r, Remove)
  /\ Notes({})

-----------------------------------------------------------------------------
(* What any writer does next *)

Busy(w) == todo[w] # <<>> \/ (w = Pass /\ pass.read # None)

Overlaps(w) == \E v \in Writers \ {w} : Busy(v)

Takes(w) ==
  /\ todo' = [todo EXCEPT ![w] = Tail(@)]
  /\ touched' = [touched EXCEPT ![w] = Len(todo[w]) > 1]

\* get_transfer_metrics(): the ceilings that were relative to usage are now known.
Raised(plan, u) ==
  [i \in DOMAIN plan |->
     [f \in DOMAIN plan[i] |-> IF f \in {"cap", "limit"} THEN plan[i][f] + u ELSE plan[i][f]]]

ReadsUsage(w) ==
  /\ todo[w] # <<>> /\ Head(todo[w]) = Measure
  /\ todo' = [todo EXCEPT ![w] = Raised(Tail(@), IF out.live THEN out.used ELSE 0)]
  /\ UNCHANGED <<now, row, out, touched, spent, pass, faults, hist>>

\* The fields that an effect sets, set.
Applied(e, fields) == [f \in DOMAIN fields |-> IF f \in DOMAIN e THEN e[f] ELSE fields[f]]

\* A call changes a key that exists; deleting one that does not is a success.
Calls(w) ==
  /\ todo[w] # <<>> /\ DOMAIN Head(todo[w]) \subseteq Outlines
  /\ out.live \/ Head(todo[w]) = [live |-> FALSE]
  /\ out' = Applied(Head(todo[w]), out)
  /\ Takes(w)
  /\ hist' = [hist EXCEPT !.disturbed = @ \/ Overlaps(w),
                          !.inherited = @ /\ "cap" \notin DOMAIN Head(todo[w])]
  /\ UNCHANGED <<now, row, spent, pass, faults>>

\* UPDATE ... WHERE key_id = ?: nothing happens to a row that is not there.
Written(e) == IF row.known \/ "known" \in DOMAIN e THEN Applied(e, row) ELSE row

Writes(w) ==
  /\ todo[w] # <<>> /\ DOMAIN Head(todo[w]) \subseteq DOMAIN row
  /\ row' = Written(Head(todo[w]))
  /\ Takes(w)
  /\ Notes(IF Overlaps(w) THEN {"disturbed"} ELSE {})
  /\ UNCHANGED <<now, out, spent, pass, faults>>

Drop(w) ==
  /\ todo' = [todo EXCEPT ![w] = <<>>]
  /\ touched' = [touched EXCEPT ![w] = FALSE]
  /\ Notes(IF touched[w] THEN {"disturbed"} ELSE {})

\* OutlineError: a route answers 502, the pass goes on to the next thing.
CallFails(w) ==
  /\ todo[w] # <<>> /\ DOMAIN Head(todo[w]) \subseteq Outlines \cup {"measure"}
  /\ \/ faults > 0 /\ faults' = faults - 1
     \/ ~out.live /\ "cap" \in DOMAIN Head(todo[w]) /\ faults' = faults
  /\ Drop(w)
  /\ UNCHANGED <<now, row, out, spent, pass>>

\* A commit fails or the process dies half-way: the pass is over, too. (Before
\* its first effect a writer that stops has changed nothing.)
Stops(w) ==
  /\ touched[w] /\ faults > 0
  /\ faults' = faults - 1
  /\ Drop(w)
  /\ pass' = IF w = Pass THEN Idle ELSE pass
  /\ UNCHANGED <<now, row, out, spent>>

-----------------------------------------------------------------------------
(* The pass: _check_once() *)

PassIs(there) == pass.at = there /\ todo[Pass] = <<>>

PassStarts ==
  /\ PassIs("idle")
  /\ pass' = [Idle EXCEPT !.at = "pending", !.clock = now, !.base = out.used]
  /\ UNCHANGED <<now, row, out, todo, touched, spent, faults, hist>>

\* now >= reset_ts, of a key that is on.
QuotaDue(m) ==
  m.monthly # None /\ m.reset # None /\ pass.clock >= m.reset /\ ~m.disabled

Concerns(m) ==
  \/ pass.at = "pending" /\ IsPending(m)
  \/ pass.at = "quota" /\ QuotaDue(m)

After == IF pass.at = "pending" THEN "quota" ELSE "expiry"

\* pending_activation_keys(), all_keys(): the rows a phase works from.
PassReads ==
  /\ PassIs("pending") \/ PassIs("quota")
  /\ pass.read = None
  /\ pass' = IF row.known /\ Concerns(row) THEN [pass EXCEPT !.read = row]
                                           ELSE [pass EXCEPT !.at = After]
  /\ UNCHANGED <<now, row, out, todo, touched, spent, faults, hist>>

\* usage(): once per pass; a server that does not answer has used nothing.
PassMeasures ==
  /\ pass.read # None /\ pass.usage = None
  /\ \/ /\ pass' = [pass EXCEPT !.usage = IF out.live THEN out.used ELSE 0]
        /\ faults' = faults
     \/ /\ faults > 0 /\ faults' = faults - 1
        /\ pass' = [pass EXCEPT !.usage = 0, !.blind = TRUE]
  /\ UNCHANGED <<now, row, out, todo, touched, spent, hist>>

\* Mistake: `while nxt < now`, which leaves a reset that is due at this very moment.
ResetNow(rt) == rt + Cycle * ((pass.clock - rt) \div Cycle)

\* The first rt + k * Cycle in the future.
NextReset(rt) == rt + Cycle * ((pass.clock - rt) \div Cycle + 1)

Activation(m) ==
  When(pass.usage > 0, <<[activated |-> pass.clock, expiry |-> pass.clock + m.duration]>>)

\* Mistake: usage is taken to begin again with every cycle.
QuotaFromZero(m) ==
  <<[cap |-> m.monthly], [limit |-> m.monthly], [reset |-> NextReset(m.reset)]>>

QuotaReset(m) ==
  <<[cap |-> pass.usage + m.monthly], [limit |-> pass.usage + m.monthly],
    [reset |-> NextReset(m.reset)]>>

PassPlans(plan) ==
  /\ todo' = [todo EXCEPT ![Pass] = plan]
  /\ touched' = [touched EXCEPT ![Pass] = FALSE]
  /\ UNCHANGED <<now, row, out, spent, faults, hist>>

PassDecides ==
  /\ pass.read # None /\ pass.usage # None
  /\ PassPlans(IF pass.at = "pending" THEN Activation(pass.read) ELSE QuotaReset(pass.read))
  /\ pass' = [pass EXCEPT !.read = None, !.at = After]

\* Mistake: whoever expires within a day is cut off already.
ExpiredByTomorrow(m) == m.expiry # None /\ m.expiry <= pass.clock + 1 /\ ~m.disabled

\* Mistake: a term that ends at this very moment is not over, and time stands still.
ExpiredBefore(m) == m.expiry # None /\ m.expiry < pass.clock /\ ~m.disabled

\* expired_active_keys()
Expired(m) == m.expiry # None /\ m.expiry <= pass.clock /\ ~m.disabled

PassExpires ==
  /\ PassIs("expiry")
  /\ PassPlans(When(row.known /\ Expired(row), SwitchOff))
  /\ pass' = Idle

-----------------------------------------------------------------------------
(* The world *)

Traffic ==
  /\ out.live /\ out.used < MaxUsed
  /\ (out.cap # None => out.used < out.cap)
  /\ out' = [out EXCEPT !.used = @ + 1]
  /\ UNCHANGED <<now, row, todo, touched, spent, pass, faults, hist>>

Tick ==
  /\ now < MaxTime
  /\ now' = now + 1
  /\ UNCHANGED <<row, out, todo, touched, spent, pass, faults, hist>>

Route(r) ==
  \/ RenewKey(r) \/ ExtendKey(r) \/ LimitKey(r) \/ QuotaKey(r) \/ ResetKey(r)
  \/ DisableKey(r) \/ EnableKey(r) \/ DeleteKey(r)

Acts(w) == ReadsUsage(w) \/ Calls(w) \/ Writes(w) \/ CallFails(w)

PassStep == PassStarts \/ PassReads \/ PassMeasures \/ PassDecides \/ PassExpires

Next ==
  \/ \E r \in Routes : Route(r)
  \/ \E w \in Writers : Acts(w) \/ Stops(w)
  \/ PassStep \/ Traffic \/ Tick

Spec == Init /\ [][Next]_vars

\* The loop runs passes, and whatever has begun goes on.
FairSpec ==
  Spec /\ WF_vars(PassStep) /\ \A w \in Writers : WF_vars(Acts(w))

-----------------------------------------------------------------------------
(* What must hold *)

Quiet == \A w \in Writers : ~Busy(w)
Over(t) == t # None /\ t <= now
Here == row.known /\ out.live

\* Outline enforces what the row says, after any sequence of operations in which
\* no two overlapped and none broke off (every route's "Outline first, the database
\* after", and the limit that is stored but not applied while a key is off). A limit
\* that an adopted key brought with it is out of account until the panel sets one.
RowMatchesOutline ==
  Quiet /\ Here /\ ~hist.disturbed =>
     hist.inherited \/ out.cap = IF row.disabled THEN 0 ELSE row.limit

\* The same of every adopted key: its row says there is no limit (ensure_local).
AdoptedRowMatches ==
  Quiet /\ Here /\ ~hist.disturbed => out.cap = IF row.disabled THEN 0 ELSE row.limit

\* A key that lives on its quota never has more than one of it ahead, whoever races
\* whom and whatever fails: resets do not add up (reset_usage: "would compound").
QuotaDoesNotCompound ==
  ~hist.topped /\ out.cap # None => \E q \in Quotas : out.cap <= out.used + q

\* A key with a quota that is on has a ceiling on Outline, unless an operator took
\* it away or set the quota while the key was off (set_key_monthly: "the key runs
\* unmetered").
MeteredByQuota ==
  Quiet /\ Here /\ ~row.disabled /\ row.monthly # None =>
     out.cap # None \/ hist.waived \/ hist.disturbed

\* A customer is cut off because the term is over or an operator said so, not after
\* a renewal; only a pass and a renewal that overlap can do that.
CutOnlyWhenExpired ==
  Quiet /\ Here /\ row.disabled /\ ~hist.asked /\ ~hist.disturbed =>
     Over(row.expiry)

\* The types, and the invariant above.
KeyInv == TypeOK /\ CutOnlyWhenExpired

\* A quota reset in a pass leaves the customer something beyond what was used when
\* the pass began: it is measured in this pass. A pass that could not read the usage
\* takes it for zero (usage() in _check_once).
ResetReopens ==
  [][ todo[Pass] # <<>> /\ todo'[Pass] = Tail(todo[Pass]) /\ out'.cap # out.cap
        => out'.cap = 0 \/ out'.cap > pass.base \/ pass.blind ]_vars

\* Whoever is past the term is cut off on Outline sooner or later, or renewed.
ExpiredIsCut ==
  Here /\ Over(row.expiry) ~>
     (row.disabled /\ out.cap = 0) \/ ~Over(row.expiry) \/ ~Here \/ hist.disturbed

\* A quota that is due comes back (the loop over all_keys in _check_once).
QuotaComesBack ==
  Here /\ row.monthly # None /\ Over(row.reset) ~>
     row.monthly = None \/ ~Over(row.reset) \/ row.disabled \/ ~Here
=============================================================================
