--------------------------- MODULE SubscriptionProofs ---------------------------
(***************************************************************************)
(* What is true of Subscription for every number of requests, processes,   *)
(* servers, keys and customers, for every sub_cache_seconds, and for every *)
(* number of calls that fail and processes that die.                       *)
(***************************************************************************)
EXTENDS Subscription, SequenceTheorems, TLAPS

-----------------------------------------------------------------------------
(* The page is recent *)

\* What the cached pages, the pages being collected and the clocks are.
PageType ==
  /\ cache \in [Procs -> [Tokens -> [keys : SUBSET Keys, life : 0..Ttl]]]
  /\ page \in [Procs -> [token : Tokens \cup {None}, members : SUBSET Keys, age : 0..CollectLimit]]
  /\ left \in [Keys -> 0..Long]
  /\ DOMAIN rows = Keys

\* A key on a page that is being collected has left since the page was asked for, if
\* at all; one on a cached page, since the page was asked for or while it lives.
PageInv ==
  /\ \A p \in Procs : \A k \in page[p].members :
       rows[k].token = page[p].token \/ left[k] <= page[p].age
  /\ \A p \in Procs, t \in Tokens : \A k \in cache[p][t].keys :
       /\ cache[p][t].life > 0
       /\ rows[k].token = t \/ left[k] + cache[p][t].life <= Long

\* What has nothing to do with rows and pages.
LEMMA Rest ==
  ASSUME NEW j \in Jobs,
         \/ CreateKey(j) \/ RotateKey(j) \/ AddServers(j) \/ RemoveServerFrom(j) \/ DeleteKey(j)
         \/ MirrorNext(j) \/ Calls(j) \/ Refused(j) \/ Fails(j)
  PROVE  UNCHANGED <<cache, page, left, rows>>
<1>1. ASSUME NEW record, NEW asked, Begin(j, record, asked)
      PROVE  UNCHANGED <<cache, page, left, rows>>
  BY <1>1 DEF Begin, pages
<1>2. CASE CreateKey(j) \/ RotateKey(j) \/ AddServers(j) \/ RemoveServerFrom(j) \/ DeleteKey(j)
  BY <1>1, <1>2, Zenon DEF CreateKey, RotateKey, AddServers, RemoveServerFrom, DeleteKey
<1>3. CASE MirrorNext(j) \/ Calls(j) \/ Refused(j) \/ Fails(j)
  BY <1>3, Zenon DEF MirrorNext, Calls, Refused, Fails, pages
<1> QED BY <1>2, <1>3

LEMMA PageTypeStep == PageType /\ [Next]_vars => PageType'
<1> SUFFICES ASSUME PageType, [Next]_vars PROVE PageType'
  OBVIOUS
<1> USE ConstantsAssumption DEF PageType
<1>1. CASE UNCHANGED <<cache, page, left, rows>>
  BY <1>1
<1>2. NoEntry \in [keys : SUBSET Keys, life : 0..Ttl] /\ 0 \in 0..Long
  BY DEF NoEntry, Long
<1>3. NoPage \in [token : Tokens \cup {None}, members : SUBSET Keys, age : 0..CollectLimit]
  BY DEF NoPage
<1>4. ASSUME NEW j \in Jobs, DeleteServer(j) PROVE PageType'
  BY <1>2, <1>4 DEF DeleteServer, pages
<1>5. ASSUME NEW j \in Jobs, Writes(j) PROVE PageType'
  BY <1>2, <1>5 DEF Writes, pages
<1>6. ASSUME NEW j \in Jobs, Forgets(j) PROVE PageType'
  BY <1>2, <1>6 DEF Forgets
<1>7. ASSUME NEW p \in Procs, Ask(p) PROVE PageType'
  BY <1>7 DEF Ask, Members
<1>8. ASSUME NEW p \in Procs, Answer(p) PROVE PageType'
  BY <1>2, <1>3, <1>8 DEF Answer
<1>9. ASSUME NEW p \in Procs, PageFails(p) PROVE PageType'
  BY <1>3, <1>9 DEF PageFails
<1>10. ASSUME NEW p \in Procs, Crash(p) PROVE PageType'
  BY <1>2, <1>3, <1>10 DEF Crash
<1>11. CASE Tick
  <2>1. \A p \in Procs, t \in Tokens : Older(cache[p][t]) \in [keys : SUBSET Keys, life : 0..Ttl]
    <3> SUFFICES ASSUME NEW p \in Procs, NEW t \in Tokens
                 PROVE  Older(cache[p][t]) \in [keys : SUBSET Keys, life : 0..Ttl]
      OBVIOUS
    <3>1. cache[p][t] \in [keys : SUBSET Keys, life : 0..Ttl]
      OBVIOUS
    <3>2. CASE cache[p][t].life <= 1
      BY <1>2, <3>2 DEF Older
    <3>3. CASE ~(cache[p][t].life <= 1)
      <4>1. cache[p][t].life - 1 \in 0..Ttl
        BY <3>3
      <4> QED BY <3>1, <3>3, <4>1 DEF Older
    <3> QED BY <3>2, <3>3
  <2>2. cache' \in [Procs -> [Tokens -> [keys : SUBSET Keys, life : 0..Ttl]]]
    BY <1>11, <2>1 DEF Tick
  <2>3. \A p \in Procs : page[p].token # None => page[p].age + 1 \in 0..CollectLimit
    BY <1>11 DEF Tick
  <2>4. page' \in [Procs -> [token : Tokens \cup {None}, members : SUBSET Keys,
                           age : 0..CollectLimit]]
    BY <1>3, <1>11, <2>3 DEF Tick
  <2>5. left' \in [Keys -> 0..Long] /\ rows' = rows
    BY <1>11 DEF Tick, Long
  <2> QED BY <2>2, <2>4, <2>5
<1>12. ASSUME NEW j \in Jobs, Request(j) \/ Acts(j) \/ Fails(j) PROVE PageType'
  BY <1>1, <1>4, <1>5, <1>6, <1>12, Rest DEF Request, Acts
<1> QED
  BY <1>1, <1>7, <1>8, <1>9, <1>10, <1>11, <1>12 DEF Next, vars, pages

LEMMA PageStep == PageType /\ PageInv /\ [Next]_vars => PageInv'
<1> SUFFICES ASSUME PageType, PageInv, [Next]_vars PROVE PageInv'
  OBVIOUS
<1>0. PageType'
  BY PageTypeStep
<1>1. CASE UNCHANGED <<cache, page, left, rows>>
  BY <1>1 DEF PageInv
<1>2. ASSUME UNCHANGED <<cache, page>>,
             \A k \in Keys : left'[k] = 0 \/ (left'[k] = left[k] /\ rows'[k].token = rows[k].token)
      PROVE  PageInv'
  <2>1. ASSUME NEW p \in Procs, NEW k \in page[p].members
        PROVE  rows'[k].token = page[p].token \/ left'[k] <= page[p].age
    <3>1. k \in Keys /\ page[p].age \in Nat
      BY ConstantsAssumption DEF PageType
    <3> QED BY <1>2, <2>1, <3>1 DEF PageInv
  <2>2. ASSUME NEW p \in Procs, NEW t \in Tokens, NEW k \in cache[p][t].keys
        PROVE  rows'[k].token = t \/ left'[k] + cache[p][t].life <= Long
    <3>1. k \in Keys /\ cache[p][t].life \in 0..Ttl /\ cache[p][t].life <= Long
      BY ConstantsAssumption DEF PageType, Long
    <3> QED BY <1>2, <2>2, <3>1 DEF PageInv
  <2> QED BY <1>2, <2>1, <2>2 DEF PageInv
<1>3. ASSUME NEW j \in Jobs, DeleteServer(j) PROVE PageInv'
  <2>1. UNCHANGED <<cache, page>>
    BY <1>3 DEF DeleteServer, pages
  <2>2. \A k \in Keys : left'[k] = 0 \/ (left'[k] = left[k] /\ rows'[k].token = rows[k].token)
    BY <1>3 DEF DeleteServer, PageType
  <2> QED BY <1>2, <2>1, <2>2
<1>4. ASSUME NEW j \in Jobs, Writes(j) PROVE PageInv'
  <2>1. UNCHANGED <<cache, page>>
    BY <1>4 DEF Writes, pages
  <2>2. \A k \in Keys : left'[k] = 0 \/ (left'[k] = left[k] /\ rows'[k].token = rows[k].token)
    <3> DEFINE n == Step(j).key
    <3>1. rows' = [rows EXCEPT ![n] = Written(Step(j))]
      BY <1>4 DEF Writes
    <3>2. left' = IF rows'[n].token # rows[n].token THEN [left EXCEPT ![n] = 0] ELSE left
      BY <1>4 DEF Writes
    <3> HIDE DEF n
    <3> QED BY <3>1, <3>2 DEF PageType
  <2> QED BY <1>2, <2>1, <2>2
<1>6. ASSUME NEW p \in Procs, Ask(p) PROVE PageInv'
  <2>1. PICK t \in Tokens :
          page' = [page EXCEPT ![p] = [token |-> t, members |-> Members(t), age |-> 0]]
    BY <1>6 DEF Ask
  <2>2. UNCHANGED <<cache, left, rows>>
    BY <1>6 DEF Ask
  <2>3. ASSUME NEW q \in Procs, NEW k \in page'[q].members
        PROVE  rows[k].token = page'[q].token \/ left[k] <= page'[q].age
    <3>1. CASE q = p
      BY <2>1, <2>3, <3>1 DEF PageType, Members
    <3>2. CASE q # p
      BY <2>1, <2>3, <3>2 DEF PageType, PageInv
    <3> QED BY <3>1, <3>2
  <2> QED BY <2>2, <2>3 DEF PageInv
<1>7. ASSUME NEW p \in Procs, page' = [page EXCEPT ![p] = NoPage], UNCHANGED <<left, rows>>,
             \A q \in Procs, t \in Tokens : \A k \in cache'[q][t].keys :
               \/ k \in cache[q][t].keys /\ cache'[q][t] = cache[q][t]
               \/ q = p /\ t = page[p].token /\ k \in page[p].members /\ Ttl > 0
                  /\ cache'[q][t].life = Ttl
      PROVE  PageInv'
  <2>1. ASSUME NEW q \in Procs, NEW k \in page'[q].members
        PROVE  rows[k].token = page'[q].token \/ left[k] <= page'[q].age
    BY <1>7, <2>1 DEF PageType, PageInv, NoPage
  <2>2. ASSUME NEW q \in Procs, NEW t \in Tokens, NEW k \in cache'[q][t].keys
        PROVE  cache'[q][t].life > 0 /\ (rows[k].token = t \/ left[k] + cache'[q][t].life <= Long)
    <3>1. CASE k \in cache[q][t].keys /\ cache'[q][t] = cache[q][t]
      BY <2>2, <3>1 DEF PageInv
    <3>2. CASE q = p /\ t = page[p].token /\ k \in page[p].members /\ Ttl > 0
               /\ cache'[q][t].life = Ttl
      <4>1. k \in Keys /\ left[k] \in Nat /\ page[p].age \in 0..CollectLimit
        BY <3>2, ConstantsAssumption DEF PageType
      <4>2. rows[k].token = t \/ left[k] <= CollectLimit
        BY <3>2, <4>1, ConstantsAssumption DEF PageInv
      <4> QED BY <3>2, <4>1, <4>2, ConstantsAssumption DEF Long
    <3> QED BY <1>7, <2>2, <3>1, <3>2
  <2> QED BY <1>7, <2>1, <2>2 DEF PageInv
<1>8. ASSUME NEW p \in Procs, Answer(p) PROVE PageInv'
  <2>1. PICK got \in SUBSET {k \in page[p].members : Exists(k)}, full \in BOOLEAN :
          cache' = IF Ttl = 0 THEN cache ELSE [cache EXCEPT ![p] =
            [t \in Tokens |-> IF t = page[p].token THEN [keys |-> got, life |-> Ttl]
                              ELSE IF full THEN NoEntry ELSE cache[p][t]]]
    BY <1>8 DEF Answer
  <2>2. ASSUME NEW q \in Procs, NEW t \in Tokens, NEW k \in cache'[q][t].keys
        PROVE  \/ k \in cache[q][t].keys /\ cache'[q][t] = cache[q][t]
               \/ q = p /\ t = page[p].token /\ k \in page[p].members /\ Ttl > 0
                  /\ cache'[q][t].life = Ttl
    <3>1. CASE Ttl = 0 \/ q # p
      BY <2>1, <2>2, <3>1 DEF PageType
    <3>2. CASE Ttl # 0 /\ q = p
      <4>1. cache'[q][t] = IF t = page[p].token THEN [keys |-> got, life |-> Ttl]
                           ELSE IF full THEN NoEntry ELSE cache[p][t]
        BY <2>1, <3>2 DEF PageType
      <4> QED BY <2>2, <3>2, <4>1, ConstantsAssumption DEF NoEntry
    <3> QED BY <3>1, <3>2
  <2>3. page' = [page EXCEPT ![p] = NoPage] /\ UNCHANGED <<left, rows>>
    BY <1>8 DEF Answer
  <2> QED BY <1>7, <2>2, <2>3
<1>9. ASSUME NEW p \in Procs, PageFails(p) PROVE PageInv'
  BY <1>7, <1>9 DEF PageFails
<1>10. ASSUME NEW p \in Procs, Crash(p) PROVE PageInv'
  <2>1. \A q \in Procs, t \in Tokens : cache'[q][t] \in {NoEntry, cache[q][t]}
    BY <1>10 DEF Crash, PageType
  <2>2. NoEntry.keys = {}
    BY DEF NoEntry
  <2>3. page' = [page EXCEPT ![p] = NoPage] /\ UNCHANGED <<left, rows>>
    BY <1>10 DEF Crash
  <2> QED BY <1>7, <2>1, <2>2, <2>3
<1>11. CASE Tick
  <2>1. ASSUME NEW q \in Procs, NEW k \in page'[q].members
        PROVE  rows'[k].token = page'[q].token \/ left'[k] <= page'[q].age
    <3>1. page[q].token # None
      BY <1>11, <2>1 DEF Tick, NoPage
    <3>2. page'[q] = [page[q] EXCEPT !.age = page[q].age + 1]
      BY <1>11, <3>1 DEF Tick
    <3>3. page'[q].token = page[q].token /\ page'[q].age = page[q].age + 1
          /\ k \in page[q].members
      BY <2>1, <3>2 DEF PageType
    <3>4. k \in Keys /\ left[k] \in 0..Long /\ page[q].age \in Nat
      BY <3>3, ConstantsAssumption DEF PageType
    <3>5. left'[k] <= left[k] + 1 /\ rows' = rows
      BY <1>11, <3>4, ConstantsAssumption DEF Tick, Long
    <3>6. rows[k].token = page[q].token \/ left[k] <= page[q].age
      BY <3>3 DEF PageInv
    <3>7. left'[k] \in Nat
      BY <1>0, <3>4, ConstantsAssumption DEF PageType, Long
    <3> QED BY <3>3, <3>4, <3>5, <3>6, <3>7
  <2>2. ASSUME NEW q \in Procs, NEW t \in Tokens, NEW k \in cache'[q][t].keys
        PROVE  cache'[q][t].life > 0 /\ (rows'[k].token = t \/ left'[k] + cache'[q][t].life <= Long)
    <3>1. cache'[q][t] = Older(cache[q][t])
      BY <1>11 DEF Tick
    <3>2. cache[q][t].life > 1 /\ cache'[q][t] = [cache[q][t] EXCEPT !.life = cache[q][t].life - 1]
      BY <2>2, <3>1, ConstantsAssumption DEF PageType, Older, NoEntry
    <3>3. cache'[q][t].life = cache[q][t].life - 1 /\ k \in cache[q][t].keys
      BY <2>2, <3>2 DEF PageType
    <3>4. k \in Keys /\ left[k] \in 0..Long /\ cache[q][t].life \in Nat
      BY <3>3, ConstantsAssumption DEF PageType
    <3>5. left'[k] <= left[k] + 1 /\ left'[k] \in Nat /\ rows' = rows
      BY <1>11, <3>4, ConstantsAssumption DEF Tick, Long
    <3> QED BY <3>2, <3>3, <3>4, <3>5, ConstantsAssumption DEF PageInv, Long
  <2> QED BY <2>1, <2>2 DEF PageInv
<1>12. ASSUME NEW j \in Jobs, Forgets(j) PROVE PageInv'
  <2>1. \A q \in Procs, t \in Tokens : cache'[q][t] \in {NoEntry, cache[q][t]}
    BY <1>12 DEF Forgets, PageType
  <2>2. NoEntry.keys = {} /\ UNCHANGED <<page, left, rows>>
    BY <1>12 DEF NoEntry, Forgets
  <2> QED BY <2>1, <2>2 DEF PageInv
<1>13. ASSUME NEW j \in Jobs, Request(j) \/ Acts(j) \/ Fails(j) PROVE PageInv'
  BY <1>1, <1>3, <1>4, <1>12, <1>13, Rest DEF Request, Acts
<1> QED
  BY <1>1, <1>6, <1>8, <1>9, <1>10, <1>11, <1>13, ConstantsAssumption DEF Next, vars, pages

\* However pages are collected, cached, forgotten, lost and answered late while requests
\* run, fail and die in any number of processes, a config that has left its subscription
\* is not served for longer than the page took to collect and an entry lives.
THEOREM PagesAreRecent == Spec => []PageIsRecent
<1>1. Init => PageType /\ PageInv
  <2> SUFFICES ASSUME Init PROVE PageType /\ PageInv
    OBVIOUS
  <2>1. DOMAIN rows = Keys
    BY DEF Init
  <2>2. PageType
    BY <2>1, ConstantsAssumption DEF Init, PageType, NoEntry, NoPage, Long
  <2> QED BY <2>2 DEF Init, PageInv, NoEntry, NoPage
<1>2. PageType /\ PageInv => PageIsRecent
  <2> SUFFICES ASSUME PageType, PageInv, NEW p \in Procs, NEW t \in Tokens,
                      NEW k \in cache[p][t].keys
               PROVE  rows[k].token = t \/ left[k] < Long
    BY DEF PageIsRecent
  <2>1. k \in Keys /\ left[k] \in Nat /\ cache[p][t].life \in Nat
    BY ConstantsAssumption DEF PageType
  <2> QED BY <2>1, ConstantsAssumption DEF PageInv, Long
<1> QED BY <1>1, <1>2, PageTypeStep, PageStep, PTL DEF Spec

-----------------------------------------------------------------------------
(* Steps, and their order in every plan *)

Opens(n) == Api(n, "open", "stop")
Blocks(n, f) == Api(n, "blocked", f)
Inserts(n) == Row(n, Fresh, "undo")
Starts(n) == Row(n, [begun |-> TRUE, ends |-> TRUE], "undo")
StartsEndless(n) == Row(n, [begun |-> TRUE, ends |-> FALSE], "undo")
Starting(n, m) == IF m.ends THEN Starts(n) ELSE StartsEndless(n)
Suspends(n) == Row(n, [off |-> TRUE], "undo")
Links(n, t) == Row(n, [token |-> t], "undo")
Deletes(k, f) == Api(k, "deleted", f)
Unlinks(k) == Row(k, [token |-> None], "stop")
Erases(k) == Row(k, NoRow, "stop")

Steps ==
  {Opens(n) : n \in Keys} \cup {Blocks(n, f) : n \in Keys, f \in {"stop", "undo"}}
    \cup {Inserts(n) : n \in Keys} \cup {Starts(n) : n \in Keys} \cup {StartsEndless(n) : n \in Keys}
    \cup {Suspends(n) : n \in Keys} \cup {Links(n, t) : n \in Keys, t \in Tokens}
    \cup {Deletes(k, f) : k \in Keys, f \in {"stop", "skip"}}
    \cup {Unlinks(k) : k \in Keys} \cup {Erases(k) : k \in Keys} \cup {Forget(t) : t \in Tokens}

\* Whatever an operation does, it does in this order. A clone is blocked before it has a
\* row, a key that replaces another afterwards.
Rank(s) ==
  IF s.on = "outline"
  THEN IF s.to = "open" THEN 1
       ELSE IF s.to = "blocked" THEN (IF s.fails = "stop" THEN 2 ELSE 5)
       ELSE IF s.fails = "skip" THEN 8 ELSE 9
  ELSE IF s.on = "row"
  THEN IF s.fails = "undo"
       THEN IF "known" \in DOMAIN s.to THEN 3 ELSE IF "begun" \in DOMAIN s.to THEN 4
            ELSE IF "off" \in DOMAIN s.to THEN 6 ELSE 7
       ELSE IF "known" \in DOMAIN s.to THEN 11 ELSE 10
  ELSE 12

\* A step on the way to a new key behind the link.
Makes(s) == Rank(s) <= 7

\* The fields and ranks of each kind of step.
LEMMA StepsAre ==
  /\ \A n : Opens(n).on = "outline" /\ Opens(n).key = n /\ Opens(n).to = "open"
            /\ Opens(n).fails = "stop" /\ Rank(Opens(n)) = 1
  /\ \A n, f : Blocks(n, f).on = "outline" /\ Blocks(n, f).key = n /\ Blocks(n, f).to = "blocked"
               /\ Blocks(n, f).fails = f
  /\ \A n : Rank(Blocks(n, "stop")) = 2 /\ Rank(Blocks(n, "undo")) = 5
  /\ \A n, f : Deletes(n, f).on = "outline" /\ Deletes(n, f).key = n /\ Deletes(n, f).to = "deleted"
               /\ Deletes(n, f).fails = f
  /\ \A n : Rank(Deletes(n, "skip")) = 8 /\ Rank(Deletes(n, "stop")) = 9
<1>1. \A n : Opens(n).on = "outline" /\ Opens(n).key = n /\ Opens(n).to = "open"
            /\ Opens(n).fails = "stop"
  BY DEF Opens, Api
<1>2. \A n, f : Blocks(n, f).on = "outline" /\ Blocks(n, f).key = n /\ Blocks(n, f).to = "blocked"
               /\ Blocks(n, f).fails = f
  BY DEF Blocks, Api
<1>3. \A n, f : Deletes(n, f).on = "outline" /\ Deletes(n, f).key = n /\ Deletes(n, f).to = "deleted"
               /\ Deletes(n, f).fails = f
  BY DEF Deletes, Api
<1>4. \A n : Rank(Opens(n)) = 1
  BY <1>1 DEF Rank
<1>5. \A n : Rank(Blocks(n, "stop")) = 2 /\ Rank(Blocks(n, "undo")) = 5
  BY <1>2 DEF Rank
<1>6. \A n : Rank(Deletes(n, "skip")) = 8 /\ Rank(Deletes(n, "stop")) = 9
  BY <1>3 DEF Rank
<1> QED BY <1>1, <1>2, <1>3, <1>4, <1>5, <1>6

LEMMA RowStepsAre ==
  /\ \A n : Inserts(n).on = "row" /\ Inserts(n).key = n /\ Inserts(n).to = Fresh
            /\ Inserts(n).fails = "undo" /\ Rank(Inserts(n)) = 3
  /\ \A n : /\ Starts(n).on = "row" /\ Starts(n).key = n
            /\ Starts(n).to = [begun |-> TRUE, ends |-> TRUE]
            /\ Starts(n).fails = "undo" /\ Rank(Starts(n)) = 4
  /\ \A n : /\ StartsEndless(n).on = "row" /\ StartsEndless(n).key = n
            /\ StartsEndless(n).to = [begun |-> TRUE, ends |-> FALSE]
            /\ StartsEndless(n).fails = "undo" /\ Rank(StartsEndless(n)) = 4
  /\ \A n : Suspends(n).on = "row" /\ Suspends(n).key = n /\ Suspends(n).to = [off |-> TRUE]
            /\ Suspends(n).fails = "undo" /\ Rank(Suspends(n)) = 6
  /\ \A n, t : Links(n, t).on = "row" /\ Links(n, t).key = n /\ Links(n, t).to = [token |-> t]
               /\ Links(n, t).fails = "undo" /\ Rank(Links(n, t)) = 7
  /\ \A n : Unlinks(n).on = "row" /\ Unlinks(n).key = n /\ Unlinks(n).to = [token |-> None]
            /\ Unlinks(n).fails = "stop" /\ Rank(Unlinks(n)) = 10
  /\ \A n : Erases(n).on = "row" /\ Erases(n).key = n /\ Erases(n).to = NoRow
            /\ Erases(n).fails = "stop" /\ Rank(Erases(n)) = 11
  /\ \A t : Forget(t).on = "cache" /\ Forget(t).to = t /\ Forget(t).fails = "never"
            /\ Rank(Forget(t)) = 12
<1>1. ASSUME NEW n
      PROVE  Inserts(n).on = "row" /\ Inserts(n).key = n /\ Inserts(n).to = Fresh
             /\ Inserts(n).fails = "undo" /\ Rank(Inserts(n)) = 3
  <2>1. "known" \in DOMAIN Fresh
    BY DEF Fresh, NoRow
  <2> QED BY <2>1 DEF Inserts, Row, Rank
<1>2. ASSUME NEW n
      PROVE  /\ Starts(n).on = "row" /\ Starts(n).key = n
             /\ Starts(n).to = [begun |-> TRUE, ends |-> TRUE]
             /\ Starts(n).fails = "undo" /\ Rank(Starts(n)) = 4
             /\ StartsEndless(n).on = "row" /\ StartsEndless(n).key = n
             /\ StartsEndless(n).to = [begun |-> TRUE, ends |-> FALSE]
             /\ StartsEndless(n).fails = "undo" /\ Rank(StartsEndless(n)) = 4
  BY DEF Starts, StartsEndless, Row, Rank
<1>3. ASSUME NEW n
      PROVE  Suspends(n).on = "row" /\ Suspends(n).key = n /\ Suspends(n).to = [off |-> TRUE]
             /\ Suspends(n).fails = "undo" /\ Rank(Suspends(n)) = 6
  BY DEF Suspends, Row, Rank
<1>4. ASSUME NEW n, NEW t
      PROVE  Links(n, t).on = "row" /\ Links(n, t).key = n /\ Links(n, t).to = [token |-> t]
             /\ Links(n, t).fails = "undo" /\ Rank(Links(n, t)) = 7
  BY DEF Links, Row, Rank
<1>5. ASSUME NEW n
      PROVE  Unlinks(n).on = "row" /\ Unlinks(n).key = n /\ Unlinks(n).to = [token |-> None]
             /\ Unlinks(n).fails = "stop" /\ Rank(Unlinks(n)) = 10
  BY DEF Unlinks, Row, Rank
<1>6. ASSUME NEW n
      PROVE  Erases(n).on = "row" /\ Erases(n).key = n /\ Erases(n).to = NoRow
             /\ Erases(n).fails = "stop" /\ Rank(Erases(n)) = 11
  <2>1. "known" \in DOMAIN NoRow
    BY DEF NoRow
  <2> QED BY <2>1 DEF Erases, Row, Rank
<1>7. ASSUME NEW t
      PROVE  Forget(t).on = "cache" /\ Forget(t).to = t /\ Forget(t).fails = "never"
             /\ Rank(Forget(t)) = 12
  BY DEF Forget, Rank
<1> QED BY <1>1, <1>2, <1>3, <1>4, <1>5, <1>6, <1>7

\* What a step is, by its rank.
LEMMA Kinds ==
  ASSUME NEW s \in Steps
  PROVE  /\ Rank(s) \in 1..12
         /\ Rank(s) # 12 => s.key \in Keys
         /\ Rank(s) = 1 => s = Opens(s.key)
         /\ Rank(s) = 2 => s = Blocks(s.key, "stop")
         /\ Rank(s) = 3 => s = Inserts(s.key)
         /\ Rank(s) = 4 => s \in {Starts(s.key), StartsEndless(s.key)}
         /\ Rank(s) = 5 => s = Blocks(s.key, "undo")
         /\ Rank(s) = 6 => s = Suspends(s.key)
         /\ Rank(s) = 7 => \E t \in Tokens : s = Links(s.key, t)
         /\ Rank(s) = 8 => s = Deletes(s.key, "skip")
         /\ Rank(s) = 9 => s = Deletes(s.key, "stop")
         /\ Rank(s) = 10 => s = Unlinks(s.key)
         /\ Rank(s) = 11 => s = Erases(s.key)
         /\ Rank(s) = 12 => \E t \in Tokens : s = Forget(t)
<1> DEFINE Goal ==
         /\ Rank(s) \in 1..12
         /\ Rank(s) # 12 => s.key \in Keys
         /\ Rank(s) = 1 => s = Opens(s.key)
         /\ Rank(s) = 2 => s = Blocks(s.key, "stop")
         /\ Rank(s) = 3 => s = Inserts(s.key)
         /\ Rank(s) = 4 => s \in {Starts(s.key), StartsEndless(s.key)}
         /\ Rank(s) = 5 => s = Blocks(s.key, "undo")
         /\ Rank(s) = 6 => s = Suspends(s.key)
         /\ Rank(s) = 7 => \E t \in Tokens : s = Links(s.key, t)
         /\ Rank(s) = 8 => s = Deletes(s.key, "skip")
         /\ Rank(s) = 9 => s = Deletes(s.key, "stop")
         /\ Rank(s) = 10 => s = Unlinks(s.key)
         /\ Rank(s) = 11 => s = Erases(s.key)
         /\ Rank(s) = 12 => \E t \in Tokens : s = Forget(t)
<1>1. CASE \E n \in Keys : s = Opens(n)
  BY <1>1, StepsAre
<1>2. CASE \E n \in Keys, f \in {"stop", "undo"} : s = Blocks(n, f)
  BY <1>2, StepsAre
<1>3. CASE \E n \in Keys : s = Inserts(n)
  BY <1>3, RowStepsAre
<1>4. CASE \E n \in Keys : s = Starts(n) \/ s = StartsEndless(n)
  BY <1>4, RowStepsAre
<1>5. CASE \E n \in Keys : s = Suspends(n)
  BY <1>5, RowStepsAre
<1>6. CASE \E n \in Keys, t \in Tokens : s = Links(n, t)
  BY <1>6, RowStepsAre
<1>7. CASE \E n \in Keys, f \in {"stop", "skip"} : s = Deletes(n, f)
  BY <1>7, StepsAre
<1>8. CASE \E n \in Keys : s = Unlinks(n)
  BY <1>8, RowStepsAre
<1>9. CASE \E n \in Keys : s = Erases(n)
  BY <1>9, RowStepsAre
<1>10. CASE \E t \in Tokens : s = Forget(t)
  BY <1>10, RowStepsAre
<1>11. Goal
  BY <1>1, <1>2, <1>3, <1>4, <1>5, <1>6, <1>7, <1>8, <1>9, <1>10 DEF Steps
<1> QED BY <1>11

\* What a step does when it raises, and where it is made, by its rank.
LEMMA StepFields ==
  ASSUME NEW s \in Steps
  PROVE  /\ s.fails = "undo" => Rank(s) \in 3..7 /\ s.key \in Keys
         /\ s.fails = "skip" => Rank(s) = 8 /\ s.key \in Keys
         /\ s.fails = "stop" => Rank(s) \in {1, 2, 9, 10, 11} /\ s.key \in Keys
         /\ s.fails \notin {"undo", "skip", "stop"} => s.fails = "never" /\ Rank(s) = 12
         /\ s.on = "outline" => /\ Rank(s) \in {1, 2, 5, 8, 9} /\ s.key \in Keys
                               /\ \/ Rank(s) = 1 /\ s.to = "open"
                                  \/ Rank(s) \in {2, 5} /\ s.to = "blocked"
                                  \/ Rank(s) \in {8, 9} /\ s.to = "deleted"
         /\ s.on = "row" => Rank(s) \in {3, 4, 6, 7, 10, 11} /\ s.key \in Keys
         /\ s.on = "cache" => Rank(s) = 12
         /\ s.on \in {"outline", "row", "cache"}
<1> DEFINE WhenRaised ==
         /\ s.fails = "undo" => Rank(s) \in 3..7 /\ s.key \in Keys
         /\ s.fails = "skip" => Rank(s) = 8 /\ s.key \in Keys
         /\ s.fails = "stop" => Rank(s) \in {1, 2, 9, 10, 11} /\ s.key \in Keys
         /\ s.fails \notin {"undo", "skip", "stop"} => s.fails = "never" /\ Rank(s) = 12
           WhereMade ==
         /\ s.on = "outline" => /\ Rank(s) \in {1, 2, 5, 8, 9} /\ s.key \in Keys
                               /\ \/ Rank(s) = 1 /\ s.to = "open"
                                  \/ Rank(s) \in {2, 5} /\ s.to = "blocked"
                                  \/ Rank(s) \in {8, 9} /\ s.to = "deleted"
         /\ s.on = "row" => Rank(s) \in {3, 4, 6, 7, 10, 11} /\ s.key \in Keys
         /\ s.on = "cache" => Rank(s) = 12
         /\ s.on \in {"outline", "row", "cache"}
<1>1. /\ Rank(s) \in 1..12
      /\ Rank(s) # 12 => s.key \in Keys
  BY Kinds
<1>2. CASE Rank(s) = 1
  <2>1. s = Opens(s.key)
    BY <1>2, Kinds
  <2>2. s.fails = "stop" /\ s.to = "open" /\ s.on = "outline"
    BY <2>1, StepsAre
  <2>3. WhenRaised
    BY <1>1, <1>2, <2>2
  <2>4. WhereMade
    BY <1>1, <1>2, <2>2
  <2> QED BY <2>3, <2>4
<1>3. CASE Rank(s) = 2
  <2>1. s = Blocks(s.key, "stop")
    BY <1>3, Kinds
  <2>2. s.fails = "stop" /\ s.to = "blocked" /\ s.on = "outline"
    BY <2>1, StepsAre
  <2>3. WhenRaised
    BY <1>1, <1>3, <2>2
  <2>4. WhereMade
    BY <1>1, <1>3, <2>2
  <2> QED BY <2>3, <2>4
<1>4. CASE Rank(s) = 5
  <2>1. s = Blocks(s.key, "undo")
    BY <1>4, Kinds
  <2>2. s.fails = "undo" /\ s.to = "blocked" /\ s.on = "outline"
    BY <2>1, StepsAre
  <2>3. WhenRaised
    BY <1>1, <1>4, <2>2
  <2>4. WhereMade
    BY <1>1, <1>4, <2>2
  <2> QED BY <2>3, <2>4
<1>5. CASE Rank(s) = 8
  <2>1. s = Deletes(s.key, "skip")
    BY <1>5, Kinds
  <2>2. s.fails = "skip" /\ s.to = "deleted" /\ s.on = "outline"
    BY <2>1, StepsAre
  <2>3. WhenRaised
    BY <1>1, <1>5, <2>2
  <2>4. WhereMade
    BY <1>1, <1>5, <2>2
  <2> QED BY <2>3, <2>4
<1>6. CASE Rank(s) = 9
  <2>1. s = Deletes(s.key, "stop")
    BY <1>6, Kinds
  <2>2. s.fails = "stop" /\ s.to = "deleted" /\ s.on = "outline"
    BY <2>1, StepsAre
  <2>3. WhenRaised
    BY <1>1, <1>6, <2>2
  <2>4. WhereMade
    BY <1>1, <1>6, <2>2
  <2> QED BY <2>3, <2>4
<1>7. CASE Rank(s) \in {3, 4, 6, 7}
  <2>1. s.on = "row" /\ s.fails = "undo"
    BY <1>7, Kinds, RowStepsAre
  <2>3. WhenRaised
    BY <1>1, <1>7, <2>1
  <2>4. WhereMade
    BY <1>1, <1>7, <2>1
  <2> QED BY <2>3, <2>4
<1>8. CASE Rank(s) \in {10, 11}
  <2>1. s.on = "row" /\ s.fails = "stop"
    BY <1>8, Kinds, RowStepsAre
  <2>3. WhenRaised
    BY <1>1, <1>8, <2>1
  <2>4. WhereMade
    BY <1>1, <1>8, <2>1
  <2> QED BY <2>3, <2>4
<1>9. CASE Rank(s) = 12
  <2>1. s.on = "cache" /\ s.fails = "never"
    BY <1>9, Kinds, RowStepsAre
  <2>3. WhenRaised
    BY <1>9, <2>1
  <2>4. WhereMade
    BY <1>9, <2>1
  <2> QED BY <2>3, <2>4
<1>10. WhenRaised /\ WhereMade
  BY <1>1, <1>2, <1>3, <1>4, <1>5, <1>6, <1>7, <1>8, <1>9
<1> QED BY <1>10

\* p is a plan of the steps A, in their order.
Of(p) == {p[i] : i \in DOMAIN p}
InOrder(p) == \A h, i \in DOMAIN p : h < i => Rank(p[h]) < Rank(p[i])
Plan(p, A) == p \in Seq(Steps) /\ InOrder(p) /\ Of(p) = A

LEMMA NonePlanned == Plan(<<>>, {})
BY DEF Plan, Of, InOrder

LEMMA OnePlanned == ASSUME NEW s \in Steps PROVE Plan(<<s>>, {s})
BY DEF Plan, Of, InOrder

LEMMA TwoPlanned ==
  ASSUME NEW r \in Steps, NEW s \in Steps, Rank(r) < Rank(s)
  PROVE  Plan(<<r, s>>, {r, s})
<1> DEFINE p == <<r, s>>
<1>1. DOMAIN p = {1, 2} /\ p[1] = r /\ p[2] = s /\ p \in Seq(Steps)
  OBVIOUS
<1> HIDE DEF p
<1>2. Of(p) = {r, s}
  BY <1>1 DEF Of
<1>3. InOrder(p)
  BY <1>1 DEF InOrder
<1> QED BY <1>1, <1>2, <1>3 DEF Plan, p

LEMMA JoinPlanned ==
  ASSUME NEW p, NEW A, Plan(p, A), NEW q, NEW B, Plan(q, B), \A a \in A, b \in B : Rank(a) < Rank(b)
  PROVE  Plan(p \o q, A \cup B)
<1> DEFINE m == Len(p)
           n == Len(q)
           pq == p \o q
<1>1. p \in Seq(Steps) /\ q \in Seq(Steps) /\ InOrder(p) /\ InOrder(q) /\ Of(p) = A /\ Of(q) = B
  BY DEF Plan
<1>2. /\ m \in Nat /\ n \in Nat /\ DOMAIN p = 1..m /\ DOMAIN q = 1..n /\ DOMAIN pq = 1 .. m + n
      /\ pq \in Seq(Steps)
      /\ \A i \in 1 .. m + n : pq[i] = IF i <= m THEN p[i] ELSE q[i - m]
  BY <1>1, ConcatProperties
<1> HIDE DEF m, n, pq
<1>3. \A i \in 1 .. m + n : \/ i \in 1..m /\ pq[i] = p[i] /\ pq[i] \in A
                            \/ i - m \in 1..n /\ i > m /\ pq[i] = q[i - m] /\ pq[i] \in B
  <2>1. (\A i \in 1..m : p[i] \in A) /\ (\A i \in 1..n : q[i] \in B)
    BY <1>1, <1>2 DEF Of
  <2> SUFFICES ASSUME NEW i \in 1 .. m + n
               PROVE  \/ i \in 1..m /\ pq[i] = p[i] /\ pq[i] \in A
                      \/ i - m \in 1..n /\ i > m /\ pq[i] = q[i - m] /\ pq[i] \in B
    OBVIOUS
  <2>2. CASE i <= m
    BY <1>2, <2>1, <2>2
  <2>3. CASE ~(i <= m)
    BY <1>2, <2>1, <2>3
  <2> QED BY <2>2, <2>3
<1>4. Of(pq) \subseteq A \cup B
  BY <1>2, <1>3 DEF Of
<1>5. A \subseteq Of(pq)
  <2> SUFFICES ASSUME NEW i \in 1..m PROVE p[i] \in Of(pq)
    BY <1>1, <1>2 DEF Of
  <2>1. i \in 1 .. m + n /\ pq[i] = p[i]
    BY <1>2
  <2> QED BY <1>2, <2>1 DEF Of
<1>6. B \subseteq Of(pq)
  <2> SUFFICES ASSUME NEW i \in 1..n PROVE q[i] \in Of(pq)
    BY <1>1, <1>2 DEF Of
  <2>1. i + m \in 1 .. m + n /\ i + m - m = i /\ ~(i + m <= m)
    BY <1>2
  <2>2. pq[i + m] = q[i]
    BY <1>2, <2>1
  <2> QED BY <1>2, <2>1, <2>2 DEF Of
<1>7. InOrder(pq)
  <2> SUFFICES ASSUME NEW h \in 1 .. m + n, NEW i \in 1 .. m + n, h < i
               PROVE  Rank(pq[h]) < Rank(pq[i])
    BY <1>2 DEF InOrder
  <2>1. CASE i <= m
    BY <1>1, <1>2, <2>1 DEF InOrder
  <2>2. CASE h > m
    <3>1. h - m \in 1..n /\ i - m \in 1..n /\ h - m < i - m
      BY <1>2, <2>2
    <3>2. pq[h] = q[h - m] /\ pq[i] = q[i - m]
      BY <1>2, <2>2
    <3> QED BY <1>1, <1>2, <3>1, <3>2 DEF InOrder
  <2>3. CASE h <= m /\ ~(i <= m)
    <3>1. pq[h] \in A /\ pq[i] \in B
      BY <1>2, <1>3, <2>3
    <3> QED BY <3>1
  <2> QED BY <1>2, <2>1, <2>2, <2>3
<1>8. Plan(pq, A \cup B)
  BY <1>2, <1>4, <1>5, <1>6, <1>7 DEF Plan
<1> QED BY <1>8 DEF pq

LEMMA WhenPlanned ==
  ASSUME NEW b \in BOOLEAN, NEW p, NEW A, b => Plan(p, A)
  PROVE  Plan(When(b, p), IF b THEN A ELSE {})
BY NonePlanned DEF When

\* The first step of a plan, and the rest.
LEMMA TailPlanned ==
  ASSUME NEW p, NEW A, Plan(p, A), p # <<>>
  PROVE  /\ Head(p) \in A /\ Plan(Tail(p), A \ {Head(p)})
         /\ \A s \in A : s = Head(p) \/ Rank(Head(p)) < Rank(s)
<1> DEFINE n == Len(p)
           q == Tail(p)
           h == Head(p)
<1>1. p \in Seq(Steps) /\ InOrder(p) /\ Of(p) = A
  BY DEF Plan
<1>2. /\ n \in Nat \ {0} /\ DOMAIN p = 1..n /\ h = p[1] /\ q \in Seq(Steps) /\ DOMAIN q = 1 .. n - 1
      /\ \A i \in 1 .. n - 1 : q[i] = p[i + 1]
  BY <1>1
<1> HIDE DEF n, q, h
<1>3. \A i \in 1..n : p[i] \in A /\ (i # 1 => Rank(h) < Rank(p[i]))
  BY <1>1, <1>2 DEF Of, InOrder
<1>4. h \in A /\ \A s \in A : s = h \/ Rank(h) < Rank(s)
  BY <1>1, <1>2, <1>3 DEF Of
<1>5. \A s \in Steps : Rank(s) \in Int
  BY Kinds
<1>6. \A i \in 1 .. n - 1 : i + 1 \in 1..n /\ q[i] \in A /\ q[i] # h
  <2> SUFFICES ASSUME NEW i \in 1 .. n - 1 PROVE i + 1 \in 1..n /\ q[i] \in A /\ q[i] # h
    OBVIOUS
  <2>1. i + 1 \in 1..n /\ i + 1 # 1 /\ q[i] = p[i + 1]
    BY <1>2
  <2>2. q[i] \in A /\ Rank(h) < Rank(q[i])
    BY <1>3, <2>1
  <2>3. p[1] \in Steps
    BY <1>1, <1>2
  <2> QED BY <1>2, <1>5, <2>1, <2>2, <2>3
<1>7. Of(q) = A \ {h}
  <2>1. Of(q) \subseteq A \ {h}
    BY <1>2, <1>6 DEF Of
  <2>2. ASSUME NEW s \in A, s # h PROVE s \in Of(q)
    <3>1. PICK i \in 1..n : s = p[i]
      BY <1>1, <1>2 DEF Of
    <3>2. i # 1
      BY <1>2, <2>2, <3>1
    <3>3. i - 1 \in 1 .. n - 1 /\ i - 1 + 1 = i
      BY <1>2, <3>2
    <3>4. q[i - 1] = s
      BY <1>2, <3>1, <3>3
    <3> QED BY <1>2, <3>3, <3>4 DEF Of
  <2> QED BY <2>1, <2>2
<1>8. InOrder(q)
  <2> SUFFICES ASSUME NEW a \in 1 .. n - 1, NEW b \in 1 .. n - 1, a < b
               PROVE  Rank(q[a]) < Rank(q[b])
    BY <1>2 DEF InOrder
  <2>1. a + 1 < b + 1 /\ a + 1 \in 1..n /\ b + 1 \in 1..n
    BY <1>2
  <2> QED BY <1>1, <1>2, <2>1 DEF InOrder
<1>9. Plan(q, A \ {h})
  BY <1>2, <1>7, <1>8 DEF Plan
<1> QED BY <1>4, <1>9 DEF q, h

LEMMA AreSteps ==
  /\ \A n \in Keys : /\ Opens(n) \in Steps /\ Inserts(n) \in Steps /\ Suspends(n) \in Steps
                     /\ Unlinks(n) \in Steps /\ Erases(n) \in Steps
                     /\ Blocks(n, "stop") \in Steps /\ Blocks(n, "undo") \in Steps
                     /\ Deletes(n, "stop") \in Steps /\ Deletes(n, "skip") \in Steps
  /\ \A n \in Keys : Starts(n) \in Steps /\ StartsEndless(n) \in Steps
  /\ \A n \in Keys, m \in Rows : Starting(n, m) \in Steps
  /\ \A n \in Keys, t \in Tokens : Links(n, t) \in Steps
  /\ \A t \in Tokens : Forget(t) \in Steps
BY DEF Steps, Starting

\* A plan of A that gets as far as rank r.
Upto(p, A, r) == Plan(p, A) /\ \A s \in A : Rank(s) <= r

LEMMA Extended ==
  ASSUME NEW p, NEW A, NEW a \in Int, Upto(p, A, a), NEW q, NEW B, Plan(q, B), NEW b \in Int, a <= b,
         \A s \in B : a < Rank(s) /\ Rank(s) <= b
  PROVE  Upto(p \o q, A \cup B, b)
<1>1. A \subseteq Steps /\ B \subseteq Steps
  BY DEF Upto, Plan, Of
<1>2. \A s \in Steps : Rank(s) \in Int
  BY Kinds
<1>3. \A r \in A, s \in B : Rank(r) < Rank(s)
  BY <1>1, <1>2 DEF Upto
<1>4. Plan(p \o q, A \cup B)
  BY <1>3, JoinPlanned DEF Upto
<1>5. \A s \in A : Rank(s) <= b
  BY <1>1, <1>2 DEF Upto
<1> QED BY <1>4, <1>5 DEF Upto

LEMMA ExtendedWhen ==
  ASSUME NEW p, NEW A, NEW a \in Int, Upto(p, A, a), NEW c \in BOOLEAN, NEW q, NEW B, c => Plan(q, B),
         NEW b \in Int, a <= b, \A s \in B : a < Rank(s) /\ Rank(s) <= b
  PROVE  Upto(p \o When(c, q), A \cup (IF c THEN B ELSE {}), b)
<1>1. Plan(When(c, q), IF c THEN B ELSE {})
  BY WhenPlanned
<1>2. \A s \in (IF c THEN B ELSE {}) : a < Rank(s) /\ Rank(s) <= b
  OBVIOUS
<1> HIDE DEF When
<1> QED BY <1>1, <1>2, Extended

\* The plans of the operations, as sets.
Create(n, t, startNow) ==
  {Opens(n), Inserts(n)} \cup (IF startNow THEN {Starts(n)} ELSE {}) \cup {Links(n, t)}
Rotate(k, n, m) ==
  {Opens(n), Inserts(n)} \cup (IF m.begun THEN {Starting(n, m)} ELSE {})
    \cup (IF m.off THEN {Blocks(n, "undo"), Suspends(n)} ELSE {})
    \cup (IF m.token # None THEN {Links(n, m.token)} ELSE {})
    \cup {Deletes(k, "skip"), Erases(k)}
    \cup (IF m.token # None THEN {Forget(m.token)} ELSE {})
Mirror(n, t, m) ==
  {Opens(n)} \cup (IF m.off THEN {Blocks(n, "stop")} ELSE {}) \cup {Inserts(n)}
    \cup (IF m.begun THEN {Starting(n, m)} ELSE {})
    \cup (IF m.off THEN {Suspends(n)} ELSE {}) \cup {Links(n, t), Forget(t)}
Remove(k, t) ==
  {Deletes(k, "stop"), Erases(k)} \cup (IF t # None THEN {Forget(t)} ELSE {})

LEMMA Ranks ==
  /\ \A n : /\ Rank(Opens(n)) = 1 /\ Rank(Blocks(n, "stop")) = 2 /\ Rank(Inserts(n)) = 3
            /\ Rank(Blocks(n, "undo")) = 5 /\ Rank(Suspends(n)) = 6
            /\ Rank(Deletes(n, "skip")) = 8 /\ Rank(Deletes(n, "stop")) = 9
            /\ Rank(Unlinks(n)) = 10 /\ Rank(Erases(n)) = 11 /\ Rank(Forget(n)) = 12
  /\ \A n : Rank(Starts(n)) = 4 /\ Rank(StartsEndless(n)) = 4
  /\ \A n, m : Rank(Starting(n, m)) = 4
  /\ \A n, t : Rank(Links(n, t)) = 7
BY StepsAre, RowStepsAre DEF Starting

LEMMA Started ==
  ASSUME NEW n, NEW m \in Rows
  PROVE  Row(n, [begun |-> TRUE, ends |-> m.ends], "undo") = Starting(n, m)
<1>1. CASE m.ends = TRUE
  BY <1>1 DEF Starting, Starts
<1>2. CASE m.ends = FALSE
  BY <1>2 DEF Starting, StartsEndless
<1> QED BY <1>1, <1>2 DEF Rows

LEMMA CreatePlanned ==
  ASSUME NEW n \in Keys, NEW t \in Tokens, NEW startNow \in BOOLEAN
  PROVE  Plan(CreateSteps(n, t, startNow), Create(n, t, startNow))
<1> DEFINE start == Starts(n)
           a == <<Opens(n), Inserts(n)>>
           b == <<start>>
           c == <<Links(n, t)>>
           A == {Opens(n), Inserts(n)}
           B == {start}
           C == {Links(n, t)}
<1>1. CreateSteps(n, t, startNow) = a \o When(startNow, b) \o c
  BY DEF CreateSteps, Opens, Inserts, Starts, Links
<1>2. Create(n, t, startNow) = A \cup (IF startNow THEN B ELSE {}) \cup C
  BY DEF Create
<1>3. Opens(n) \in Steps /\ Inserts(n) \in Steps /\ start \in Steps /\ Links(n, t) \in Steps
  BY AreSteps
<1>4. Rank(Opens(n)) = 1 /\ Rank(Inserts(n)) = 3 /\ Rank(start) = 4 /\ Rank(Links(n, t)) = 7
  BY Ranks
<1> HIDE DEF start
<1>5. Plan(a, A) /\ Plan(b, B) /\ Plan(c, C)
  BY <1>3, <1>4, OnePlanned, TwoPlanned
<1>6. /\ \A s \in A : Rank(s) <= 3
      /\ \A s \in B : 3 < Rank(s) /\ Rank(s) <= 4
      /\ \A s \in C : 4 < Rank(s) /\ Rank(s) <= 7
  BY <1>4
<1> HIDE DEF a, b, c, A, B, C
<1>7. Upto(a, A, 3)
  BY <1>5, <1>6 DEF Upto
<1>8. Upto(a \o When(startNow, b), A \cup (IF startNow THEN B ELSE {}), 4)
  BY <1>5, <1>6, <1>7, ExtendedWhen
<1>9. Upto(a \o When(startNow, b) \o c, A \cup (IF startNow THEN B ELSE {}) \cup C, 7)
  BY <1>5, <1>6, <1>8, Extended
<1> QED BY <1>1, <1>2, <1>9 DEF Upto

LEMMA RotatePlanned ==
  ASSUME NEW k \in Keys, NEW n \in Keys, NEW m \in Rows
  PROVE  Plan(RotateSteps(k, n, m), Rotate(k, n, m))
<1> DEFINE start == Starting(n, m)
           linked == m.token # None
           t == m.token
           a == <<Opens(n), Inserts(n)>>
           b == <<start>>
           c == <<Blocks(n, "undo"), Suspends(n)>>
           d == <<Links(n, t)>>
           e == <<Deletes(k, "skip"), Erases(k)>>
           f == <<Forget(t)>>
           A == {Opens(n), Inserts(n)}
           B == {start}
           C == {Blocks(n, "undo"), Suspends(n)}
           D == {Links(n, t)}
           E == {Deletes(k, "skip"), Erases(k)}
           F == {Forget(t)}
           ab == a \o When(m.begun, b)
           abc == ab \o When(m.off, c)
           abcd == abc \o When(linked, d)
           abcde == abcd \o e
           AB == A \cup (IF m.begun THEN B ELSE {})
           ABC == AB \cup (IF m.off THEN C ELSE {})
           ABCD == ABC \cup (IF linked THEN D ELSE {})
           ABCDE == ABCD \cup E
<1>0. m.begun \in BOOLEAN /\ m.off \in BOOLEAN /\ m.ends \in BOOLEAN /\ linked \in BOOLEAN
      /\ (linked => t \in Tokens)
  BY DEF Rows
<1>1. RotateSteps(k, n, m) = abcde \o When(linked, f)
  BY Started, Zenon DEF RotateSteps, Opens, Inserts, Blocks, Suspends, Links, Deletes, Erases
<1>2. Rotate(k, n, m) = ABCDE \cup (IF linked THEN F ELSE {})
  BY DEF Rotate
<1>3. /\ Opens(n) \in Steps /\ Inserts(n) \in Steps /\ start \in Steps /\ Blocks(n, "undo") \in Steps
      /\ Suspends(n) \in Steps /\ Deletes(k, "skip") \in Steps /\ Erases(k) \in Steps
      /\ linked => Links(n, t) \in Steps /\ Forget(t) \in Steps
  BY <1>0, AreSteps
<1>4. /\ Rank(Opens(n)) = 1 /\ Rank(Inserts(n)) = 3 /\ Rank(start) = 4 /\ Rank(Blocks(n, "undo")) = 5
      /\ Rank(Suspends(n)) = 6 /\ Rank(Links(n, t)) = 7 /\ Rank(Deletes(k, "skip")) = 8
      /\ Rank(Erases(k)) = 11 /\ Rank(Forget(t)) = 12
  BY Ranks
<1> HIDE DEF start, linked, t
<1>5. /\ Plan(a, A) /\ Plan(b, B) /\ Plan(c, C) /\ Plan(e, E)
      /\ linked => Plan(d, D) /\ Plan(f, F)
  BY <1>3, <1>4, OnePlanned, TwoPlanned
<1>6. /\ \A s \in A : Rank(s) <= 3
      /\ \A s \in B : 3 < Rank(s) /\ Rank(s) <= 4
      /\ \A s \in C : 4 < Rank(s) /\ Rank(s) <= 6
      /\ \A s \in D : 6 < Rank(s) /\ Rank(s) <= 7
      /\ \A s \in E : 7 < Rank(s) /\ Rank(s) <= 11
      /\ \A s \in F : 11 < Rank(s) /\ Rank(s) <= 12
  BY <1>4
<1> HIDE DEF a, b, c, d, e, f, A, B, C, D, E, F
<1>7. Upto(a, A, 3)
  BY <1>5, <1>6 DEF Upto
<1>8. Upto(ab, AB, 4)
  BY <1>0, <1>5, <1>6, <1>7, ExtendedWhen
<1> HIDE DEF ab, AB
<1>9. Upto(abc, ABC, 6)
  BY <1>0, <1>5, <1>6, <1>8, ExtendedWhen
<1> HIDE DEF abc, ABC
<1>10. Upto(abcd, ABCD, 7)
  BY <1>0, <1>5, <1>6, <1>9, ExtendedWhen
<1> HIDE DEF abcd, ABCD
<1>11. Upto(abcde, ABCDE, 11)
  BY <1>5, <1>6, <1>10, Extended
<1> HIDE DEF abcde, ABCDE
<1>12. Upto(abcde \o When(linked, f), ABCDE \cup (IF linked THEN F ELSE {}), 12)
  <2>1. (linked => Plan(f, F)) /\ linked \in BOOLEAN /\ \A s \in F : 11 < Rank(s) /\ Rank(s) <= 12
    BY <1>0, <1>5, <1>6
  <2> QED BY <2>1, <1>11, ExtendedWhen
<1> QED BY <1>1, <1>2, <1>12 DEF Upto

LEMMA MirrorPlanned ==
  ASSUME NEW n \in Keys, NEW t \in Tokens, NEW m \in Rows
  PROVE  Plan(MirrorSteps(n, t, m), Mirror(n, t, m))
<1> DEFINE start == Starting(n, m)
           a == <<Opens(n)>>
           b == <<Blocks(n, "stop")>>
           c == <<Inserts(n)>>
           d == <<start>>
           e == <<Suspends(n)>>
           f == <<Links(n, t), Forget(t)>>
           A == {Opens(n)}
           B == {Blocks(n, "stop")}
           C == {Inserts(n)}
           D == {start}
           E == {Suspends(n)}
           F == {Links(n, t), Forget(t)}
           ab == a \o When(m.off, b)
           abc == ab \o c
           abcd == abc \o When(m.begun, d)
           abcde == abcd \o When(m.off, e)
           AB == A \cup (IF m.off THEN B ELSE {})
           ABC == AB \cup C
           ABCD == ABC \cup (IF m.begun THEN D ELSE {})
           ABCDE == ABCD \cup (IF m.off THEN E ELSE {})
<1>0. m.begun \in BOOLEAN /\ m.off \in BOOLEAN /\ m.ends \in BOOLEAN
  BY DEF Rows
<1>1. MirrorSteps(n, t, m) = abcde \o f
  BY Started, Zenon DEF MirrorSteps, Opens, Inserts, Blocks, Suspends, Links
<1>2. Mirror(n, t, m) = ABCDE \cup F
  BY DEF Mirror
<1>3. /\ Opens(n) \in Steps /\ Inserts(n) \in Steps /\ start \in Steps /\ Blocks(n, "stop") \in Steps
      /\ Suspends(n) \in Steps /\ Links(n, t) \in Steps /\ Forget(t) \in Steps
  BY <1>0, AreSteps
<1>4. /\ Rank(Opens(n)) = 1 /\ Rank(Blocks(n, "stop")) = 2 /\ Rank(Inserts(n)) = 3 /\ Rank(start) = 4
      /\ Rank(Suspends(n)) = 6 /\ Rank(Links(n, t)) = 7 /\ Rank(Forget(t)) = 12
  BY Ranks
<1> HIDE DEF start
<1>5. Plan(a, A) /\ Plan(b, B) /\ Plan(c, C) /\ Plan(d, D) /\ Plan(e, E) /\ Plan(f, F)
  BY <1>3, <1>4, OnePlanned, TwoPlanned
<1>6. /\ \A s \in A : Rank(s) <= 1
      /\ \A s \in B : 1 < Rank(s) /\ Rank(s) <= 2
      /\ \A s \in C : 2 < Rank(s) /\ Rank(s) <= 3
      /\ \A s \in D : 3 < Rank(s) /\ Rank(s) <= 4
      /\ \A s \in E : 4 < Rank(s) /\ Rank(s) <= 6
      /\ \A s \in F : 6 < Rank(s) /\ Rank(s) <= 12
  BY <1>4
<1> HIDE DEF a, b, c, d, e, f, A, B, C, D, E, F
<1>7. Upto(a, A, 1)
  BY <1>5, <1>6 DEF Upto
<1>8. Upto(ab, AB, 2)
  BY <1>0, <1>5, <1>6, <1>7, ExtendedWhen
<1> HIDE DEF ab, AB
<1>9. Upto(abc, ABC, 3)
  BY <1>5, <1>6, <1>8, Extended
<1> HIDE DEF abc, ABC
<1>10. Upto(abcd, ABCD, 4)
  BY <1>0, <1>5, <1>6, <1>9, ExtendedWhen
<1> HIDE DEF abcd, ABCD
<1>11. Upto(abcde, ABCDE, 6)
  BY <1>0, <1>5, <1>6, <1>10, ExtendedWhen
<1> HIDE DEF abcde, ABCDE
<1>12. Upto(abcde \o f, ABCDE \cup F, 12)
  BY <1>5, <1>6, <1>11, Extended
<1> QED BY <1>1, <1>2, <1>12 DEF Upto

LEMMA RemovePlanned ==
  ASSUME NEW k \in Keys, rows[k] \in Rows
  PROVE  Plan(RemoveSteps(k), Remove(k, rows[k].token))
<1> DEFINE linked == rows[k].token # None
           t == rows[k].token
           a == <<Deletes(k, "stop"), Erases(k)>>
           b == <<Forget(t)>>
           A == {Deletes(k, "stop"), Erases(k)}
           B == {Forget(t)}
<1>0. linked \in BOOLEAN /\ (linked => t \in Tokens)
  BY DEF Rows
<1>1. RemoveSteps(k) = a \o When(linked, b)
  BY DEF RemoveSteps, Deletes, Erases
<1>2. Remove(k, rows[k].token) = A \cup (IF linked THEN B ELSE {})
  BY DEF Remove
<1>3. Deletes(k, "stop") \in Steps /\ Erases(k) \in Steps /\ (linked => Forget(t) \in Steps)
  BY <1>0, AreSteps
<1>4. Rank(Deletes(k, "stop")) = 9 /\ Rank(Erases(k)) = 11 /\ Rank(Forget(t)) = 12
  BY Ranks
<1> HIDE DEF linked, t
<1>5. Plan(a, A) /\ (linked => Plan(b, B))
  BY <1>3, <1>4, OnePlanned, TwoPlanned
<1>6. (\A s \in A : Rank(s) <= 11) /\ (\A s \in B : 11 < Rank(s) /\ Rank(s) <= 12)
  BY <1>4
<1> HIDE DEF a, b, A, B
<1>7. Upto(a, A, 11)
  BY <1>5, <1>6 DEF Upto
<1>8. Upto(a \o When(linked, b), A \cup (IF linked THEN B ELSE {}), 12)
  BY <1>0, <1>5, <1>6, <1>7, ExtendedWhen
<1> QED BY <1>1, <1>2, <1>8 DEF Upto

LEMMA UnlinkPlanned ==
  ASSUME NEW k \in Keys, NEW t \in Tokens
  PROVE  Plan(<<Row(k, [token |-> None], "stop"), Forget(t)>>, {Unlinks(k), Forget(t)})
<1>1. Unlinks(k) \in Steps /\ Forget(t) \in Steps /\ Rank(Unlinks(k)) = 10 /\ Rank(Forget(t)) = 12
  BY AreSteps, Ranks
<1>2. Plan(<<Unlinks(k), Forget(t)>>, {Unlinks(k), Forget(t)})
  BY <1>1, TwoPlanned
<1> QED BY <1>2 DEF Unlinks

Cleanups == {<<>>} \cup {Undo(n) : n \in Keys} \cup {UndoRotate(n) : n \in Keys}

LEMMA CleanupsPlanned ==
  /\ Plan(<<>>, {})
  /\ \A n \in Keys : /\ Plan(Undo(n), {Deletes(n, "skip")})
                     /\ Plan(UndoRotate(n), {Deletes(n, "skip"), Erases(n)})
<1> SUFFICES ASSUME NEW n \in Keys
             PROVE  /\ Plan(Undo(n), {Deletes(n, "skip")})
                    /\ Plan(UndoRotate(n), {Deletes(n, "skip"), Erases(n)})
  BY NonePlanned
<1>1. Deletes(n, "skip") \in Steps /\ Erases(n) \in Steps
      /\ Rank(Deletes(n, "skip")) = 8 /\ Rank(Erases(n)) = 11
  BY AreSteps, Ranks
<1>2. Undo(n) = <<Deletes(n, "skip")>>
  BY DEF Undo, Deletes
<1>3. UndoRotate(n) = <<Deletes(n, "skip")>> \o <<Erases(n)>>
  BY <1>2 DEF UndoRotate, Erases
<1>4. Plan(Undo(n), {Deletes(n, "skip")})
  BY <1>1, <1>2, OnePlanned
<1>5. Plan(UndoRotate(n), {Deletes(n, "skip"), Erases(n)})
  <2> DEFINE A == {Deletes(n, "skip")}
             B == {Erases(n)}
  <2>1. (\A s \in A : Rank(s) <= 8) /\ (\A s \in B : 8 < Rank(s) /\ Rank(s) <= 11)
    BY <1>1
  <2>2. Plan(<<Deletes(n, "skip")>>, A) /\ Plan(<<Erases(n)>>, B)
    BY <1>1, OnePlanned
  <2>3. A \cup B = {Deletes(n, "skip"), Erases(n)}
    OBVIOUS
  <2> HIDE DEF A, B
  <2>4. Upto(<<Deletes(n, "skip")>>, A, 8)
    BY <2>1, <2>2 DEF Upto
  <2>5. Upto(UndoRotate(n), A \cup B, 11)
    BY <1>3, <2>1, <2>2, <2>4, Extended
  <2> QED BY <2>3, <2>5 DEF Upto
<1> QED BY <1>4, <1>5

-----------------------------------------------------------------------------
(* What a plan has to be, and which ones are made *)

\* Every plan builds one key at most, which it makes a row for and cleans up; when it
\* puts that key behind the link, what it takes away is another.
Shaped(A, undo) ==
  /\ \A r, s \in A : Makes(r) /\ Makes(s) => r.key = s.key
  /\ \A s \in A : s.fails = "undo" => undo \in {Undo(s.key), UndoRotate(s.key)}
  /\ \A n \in Keys : Opens(n) \in A => Inserts(n) \in A
  /\ \A n \in Keys, t \in Tokens : Links(n, t) \in A =>
       \A s \in A : Makes(s) \/ s = Forget(t) \/ \E k \in Keys \ {n} : s \in {Deletes(k, "skip"), Erases(k)}

Heirs == [off : BOOLEAN, begun : BOOLEAN, ends : BOOLEAN]
JobRecords == [stage : {"new", "first", "extra", "over"}, todo : Seq(Steps), undo : Cleanups,
               extras : SUBSET Servers, token : Tokens \cup {None}, heir : Heirs]

Sound(r) ==
  /\ r \in JobRecords
  /\ InOrder(r.todo)
  /\ r.stage \in {"new", "over"} => r.todo = <<>>
  /\ r.extras # {} => r.token \in Tokens
  /\ Shaped(Of(r.todo), r.undo)

Ahead(j) == Of(job[j].todo)
Ends(A, k) == Erases(k) \in A \/ Deletes(k, "stop") \in A \/ Deletes(k, "skip") \in A

\* What the steps of a new plan A are, for a key with the state e to inherit: it makes a
\* key nobody uses, for which it inherits everything; what it removes is there.
Builder(A, e) ==
  /\ \A s \in A : Makes(s) => Opens(s.key) \in A
  /\ \A n \in Keys : Opens(n) \in A => n \in Spare(At[n])
  /\ \A s \in A : Rank(s) \in 8..11 => rows[s.key].known
  /\ \A k \in Keys : Erases(k) \in A => Deletes(k, "stop") \in A \/ Deletes(k, "skip") \in A
  /\ \A n \in Keys, t \in Tokens : Links(n, t) \in A =>
       /\ e.off => Suspends(n) \in A /\ (Blocks(n, "stop") \in A \/ Blocks(n, "undo") \in A)
       /\ e.begun /\ e.ends => Starts(n) \in A /\ StartsEndless(n) \notin A

\* And what becomes of its customer: nobody loses a key who does not get another or was
\* not asked, and nobody gets a second one on a server where the first one stays.
Keeper(A, asked) ==
  /\ \A k \in Keys : Ends(A, k) /\ rows[k].token \in Tokens \ asked =>
       \E n \in Keys : Links(n, rows[k].token) \in A
  /\ \A k \in Keys : Unlinks(k) \in A => rows[k].token \in asked
  /\ \A n \in Keys, t \in Tokens : Links(n, t) \in A =>
       \A l \in Members(t) : At[l] = At[n] => \E k \in Members(t) : At[k] = At[n] /\ Erases(k) \in A

\* What a step says is what it is.
LEMMA Told ==
  /\ \A n, m, t, u : Links(n, t) = Links(m, u) => n = m /\ t = u
  /\ \A n : Starts(n) # StartsEndless(n)
  /\ \A n, t : Links(n, t).key = n /\ Links(n, t).fails = "undo"
  /\ \A n : /\ Starts(n).key = n /\ Starts(n).fails = "undo"
            /\ StartsEndless(n).key = n /\ StartsEndless(n).fails = "undo"
  /\ \A n, m : Starting(n, m).key = n /\ Starting(n, m).fails = "undo"
  /\ \A n, f : /\ Blocks(n, f).key = n /\ Blocks(n, f).fails = f
               /\ Deletes(n, f).key = n /\ Deletes(n, f).fails = f
  /\ \A n : /\ Opens(n).key = n /\ Opens(n).fails = "stop"
            /\ Inserts(n).key = n /\ Inserts(n).fails = "undo"
            /\ Suspends(n).key = n /\ Suspends(n).fails = "undo"
            /\ Unlinks(n).key = n /\ Unlinks(n).fails = "stop"
            /\ Erases(n).key = n /\ Erases(n).fails = "stop" /\ Forget(n).fails = "never"
<1>1. ASSUME NEW n, NEW m, NEW t, NEW u, Links(n, t) = Links(m, u) PROVE n = m /\ t = u
  <2>1. [token |-> t] = [token |-> u] /\ n = m
    BY <1>1, RowStepsAre
  <2>2. [token |-> t].token = [token |-> u].token
    BY <2>1
  <2> QED BY <2>1, <2>2
<1>2. ASSUME NEW n PROVE Starts(n) # StartsEndless(n)
  <2>1. [begun |-> TRUE, ends |-> TRUE] # [begun |-> TRUE, ends |-> FALSE]
    OBVIOUS
  <2> QED BY <2>1 DEF Starts, StartsEndless, Row
<1> QED BY <1>1, <1>2, StepsAre, RowStepsAre DEF Starting

LEMMA CreateIs ==
  ASSUME NEW n \in Keys, NEW t \in Tokens, NEW startNow \in BOOLEAN, NEW asked,
         n \in Spare(At[n]), Members(t) = {}
  PROVE  LET A == Create(n, t, startNow) IN
         Shaped(A, Undo(n)) /\ Builder(A, Nothing) /\ Keeper(A, asked)
<1> DEFINE A == Create(n, t, startNow)
           start == Starts(n)
<1>1. /\ Opens(n) \in A /\ Inserts(n) \in A
      /\ \A s \in A : s \in {Opens(n), Inserts(n), start, Links(n, t)}
  BY DEF Create
<1>2. /\ Rank(Opens(n)) = 1 /\ Rank(Inserts(n)) = 3 /\ Rank(start) = 4 /\ Rank(Links(n, t)) = 7
      /\ Opens(n).key = n /\ Inserts(n).key = n /\ start.key = n /\ Links(n, t).key = n
  <2>1. Rank(Opens(n)) = 1 /\ Rank(Inserts(n)) = 3 /\ Rank(start) = 4 /\ Rank(Links(n, t)) = 7
    BY Ranks
  <2>2. Opens(n).key = n /\ Inserts(n).key = n /\ start.key = n /\ Links(n, t).key = n
    BY Told
  <2> QED BY <2>1, <2>2
<1> HIDE DEF A, start
<1>3. \A s \in A : /\ s.key = n /\ Rank(s) \in 1..7
                   /\ Rank(s) = 7 => s = Links(n, t)
                   /\ Rank(s) = 1 => s = Opens(n)
  BY <1>1, <1>2
<1>4. Shaped(A, Undo(n))
  <2>1. \A x \in Keys : Opens(x) \in A => Inserts(x) \in A
    BY <1>1, <1>3, Ranks, Told
  <2> QED BY <1>3, <2>1 DEF Shaped, Makes
<1>5. \A x \in Keys, u \in Tokens : Links(x, u) \in A => x = n /\ u = t
  BY <1>3, Ranks, Told
<1>6. \A x \in Keys : /\ Erases(x) \notin A /\ Unlinks(x) \notin A /\ Deletes(x, "stop") \notin A
                      /\ Deletes(x, "skip") \notin A
  BY <1>3, Ranks
<1>7. Builder(A, Nothing)
  <2>1. \A x \in Keys : Opens(x) \in A => x = n
    BY <1>3, Told
  <2>2. \A s \in A : Rank(s) \notin 8..11
    BY <1>3
  <2>3. Nothing.off = FALSE /\ Nothing.begun = FALSE
    BY DEF Nothing
  <2> QED BY <1>1, <1>3, <1>6, <2>1, <2>2, <2>3 DEF Builder
<1>8. Keeper(A, asked)
  BY <1>5, <1>6 DEF Keeper, Ends
<1> QED BY <1>4, <1>7, <1>8 DEF A

LEMMA RotateIs ==
  ASSUME NEW k \in Keys, NEW n \in Keys, rows[k] \in Rows, rows[k].known, outline[k] # "none", NEW asked,
         n \in Spare(At[n]), At[n] = At[k]
  PROVE  LET A == Rotate(k, n, rows[k]) IN
         Shaped(A, UndoRotate(n)) /\ Builder(A, Heir(rows[k])) /\ Keeper(A, asked)
<1> DEFINE m == rows[k]
           A == Rotate(k, n, m)
           start == Starting(n, m)
<1>0. k # n
  BY DEF Spare
<1>1. /\ Opens(n) \in A /\ Inserts(n) \in A /\ Deletes(k, "skip") \in A /\ Erases(k) \in A
      /\ m.off => Blocks(n, "undo") \in A /\ Suspends(n) \in A
      /\ m.begun => start \in A
      /\ m.token # None => Links(n, m.token) \in A
      /\ \A s \in A : \/ s \in {Opens(n), Inserts(n), Blocks(n, "undo"), Suspends(n)} \/ s = start
                      \/ m.token # None /\ (s = Links(n, m.token) \/ s = Forget(m.token))
                      \/ s = Deletes(k, "skip") \/ s = Erases(k)
  BY DEF Rotate
<1>2. /\ Rank(Opens(n)) = 1 /\ Rank(Inserts(n)) = 3 /\ Rank(start) = 4 /\ Rank(Blocks(n, "undo")) = 5
      /\ Rank(Suspends(n)) = 6 /\ Rank(Links(n, m.token)) = 7 /\ Rank(Deletes(k, "skip")) = 8
      /\ Rank(Erases(k)) = 11 /\ Rank(Forget(m.token)) = 12
  BY Ranks
<1>3. /\ Opens(n).key = n /\ Inserts(n).key = n /\ start.key = n /\ Blocks(n, "undo").key = n
      /\ Suspends(n).key = n /\ Links(n, m.token).key = n /\ Deletes(k, "skip").key = k
      /\ Erases(k).key = k
      /\ Deletes(k, "skip").fails = "skip" /\ Erases(k).fails = "stop"
      /\ Forget(m.token).fails = "never"
  BY Told
<1>4. m.token # None => m.token \in Tokens
  BY DEF Rows
<1> HIDE DEF m, A, start
<1>5. ASSUME NEW s \in A
      PROVE  \/ Rank(s) \in 1..7 /\ s.key = n
             \/ Rank(s) = 8 /\ s = Deletes(k, "skip")
             \/ Rank(s) = 11 /\ s = Erases(k)
             \/ Rank(s) = 12 /\ s = Forget(m.token) /\ m.token # None
  <2>1. \A x \in {Opens(n), Inserts(n), Blocks(n, "undo"), Suspends(n)} : Rank(x) \in 1..7 /\ x.key = n
    BY <1>2, <1>3
  <2>2. Rank(start) \in 1..7 /\ Rank(Links(n, m.token)) \in 1..7
    BY <1>2
  <2>3. CASE s \in {Opens(n), Inserts(n), Blocks(n, "undo"), Suspends(n)}
    BY <2>1, <2>3
  <2>4. CASE s = start \/ s = Links(n, m.token)
    BY <1>3, <2>2, <2>4
  <2>5. CASE m.token # None /\ s = Forget(m.token)
    BY <1>2, <2>5
  <2>6. CASE s = Deletes(k, "skip") \/ s = Erases(k)
    BY <1>2, <2>6
  <2> QED BY <1>1, <2>3, <2>4, <2>5, <2>6
<1>6. \A s \in A : /\ Rank(s) = 7 => s = Links(n, m.token) /\ m.token # None
                   /\ Rank(s) = 4 => s = start
  BY <1>1, <1>2
<1>7. \A x \in Keys : /\ Opens(x) \in A => x = n
                      /\ Erases(x) \in A => x = k
                      /\ Deletes(x, "skip") \in A => x = k
                      /\ Unlinks(x) \notin A /\ Deletes(x, "stop") \notin A
  BY <1>3, <1>5, Ranks, Told
<1>8. \A x \in Keys, u \in Tokens : Links(x, u) \in A => x = n /\ u = m.token /\ m.token # None
  BY <1>6, Ranks, Told
<1>9. Shaped(A, UndoRotate(n))
  <2>1. \A s \in A : Makes(s) => s.key = n
    BY <1>2, <1>5 DEF Makes
  <2>2. \A s \in A : s.fails = "undo" => s.key = n
    BY <1>3, <1>5
  <2>3. \A x \in Keys : Opens(x) \in A => Inserts(x) \in A
    BY <1>1, <1>7
  <2>4. \A s \in A : Makes(s) \/ s \in {Deletes(k, "skip"), Erases(k)} \/ s = Forget(m.token)
    BY <1>5 DEF Makes
  <2> QED BY <1>0, <1>8, <2>1, <2>2, <2>3, <2>4 DEF Shaped
<1>10. Builder(A, Heir(m))
  <2>1. Heir(m).off = m.off /\ Heir(m).begun = m.begun /\ Heir(m).ends = m.ends
    BY DEF Heir
  <2>2. \A s \in A : Makes(s) => s.key = n
    BY <1>2, <1>5 DEF Makes
  <2>3. \A s \in A : Rank(s) \in 8..11 => s.key = k
    BY <1>3, <1>5
  <2>4. m.ends => start = Starts(n) /\ start # StartsEndless(n)
    BY Told DEF start, Starting
  <2>5. \A x \in Keys, t \in Tokens : Links(x, t) \in A =>
       /\ m.off => Suspends(x) \in A /\ (Blocks(x, "stop") \in A \/ Blocks(x, "undo") \in A)
       /\ m.begun /\ m.ends => Starts(x) \in A /\ StartsEndless(x) \notin A
    BY <1>1, <1>6, <1>8, <2>4, Ranks
  <2> QED BY <1>1, <1>7, <2>1, <2>2, <2>3, <2>5 DEF Builder, m
<1>11. Keeper(A, asked)
  <2>1. k \in Members(m.token) /\ At[k] = At[n]
    BY DEF Members, m
  <2>2. \A x \in Keys : Ends(A, x) => x = k
    BY <1>7 DEF Ends
  <2>3. \A x \in Keys : Ends(A, x) /\ rows[x].token \in Tokens \ asked =>
           \E y \in Keys : Links(y, rows[x].token) \in A
    BY <1>1, <2>2, ConstantsAssumption DEF m
  <2> QED BY <1>1, <1>7, <1>8, <2>1, <2>3 DEF Keeper
<1> QED BY <1>9, <1>10, <1>11 DEF A, m

LEMMA MirrorIs ==
  ASSUME NEW n \in Keys, NEW t \in Tokens, NEW m \in Rows, NEW asked,
         n \in Spare(At[n]), ~Included(Members(t), At[n])
  PROVE  LET A == Mirror(n, t, m) IN
         Shaped(A, Undo(n)) /\ Builder(A, Heir(m)) /\ Keeper(A, asked)
<1> DEFINE A == Mirror(n, t, m)
           start == Starting(n, m)
<1>1. /\ Opens(n) \in A /\ Inserts(n) \in A
      /\ m.off => Blocks(n, "stop") \in A /\ Suspends(n) \in A
      /\ m.begun => start \in A
      /\ \A s \in A : \/ s \in {Opens(n), Inserts(n), Blocks(n, "stop"), Suspends(n)} \/ s = start
                      \/ s = Links(n, t) \/ s = Forget(t)
  BY DEF Mirror
<1>2. /\ Rank(Opens(n)) = 1 /\ Rank(Inserts(n)) = 3 /\ Rank(start) = 4 /\ Rank(Blocks(n, "stop")) = 2
      /\ Rank(Suspends(n)) = 6 /\ Rank(Links(n, t)) = 7 /\ Rank(Forget(t)) = 12
  BY Ranks
<1>3. /\ Opens(n).key = n /\ Inserts(n).key = n /\ start.key = n /\ Blocks(n, "stop").key = n
      /\ Suspends(n).key = n /\ Links(n, t).key = n /\ Forget(t).fails = "never"
  BY Told
<1> HIDE DEF A, start
<1>4. ASSUME NEW s \in A
      PROVE  \/ Rank(s) \in 1..7 /\ s.key = n
             \/ Rank(s) = 12 /\ s = Forget(t)
  <2>1. \A x \in {Opens(n), Inserts(n), Blocks(n, "stop"), Suspends(n)} : Rank(x) \in 1..7 /\ x.key = n
    BY <1>2, <1>3
  <2>2. Rank(start) \in 1..7 /\ Rank(Links(n, t)) \in 1..7
    BY <1>2
  <2>3. CASE s \in {Opens(n), Inserts(n), Blocks(n, "stop"), Suspends(n)}
    BY <2>1, <2>3
  <2>4. CASE s = start \/ s = Links(n, t)
    BY <1>3, <2>2, <2>4
  <2>5. CASE s = Forget(t)
    BY <1>2, <2>5
  <2> QED BY <1>1, <2>3, <2>4, <2>5
<1>5. \A s \in A : /\ Rank(s) = 7 => s = Links(n, t)
                   /\ Rank(s) = 4 => s = start
  BY <1>1, <1>2
<1>6. \A x \in Keys : /\ Opens(x) \in A => x = n
                      /\ Erases(x) \notin A /\ Deletes(x, "skip") \notin A
                      /\ Unlinks(x) \notin A /\ Deletes(x, "stop") \notin A
  BY <1>3, <1>4, Ranks, Told
<1>7. \A x \in Keys, u \in Tokens : Links(x, u) \in A => x = n /\ u = t
  BY <1>5, Ranks, Told
<1>8. \A s \in A : Makes(s) => s.key = n
  BY <1>2, <1>4 DEF Makes
<1>9. Shaped(A, Undo(n))
  <2>1. \A s \in A : s.fails = "undo" => s.key = n
    BY <1>3, <1>4
  <2>2. \A x \in Keys : Opens(x) \in A => Inserts(x) \in A
    BY <1>1, <1>6
  <2>3. \A s \in A : Makes(s) \/ s = Forget(t)
    BY <1>4 DEF Makes
  <2> QED BY <1>7, <1>8, <2>1, <2>2, <2>3 DEF Shaped
<1>10. Builder(A, Heir(m))
  <2>1. Heir(m).off = m.off /\ Heir(m).begun = m.begun /\ Heir(m).ends = m.ends
    BY DEF Heir
  <2>2. \A s \in A : Rank(s) \notin 8..11
    BY <1>4
  <2>3. m.ends => start = Starts(n) /\ start # StartsEndless(n)
    BY Told DEF start, Starting
  <2>4. \A x \in Keys, u \in Tokens : Links(x, u) \in A =>
       /\ m.off => Suspends(x) \in A /\ (Blocks(x, "stop") \in A \/ Blocks(x, "undo") \in A)
       /\ m.begun /\ m.ends => Starts(x) \in A /\ StartsEndless(x) \notin A
    BY <1>1, <1>5, <1>7, <2>3, Ranks
  <2> QED BY <1>1, <1>6, <1>8, <2>1, <2>2, <2>4 DEF Builder
<1>11. Keeper(A, asked)
  BY <1>6, <1>7 DEF Keeper, Ends, Included
<1> QED BY <1>9, <1>10, <1>11 DEF A

LEMMA RemoveIs ==
  ASSUME NEW k \in Keys, rows[k].known, NEW undo, NEW e,
         NEW asked, rows[k].token # None => rows[k].token \in asked
  PROVE  LET A == Remove(k, rows[k].token) IN
         Shaped(A, undo) /\ Builder(A, e) /\ Keeper(A, asked)
<1> DEFINE t == rows[k].token
           A == Remove(k, t)
<1>1. /\ Deletes(k, "stop") \in A /\ Erases(k) \in A
      /\ \A s \in A : s = Deletes(k, "stop") \/ s = Erases(k) \/ s = Forget(t)
  BY DEF Remove
<1>2. Rank(Deletes(k, "stop")) = 9 /\ Rank(Erases(k)) = 11 /\ Rank(Forget(t)) = 12
  BY Ranks
<1>3. /\ Deletes(k, "stop").key = k /\ Erases(k).key = k
      /\ Deletes(k, "stop").fails = "stop" /\ Erases(k).fails = "stop" /\ Forget(t).fails = "never"
  BY Told
<1> HIDE DEF A, t
<1>4. \A s \in A : /\ Rank(s) \in 9..12 /\ s.fails # "undo" /\ ~Makes(s)
                   /\ Rank(s) # 12 => s.key = k
                   /\ Rank(s) # 10
  BY <1>1, <1>2, <1>3 DEF Makes
<1>5. \A x \in Keys : /\ Opens(x) \notin A /\ Unlinks(x) \notin A /\ Deletes(x, "skip") \notin A
                      /\ (Erases(x) \in A => x = k) /\ (Deletes(x, "stop") \in A => x = k)
  BY <1>4, Ranks, Told
<1>6. \A x \in Keys, u \in Tokens : Links(x, u) \notin A
  BY <1>4, Ranks
<1>7. Shaped(A, undo)
  BY <1>4, <1>5, <1>6 DEF Shaped
<1>8. Builder(A, e)
  BY <1>1, <1>4, <1>5, <1>6 DEF Builder
<1>9. Keeper(A, asked)
  BY <1>5, <1>6, ConstantsAssumption DEF Keeper, Ends, t
<1> QED BY <1>7, <1>8, <1>9 DEF A, t

LEMMA UnlinkIs ==
  ASSUME NEW t \in Tokens, NEW k \in Members(t), NEW undo, NEW e, NEW asked, t \in asked
  PROVE  LET A == {Unlinks(k), Forget(t)} IN
         Shaped(A, undo) /\ Builder(A, e) /\ Keeper(A, asked)
<1> DEFINE A == {Unlinks(k), Forget(t)}
<1>0. k \in Keys /\ rows[k].known /\ rows[k].token = t
  BY DEF Members
<1>1. \A s \in A : s = Unlinks(k) \/ s = Forget(t)
  OBVIOUS
<1>2. Rank(Unlinks(k)) = 10 /\ Rank(Forget(t)) = 12
  BY Ranks
<1>3. Unlinks(k).key = k /\ Unlinks(k).fails = "stop" /\ Forget(t).fails = "never"
  BY Told
<1> HIDE DEF A
<1>4. \A s \in A : /\ Rank(s) \in {10, 12} /\ s.fails # "undo" /\ ~Makes(s)
                   /\ Rank(s) # 12 => s.key = k
  BY <1>1, <1>2, <1>3 DEF Makes
<1>5. \A x \in Keys : /\ Opens(x) \notin A /\ Erases(x) \notin A /\ Deletes(x, "skip") \notin A
                      /\ Deletes(x, "stop") \notin A /\ (Unlinks(x) \in A => x = k)
  BY <1>4, Ranks, Told
<1>6. \A x \in Keys, u \in Tokens : Links(x, u) \notin A
  BY <1>4, Ranks
<1>7. Shaped(A, undo)
  BY <1>4, <1>5, <1>6 DEF Shaped
<1>8. Builder(A, e)
  BY <1>0, <1>4, <1>5, <1>6 DEF Builder
<1>9. Keeper(A, asked)
  BY <1>0, <1>5, <1>6 DEF Keeper, Ends
<1> QED BY <1>7, <1>8, <1>9 DEF A

LEMMA NothingIs ==
  ASSUME NEW undo, NEW e, NEW asked
  PROVE  Shaped({}, undo) /\ Builder({}, e) /\ Keeper({}, asked)
BY DEF Shaped, Builder, Keeper, Ends

LEMMA CleanupIs ==
  ASSUME NEW n \in Keys, NEW undo, NEW A \in SUBSET {Deletes(n, "skip"), Erases(n)}
  PROVE  Shaped(A, undo)
<1>1. \A s \in A : s = Deletes(n, "skip") \/ s = Erases(n)
  OBVIOUS
<1>2. Rank(Deletes(n, "skip")) = 8 /\ Rank(Erases(n)) = 11
      /\ Deletes(n, "skip").fails = "skip" /\ Erases(n).fails = "stop"
  BY Ranks, Told
<1>3. \A s \in A : Rank(s) \in {8, 11} /\ s.fails # "undo" /\ ~Makes(s)
  BY <1>1, <1>2 DEF Makes
<1>4. (\A x \in Keys : Opens(x) \notin A) /\ (\A x \in Keys, t \in Tokens : Links(x, t) \notin A)
  BY <1>3, Ranks
<1> QED BY <1>3, <1>4 DEF Shaped

-----------------------------------------------------------------------------
(* What the actions do to the plans *)

Histories == [asked : SUBSET (Tokens \cup {None}), clash : BOOLEAN, torn : BOOLEAN,
              stray : SUBSET (Keys \cup {None})]

WorkType ==
  /\ outline \in [Keys -> {"none", "open", "blocked", "deleted"}]
  /\ rows \in [Keys -> Rows]
  /\ owes \in [Keys -> Heirs]
  /\ DOMAIN job = Jobs /\ job \in [Jobs -> JobRecords] /\ \A j \in Jobs : Sound(job[j])
  /\ hist \in Histories

\* A request has a new plan; one that is not under way yet may meet another.
Plans(j, r) ==
  /\ Sound(r) /\ job' = [job EXCEPT ![j] = r] /\ Ahead(j) = {}
  /\ Builder(Of(r.todo), r.heir)
  /\ hist.asked \subseteq hist'.asked /\ Keeper(Of(r.todo), hist'.asked)
  /\ hist' \in Histories /\ hist'.stray = hist.stray /\ hist'.torn = hist.torn
  /\ \/ hist'.clash = (hist.clash \/ \E i \in Jobs : Busy(i))
     \/ hist'.clash = hist.clash /\ Busy(j)
  /\ UNCHANGED <<outline, rows, owes>>

LEMMA BeginPlans ==
  ASSUME WorkType, NEW j \in Jobs, NEW r, Sound(r), NEW asked \in SUBSET (Tokens \cup {None}),
         Begin(j, r, asked), Builder(Of(r.todo), r.heir), Keeper(Of(r.todo), hist'.asked)
  PROVE  Plans(j, r)
<1>1. /\ hist'.asked = hist.asked \cup asked /\ hist'.stray = hist.stray /\ hist'.torn = hist.torn
      /\ hist'.clash = (hist.clash \/ \E i \in Jobs : Busy(i))
      /\ hist' \in Histories
  <2> DEFINE busy == \E i \in Jobs : Busy(i)
  <2>1. hist' = [hist EXCEPT !.asked = @ \cup asked, !.clash = @ \/ busy]
    BY DEF Begin
  <2>2. busy \in BOOLEAN
    OBVIOUS
  <2> HIDE DEF busy
  <2>3. hist' = [hist EXCEPT !.asked = hist.asked \cup asked, !.clash = hist.clash \/ busy]
    BY <2>1
  <2>4. hist \in Histories
    BY DEF WorkType
  <2>5. hist'.asked = hist.asked \cup asked /\ hist'.stray = hist.stray /\ hist'.torn = hist.torn
        /\ hist'.clash = (hist.clash \/ busy) /\ hist' \in Histories
    BY <2>2, <2>3, <2>4 DEF Histories
  <2> QED BY <2>5 DEF busy
<1>2. job[j].stage = "new" /\ job[j].todo = <<>>
  BY DEF Begin, WorkType, Sound
<1>3. Ahead(j) = {}
  BY <1>2, NonePlanned DEF Ahead, Plan
<1> QED BY <1>1, <1>3 DEF Begin, Plans

LEMMA NotBegunIs ==
  /\ NotBegun \in JobRecords /\ NotBegun.todo = <<>> /\ NotBegun.heir = Nothing /\ NotBegun.extras = {}
  /\ Finished \in JobRecords /\ Finished.stage = "over" /\ Finished.todo = <<>> /\ Finished.extras = {}
<1>1. NotBegun \in JobRecords /\ NotBegun.todo = <<>> /\ NotBegun.heir = Nothing /\ NotBegun.extras = {}
  BY DEF NotBegun, JobRecords, Nothing, Heirs, Cleanups
<1>2. Finished \in JobRecords /\ Finished.stage = "over" /\ Finished.todo = NotBegun.todo
      /\ Finished.extras = NotBegun.extras
  BY <1>1 DEF Finished, JobRecords
<1> QED BY <1>1, <1>2

LEMMA DoesIs ==
  ASSUME NEW steps \in Seq(Steps), NEW undo \in Cleanups
  PROVE  LET r == Does(steps, undo) IN
         r \in JobRecords /\ r.stage = "first" /\ r.todo = steps /\ r.undo = undo /\ r.heir = Nothing
         /\ r.extras = {}
BY NotBegunIs DEF Does, NotBegun, JobRecords

LEMMA WithHeir ==
  ASSUME NEW m \in JobRecords, NEW e \in Heirs
  PROVE  LET r == [m EXCEPT !.heir = e] IN
         r \in JobRecords /\ r.stage = m.stage /\ r.todo = m.todo /\ r.undo = m.undo /\ r.heir = e
         /\ r.extras = m.extras
BY DEF JobRecords

LEMMA SoundPlan ==
  ASSUME NEW r \in JobRecords, NEW A, Plan(r.todo, A), Shaped(A, r.undo), r.stage \notin {"new", "over"},
         r.extras # {} => r.token \in Tokens
  PROVE  Sound(r) /\ Of(r.todo) = A
BY DEF Sound, Plan

LEMMA CreatePlans ==
  ASSUME WorkType, NEW j \in Jobs, CreateKey(j)
  PROVE  \E r : Plans(j, r)
<1>1. PICK s \in Servers, startNow \in BOOLEAN, extras \in SUBSET Servers, t \in Tokens :
        /\ Spare(s) # {} /\ Members(t) = {}
        /\ Begin(j, [Does(CreateSteps(NextKey(s), t, startNow), Undo(NextKey(s)))
                       EXCEPT !.extras = extras, !.token = t], {})
  BY DEF CreateKey
<1> DEFINE n == NextKey(s)
           steps == CreateSteps(n, t, startNow)
           A == Create(n, t, startNow)
           d == Does(steps, Undo(n))
           r == [d EXCEPT !.extras = extras, !.token = t]
<1>2. n \in Spare(s) /\ Begin(j, r, {})
  BY <1>1 DEF NextKey
<1> HIDE DEF n
<1>3. n \in Keys /\ At[n] = s
  BY <1>2 DEF Spare
<1>4. Plan(steps, A)
  BY <1>3, CreatePlanned
<1>5. Shaped(A, Undo(n)) /\ Builder(A, Nothing) /\ Keeper(A, hist'.asked)
  BY <1>1, <1>2, <1>3, CreateIs
<1>6. steps \in Seq(Steps) /\ Undo(n) \in Cleanups
  BY <1>3, <1>4 DEF Plan, Cleanups
<1> HIDE DEF A, steps
<1>7. /\ r \in JobRecords /\ r.stage = "first" /\ r.todo = steps /\ r.undo = Undo(n)
      /\ r.heir = Nothing /\ r.token \in Tokens
  <2>1. d \in JobRecords /\ d.stage = "first" /\ d.todo = steps /\ d.undo = Undo(n) /\ d.heir = Nothing
    BY <1>6, DoesIs
  <2> HIDE DEF d
  <2>2. /\ r \in JobRecords /\ r.stage = d.stage /\ r.todo = d.todo /\ r.undo = d.undo
        /\ r.heir = d.heir /\ r.token = t
    BY <2>1 DEF JobRecords
  <2> QED BY <2>1, <2>2
<1> HIDE DEF r
<1>8. Sound(r) /\ Of(r.todo) = A
  BY <1>4, <1>5, <1>7, SoundPlan
<1>9. Plans(j, r)
  BY <1>2, <1>5, <1>7, <1>8, BeginPlans
<1> QED BY <1>9

LEMMA RotatePlans ==
  ASSUME WorkType, NEW j \in Jobs, RotateKey(j)
  PROVE  \E r : Plans(j, r)
<1>1. PICK k \in Keys :
        /\ rows[k].known /\ outline[k] # "none" /\ Spare(At[k]) # {}
        /\ LET n == NextKey(At[k]) IN
             Begin(j, [Does(RotateSteps(k, n, rows[k]), UndoRotate(n)) EXCEPT !.heir = Heir(rows[k])], {})
  BY DEF RotateKey
<1> DEFINE n == NextKey(At[k])
           steps == RotateSteps(k, n, rows[k])
           A == Rotate(k, n, rows[k])
           e == Heir(rows[k])
           d == Does(steps, UndoRotate(n))
           r == [d EXCEPT !.heir = e]
<1>2. n \in Spare(At[k]) /\ Begin(j, r, {}) /\ rows[k] \in Rows
  BY <1>1 DEF NextKey, WorkType
<1> HIDE DEF n
<1>3. n \in Keys /\ At[n] = At[k]
  BY <1>2 DEF Spare
<1>4. Plan(steps, A)
  BY <1>2, <1>3, RotatePlanned
<1>5. Shaped(A, UndoRotate(n)) /\ Builder(A, e) /\ Keeper(A, hist'.asked)
  BY <1>1, <1>2, <1>3, RotateIs
<1>6. steps \in Seq(Steps) /\ UndoRotate(n) \in Cleanups /\ e \in Heirs
  BY <1>2, <1>3, <1>4 DEF Plan, Cleanups, Heir, Heirs, Rows
<1> HIDE DEF A, steps, e
<1>7. r \in JobRecords /\ r.stage = "first" /\ r.todo = steps /\ r.undo = UndoRotate(n) /\ r.heir = e
      /\ r.extras = {}
  <2>1. d \in JobRecords /\ d.stage = "first" /\ d.todo = steps /\ d.undo = UndoRotate(n) /\ d.extras = {}
    BY <1>6, DoesIs
  <2> HIDE DEF d
  <2> QED BY <1>6, <2>1, WithHeir
<1> HIDE DEF r
<1>8. Sound(r) /\ Of(r.todo) = A
  BY <1>4, <1>5, <1>7, SoundPlan
<1>9. Plans(j, r)
  BY <1>2, <1>5, <1>7, <1>8, BeginPlans
<1> QED BY <1>9

LEMMA AddPlans ==
  ASSUME WorkType, NEW j \in Jobs, AddServers(j)
  PROVE  \E r : Plans(j, r)
<1>1. PICK t \in Tokens, targets \in SUBSET Servers \ {{}} :
        Begin(j, [NotBegun EXCEPT !.stage = "extra", !.extras = targets, !.token = t], {})
  BY DEF AddServers
<1> DEFINE r == [NotBegun EXCEPT !.stage = "extra", !.extras = targets, !.token = t]
<1>2. r \in JobRecords /\ r.stage = "extra" /\ r.todo = <<>> /\ r.token \in Tokens
  BY NotBegunIs DEF JobRecords
<1> HIDE DEF r
<1>3. Sound(r) /\ Of(r.todo) = {}
  BY <1>2, NonePlanned, NothingIs, SoundPlan
<1>4. Plans(j, r)
  BY <1>1, <1>3, NothingIs, BeginPlans DEF r
<1> QED BY <1>4

LEMMA RemovePlans ==
  ASSUME WorkType, NEW j \in Jobs, DeleteKey(j)
  PROVE  \E r : Plans(j, r)
<1>1. PICK k \in Keys :
        rows[k].known /\ Begin(j, Does(RemoveSteps(k), <<>>), {rows[k].token} \ {None})
  BY DEF DeleteKey
<1> DEFINE asked == {rows[k].token} \ {None}
           A == Remove(k, rows[k].token)
           r == Does(RemoveSteps(k), <<>>)
<1>2. rows[k] \in Rows
  BY DEF WorkType
<1>3. asked \in SUBSET (Tokens \cup {None})
  BY <1>2 DEF Rows
<1>4. Plan(RemoveSteps(k), A) /\ RemoveSteps(k) \in Seq(Steps)
  BY <1>2, RemovePlanned DEF Plan
<1>5. r \in JobRecords /\ r.stage = "first" /\ r.todo = RemoveSteps(k) /\ r.undo = <<>>
      /\ r.extras = {}
  BY <1>4, DoesIs DEF Cleanups
<1>6. rows[k].token # None => rows[k].token \in hist'.asked
  <2>1. hist \in Histories /\ hist' = [hist EXCEPT !.asked = @ \cup asked, !.clash = @ \/ \E i \in Jobs : Busy(i)]
    BY <1>1 DEF Begin, WorkType
  <2>2. hist'.asked = hist.asked \cup asked
    BY <2>1 DEF Histories
  <2> QED BY <2>2
<1> HIDE DEF r
<1>7. Shaped(A, <<>>) /\ Builder(A, r.heir) /\ Keeper(A, hist'.asked)
  BY <1>1, <1>6, RemoveIs
<1> HIDE DEF A
<1>8. Sound(r) /\ Of(r.todo) = A
  BY <1>4, <1>5, <1>7, SoundPlan
<1>9. Plans(j, r)
  BY <1>1, <1>3, <1>7, <1>8, BeginPlans DEF r
<1> QED BY <1>9

LEMMA UnlinkPlans ==
  ASSUME WorkType, NEW j \in Jobs, RemoveServerFrom(j)
  PROVE  \E r : Plans(j, r)
<1>1. PICK t \in Tokens : \E k \in Members(t) :
        Begin(j, Does(<<Row(k, [token |-> None], "stop"), Forget(t)>>, <<>>), {t})
  BY DEF RemoveServerFrom
<1>0. PICK k \in Members(t) :
        Begin(j, Does(<<Row(k, [token |-> None], "stop"), Forget(t)>>, <<>>), {t})
  BY <1>1
<1> DEFINE steps == <<Row(k, [token |-> None], "stop"), Forget(t)>>
           A == {Unlinks(k), Forget(t)}
           r == Does(steps, <<>>)
<1>2. k \in Keys
  BY DEF Members
<1>3. Plan(steps, A)
  BY <1>2, UnlinkPlanned
<1>4. Begin(j, r, {t}) /\ steps \in Seq(Steps)
  BY <1>0, <1>3 DEF Plan
<1> HIDE DEF steps
<1>5. r \in JobRecords /\ r.stage = "first" /\ r.todo = steps /\ r.undo = <<>> /\ r.extras = {}
  BY <1>4, DoesIs DEF Cleanups
<1>6. t \in hist'.asked
  <2>1. hist \in Histories /\ hist' = [hist EXCEPT !.asked = @ \cup {t}, !.clash = @ \/ \E i \in Jobs : Busy(i)]
    BY <1>4 DEF Begin, WorkType
  <2>2. hist'.asked = hist.asked \cup {t}
    BY <2>1 DEF Histories
  <2> QED BY <2>2
<1> HIDE DEF r
<1>7. Shaped(A, <<>>) /\ Builder(A, r.heir) /\ Keeper(A, hist'.asked)
  BY <1>6, UnlinkIs
<1> HIDE DEF A
<1>8. Sound(r) /\ Of(r.todo) = A
  BY <1>3, <1>5, <1>7, SoundPlan
<1>9. Plans(j, r)
  BY <1>4, <1>7, <1>8, BeginPlans
<1> QED BY <1>9

LEMMA MirrorPlans ==
  ASSUME WorkType, NEW j \in Jobs, MirrorNext(j)
  PROVE  \E r : Plans(j, r)
<1>1. PICK s \in job[j].extras :
       LET members == Members(job[j].token)
           next == [job[j] EXCEPT !.stage = "extra", !.extras = @ \ {s}] IN
       \/ job' = [job EXCEPT ![j] = Settled(next)]
       \/ /\ ~Included(members, s)
          /\ Spare(s) # {}
          /\ \E k \in members :
               job' = [job EXCEPT ![j] =
                 [next EXCEPT !.todo = MirrorSteps(NextKey(s), job[j].token, rows[k]),
                              !.undo = Undo(NextKey(s)), !.heir = Heir(rows[k])]]
  BY DEF MirrorNext
<1> DEFINE t == job[j].token
           next == [job[j] EXCEPT !.stage = "extra", !.extras = @ \ {s}]
<1>2. job[j].stage \in {"first", "extra"} /\ job[j].todo = <<>> /\ UNCHANGED <<outline, rows, owes, hist>>
  BY DEF MirrorNext
<1>3. job[j] \in JobRecords /\ hist \in Histories /\ t \in Tokens
  BY DEF WorkType, Sound
<1>4. next \in JobRecords /\ next.stage = "extra" /\ next.todo = <<>> /\ next.token = t
  BY <1>2, <1>3 DEF JobRecords
<1>5. ASSUME NEW r, Sound(r), job' = [job EXCEPT ![j] = r], Builder(Of(r.todo), r.heir),
             Keeper(Of(r.todo), hist'.asked)
      PROVE  Plans(j, r)
  BY <1>2, <1>3, <1>5, NonePlanned DEF Plans, Ahead, Plan, Busy
<1> HIDE DEF next
<1>6. CASE job' = [job EXCEPT ![j] = Settled(next)]
  <2>1. Sound(next) /\ Of(next.todo) = {}
    <3>1. Plan(next.todo, {}) /\ Shaped({}, next.undo) /\ next.stage \notin {"new", "over"}
      BY <1>4, NonePlanned, NothingIs
    <3> QED BY <1>3, <1>4, <3>1, SoundPlan
  <2>2. Sound(Finished) /\ Of(Finished.todo) = {}
    BY NotBegunIs, NonePlanned, NothingIs DEF Sound, Plan
  <2>3. Plans(j, Settled(next))
    BY <1>5, <1>6, <2>1, <2>2, NothingIs DEF Settled
  <2> QED BY <2>3
<1>7. ASSUME NEW k \in Members(t), ~Included(Members(t), s), Spare(s) # {},
             job' = [job EXCEPT ![j] = [next EXCEPT !.todo = MirrorSteps(NextKey(s), t, rows[k]),
                                                    !.undo = Undo(NextKey(s)), !.heir = Heir(rows[k])]]
      PROVE  \E r : Plans(j, r)
  <2> DEFINE n == NextKey(s)
             steps == MirrorSteps(n, t, rows[k])
             A == Mirror(n, t, rows[k])
             e == Heir(rows[k])
             r == [next EXCEPT !.todo = steps, !.undo = Undo(n), !.heir = e]
  <2>1. n \in Spare(s) /\ job' = [job EXCEPT ![j] = r]
    BY <1>7 DEF NextKey
  <2>2. k \in Keys /\ rows[k] \in Rows
    BY <1>7 DEF Members, WorkType
  <2> HIDE DEF n
  <2>3. n \in Keys /\ At[n] = s
    BY <2>1 DEF Spare
  <2>4. Plan(steps, A)
    BY <1>3, <2>2, <2>3, MirrorPlanned
  <2>5. Shaped(A, Undo(n)) /\ Builder(A, e) /\ Keeper(A, hist'.asked)
    BY <1>3, <1>7, <2>1, <2>2, <2>3, MirrorIs
  <2>6. steps \in Seq(Steps) /\ Undo(n) \in Cleanups /\ e \in Heirs
    BY <2>2, <2>3, <2>4 DEF Plan, Cleanups, Heir, Heirs, Rows
  <2> HIDE DEF A, steps, e
  <2>7. /\ r \in JobRecords /\ r.stage = "extra" /\ r.todo = steps /\ r.undo = Undo(n) /\ r.heir = e
        /\ r.token = t
    BY <1>4, <2>6 DEF JobRecords
  <2> HIDE DEF r
  <2>8. Sound(r) /\ Of(r.todo) = A
    BY <1>3, <2>4, <2>5, <2>7, SoundPlan
  <2>9. Plans(j, r)
    BY <1>5, <2>1, <2>5, <2>7, <2>8
  <2> QED BY <2>9
<1> QED BY <1>1, <1>6, <1>7 DEF next

\* Request j goes on with the steps B; nobody else does anything.
Proceeds(j, B) ==
  /\ DOMAIN job' = Jobs /\ job' \in [Jobs -> JobRecords] /\ \A i \in Jobs : Sound(job'[i])
  /\ \A i \in Jobs \ {j} : job'[i] = job[i]
  /\ Of(job'[j].todo) = B /\ (B = {} \/ job'[j].heir = job[j].heir)
  /\ Busy(j)

First(j, h) == h \in Ahead(j) /\ \A s \in Ahead(j) : s = h \/ Rank(h) < Rank(s)

LEMMA StepIsFirst ==
  ASSUME WorkType, NEW j \in Jobs, job[j].todo # <<>>
  PROVE  /\ First(j, Step(j)) /\ Step(j) \in Steps /\ Busy(j)
         /\ Plan(Tail(job[j].todo), Ahead(j) \ {Step(j)})
<1>1. Sound(job[j])
  BY DEF WorkType
<1>2. job[j].todo \in Seq(Steps)
  BY <1>1 DEF Sound, JobRecords
<1>3. Plan(job[j].todo, Ahead(j))
  BY <1>1, <1>2 DEF Sound, Plan, Ahead
<1>4. Ahead(j) \subseteq Steps
  BY <1>2 DEF Ahead, Of
<1>5. job[j].stage \notin {"new", "over"}
  BY <1>1 DEF Sound
<1> QED BY <1>3, <1>4, <1>5, TailPlanned DEF First, Step, Busy

LEMMA SettledProceeds ==
  ASSUME WorkType, NEW j \in Jobs, NEW r, Sound(r), r.heir = job[j].heir, Busy(j),
         job' = [job EXCEPT ![j] = Settled(r)]
  PROVE  Proceeds(j, Of(r.todo))
<1>1. Sound(Finished) /\ Of(Finished.todo) = {}
  BY NotBegunIs, NonePlanned, NothingIs DEF Sound, Plan
<1>2. \/ Settled(r) = Finished /\ Of(r.todo) = {}
      \/ Settled(r) = r
  BY NonePlanned DEF Settled, Plan
<1>3. Sound(Settled(r)) /\ Of(Settled(r).todo) = Of(r.todo)
  BY <1>1, <1>2
<1>4. Settled(r) \in JobRecords
  BY <1>3 DEF Sound
<1>5. Of(r.todo) = {} \/ Settled(r).heir = job[j].heir
  BY <1>2
<1> HIDE DEF Settled
<1> QED BY <1>3, <1>4, <1>5 DEF Proceeds, WorkType

LEMMA ShapedRest ==
  ASSUME NEW A \in SUBSET Steps, NEW h \in A, \A s \in A : s = h \/ Rank(h) < Rank(s), NEW undo,
         Shaped(A, undo)
  PROVE  Shaped(A \ {h}, undo)
<1>1. ASSUME NEW n \in Keys, Opens(n) \in A \ {h} PROVE Inserts(n) \in A \ {h}
  <2>1. Inserts(n) \in A /\ Rank(h) < Rank(Opens(n))
    BY <1>1 DEF Shaped
  <2>2. Rank(Inserts(n)) = 3 /\ Rank(Opens(n)) = 1 /\ Rank(h) \in Int
    BY Ranks, Kinds
  <2> QED BY <2>1, <2>2
<1> QED BY <1>1 DEF Shaped

\* The rest of a request whose first step is done, or may be skipped.
LEMMA RestIsSound ==
  ASSUME WorkType, NEW j \in Jobs, job[j].todo # <<>>
  PROVE  LET r == [job[j] EXCEPT !.todo = Tail(job[j].todo)] IN
         Sound(r) /\ Of(r.todo) = Ahead(j) \ {Step(j)} /\ r.heir = job[j].heir
<1> DEFINE q == Tail(job[j].todo)
           A == Ahead(j) \ {Step(j)}
           r == [job[j] EXCEPT !.todo = q]
<1>1. First(j, Step(j)) /\ Busy(j) /\ Plan(q, A)
  BY StepIsFirst
<1>2. job[j] \in JobRecords /\ Shaped(Ahead(j), job[j].undo) /\ Ahead(j) \subseteq Steps
      /\ (job[j].extras # {} => job[j].token \in Tokens)
  <2>1. Sound(job[j]) /\ job[j] \in JobRecords
    BY DEF WorkType, Sound
  <2>2. job[j].todo \in Seq(Steps)
    BY <2>1 DEF JobRecords
  <2> QED BY <2>1, <2>2 DEF Sound, Ahead, Of
<1>3. Shaped(A, job[j].undo)
  BY <1>1, <1>2, ShapedRest DEF First
<1>4. q \in Seq(Steps)
  BY <1>1 DEF Plan
<1> HIDE DEF q, A
<1>5. /\ r \in JobRecords /\ r.stage = job[j].stage /\ r.todo = q /\ r.undo = job[j].undo
      /\ r.extras = job[j].extras /\ r.token = job[j].token /\ r.heir = job[j].heir
  BY <1>2, <1>4 DEF JobRecords
<1> HIDE DEF r
<1>6. Sound(r) /\ Of(r.todo) = A
  BY <1>1, <1>2, <1>3, <1>5, SoundPlan DEF Busy
<1> QED BY <1>5, <1>6 DEF r, q, A

LEMMA GoesOn ==
  ASSUME WorkType, NEW j \in Jobs, job[j].todo # <<>>, Goes(j)
  PROVE  Proceeds(j, Ahead(j) \ {Step(j)})
<1> DEFINE r == [job[j] EXCEPT !.todo = Tail(job[j].todo)]
<1>1. Sound(r) /\ Of(r.todo) = Ahead(j) \ {Step(j)} /\ r.heir = job[j].heir /\ Busy(j)
  BY RestIsSound, StepIsFirst
<1>2. job' = [job EXCEPT ![j] = Settled(r)]
  BY DEF Goes
<1> HIDE DEF r
<1> QED BY <1>1, <1>2, SettledProceeds

LEMMA Stumbling ==
  ASSUME WorkType, NEW j \in Jobs, job[j].todo # <<>>, Step(j).fails \in {"skip", "undo", "stop"},
         job' = [job EXCEPT ![j] = Settled(After(j))]
  PROVE  /\ Step(j).fails = "skip" => Proceeds(j, Ahead(j) \ {Step(j)})
         /\ Step(j).fails = "undo" => \/ Proceeds(j, {Deletes(Step(j).key, "skip")})
                                      \/ Proceeds(j, {Deletes(Step(j).key, "skip"), Erases(Step(j).key)})
         /\ Step(j).fails = "stop" => Proceeds(j, {})
<1> DEFINE h == Step(j)
<1>1. First(j, h) /\ Busy(j) /\ h \in Steps
  BY StepIsFirst
<1>2. /\ job[j] \in JobRecords /\ Shaped(Ahead(j), job[j].undo)
      /\ (job[j].extras # {} => job[j].token \in Tokens)
      /\ job[j].stage \notin {"new", "over"}
  BY <1>1 DEF WorkType, Sound, Ahead, Busy
<1>3. CASE h.fails = "skip"
  <2> DEFINE r == [job[j] EXCEPT !.todo = Tail(job[j].todo)]
  <2>1. Sound(r) /\ Of(r.todo) = Ahead(j) \ {h} /\ r.heir = job[j].heir
    BY RestIsSound
  <2>2. After(j) = r
    BY <1>3 DEF After
  <2> HIDE DEF r
  <2>3. Proceeds(j, Ahead(j) \ {h})
    BY <1>1, <2>1, <2>2, SettledProceeds
  <2> QED BY <1>3, <2>3
<1>4. ASSUME NEW steps \in Seq(Steps), NEW undo \in Cleanups, NEW extras \in SUBSET job[j].extras, NEW B,
             Plan(steps, B), Shaped(B, undo),
             After(j) = [job[j] EXCEPT !.todo = steps, !.undo = undo, !.extras = extras]
      PROVE  Proceeds(j, B)
  <2> DEFINE r == [job[j] EXCEPT !.todo = steps, !.undo = undo, !.extras = extras]
  <2>1. /\ r \in JobRecords /\ r.stage = job[j].stage /\ r.todo = steps /\ r.undo = undo
        /\ r.extras = extras /\ r.token = job[j].token /\ r.heir = job[j].heir
    BY <1>2 DEF JobRecords
  <2>2. After(j) = r
    BY <1>4
  <2> HIDE DEF r
  <2>3. Sound(r) /\ Of(r.todo) = B
    BY <1>2, <1>4, <2>1, SoundPlan
  <2> QED BY <1>1, <2>1, <2>2, <2>3, SettledProceeds
<1> DEFINE rest == IF job[j].stage # "extra" THEN {} ELSE job[j].extras
<1>5. rest \in SUBSET job[j].extras /\ <<>> \in Cleanups /\ <<>> \in Seq(Steps)
  BY DEF Cleanups
<1>6. CASE h.fails = "undo"
  <2> DEFINE n == h.key
             steps == job[j].undo
  <2>1. After(j) = [job[j] EXCEPT !.todo = steps, !.undo = <<>>, !.extras = rest]
    BY <1>6 DEF After
  <2>2. steps \in {Undo(n), UndoRotate(n)}
    BY <1>1, <1>2, <1>6 DEF Shaped, First
  <2>3. n \in Keys
    BY <1>1, <1>6, StepFields
  <2>4. CASE steps = Undo(n)
    <3> DEFINE B == {Deletes(n, "skip")}
    <3>1. Plan(steps, B) /\ steps \in Seq(Steps)
      BY <2>3, <2>4, CleanupsPlanned DEF Plan
    <3>2. Shaped(B, <<>>)
      BY <2>3, CleanupIs
    <3> HIDE DEF B
    <3>3. Proceeds(j, B)
      BY <1>4, <1>5, <2>1, <3>1, <3>2
    <3> QED BY <1>6, <3>3 DEF B
  <2>5. CASE steps = UndoRotate(n)
    <3> DEFINE B == {Deletes(n, "skip"), Erases(n)}
    <3>1. Plan(steps, B) /\ steps \in Seq(Steps)
      BY <2>3, <2>5, CleanupsPlanned DEF Plan
    <3>2. Shaped(B, <<>>)
      BY <2>3, CleanupIs
    <3> HIDE DEF B
    <3>3. Proceeds(j, B)
      BY <1>4, <1>5, <2>1, <3>1, <3>2
    <3> QED BY <1>6, <3>3 DEF B
  <2> QED BY <2>2, <2>4, <2>5
<1>7. CASE h.fails = "stop"
  <2>1. After(j) = [job[j] EXCEPT !.todo = <<>>, !.extras = rest]
    BY <1>7 DEF After
  <2>2. After(j) = [job[j] EXCEPT !.todo = <<>>, !.undo = job[j].undo, !.extras = rest]
    BY <1>2, <2>1 DEF JobRecords
  <2>3. Plan(<<>>, {}) /\ Shaped({}, job[j].undo) /\ job[j].undo \in Cleanups
    BY <1>2, NonePlanned, NothingIs DEF JobRecords
  <2>4. Proceeds(j, {})
    BY <1>4, <1>5, <2>2, <2>3
  <2> QED BY <1>7, <2>4
<1> QED BY <1>3, <1>6, <1>7

\* What a statement makes of a row: nothing if there is none, except for the insert.
LEMMA InsertsRow ==
  ASSUME NEW n, rows[n] \in Rows
  PROVE  Written(Inserts(n)) = Fresh
<1>1. Fresh \in Rows /\ DOMAIN Fresh = {"known", "token", "off", "begun", "ends"}
  BY DEF Fresh, NoRow, Rows
<1>2. DOMAIN rows[n] = {"known", "token", "off", "begun", "ends"}
  BY DEF Rows
<1>3. Applied(Fresh, rows[n]) = [f \in {"known", "token", "off", "begun", "ends"} |-> Fresh[f]]
  BY <1>1, <1>2 DEF Applied
<1>4. Applied(Fresh, rows[n]) = Fresh
  BY <1>1, <1>3 DEF Fresh, NoRow
<1> QED BY <1>4, RowStepsAre DEF Written

LEMMA ErasesRow ==
  ASSUME NEW n, rows[n] \in Rows
  PROVE  Written(Erases(n)) = IF rows[n].known THEN NoRow ELSE rows[n]
<1>1. NoRow \in Rows /\ DOMAIN NoRow = {"known", "token", "off", "begun", "ends"}
  BY DEF NoRow, Rows
<1>2. DOMAIN rows[n] = {"known", "token", "off", "begun", "ends"}
  BY DEF Rows
<1>3. Applied(NoRow, rows[n]) = NoRow
  BY <1>1, <1>2 DEF Applied, NoRow
<1>4. NoRow.known # Fresh.known
  BY DEF NoRow, Fresh
<1> QED BY <1>3, <1>4, RowStepsAre DEF Written

LEMMA AppliedIs ==
  ASSUME NEW r \in Rows, NEW x, NEW y
  PROVE  /\ Applied([off |-> x], r) = [r EXCEPT !.off = x]
         /\ Applied([token |-> x], r) = [r EXCEPT !.token = x]
         /\ Applied([begun |-> x, ends |-> y], r)
              = [known |-> r.known, token |-> r.token, off |-> r.off, begun |-> x, ends |-> y]
<1>1. DOMAIN r = {"known", "token", "off", "begun", "ends"}
  BY DEF Rows
<1>2. Applied([off |-> x], r) = [r EXCEPT !.off = x]
  BY <1>1 DEF Applied, Rows
<1>3. Applied([token |-> x], r) = [r EXCEPT !.token = x]
  BY <1>1 DEF Applied, Rows
<1>4. Applied([begun |-> x, ends |-> y], r)
        = [known |-> r.known, token |-> r.token, off |-> r.off, begun |-> x, ends |-> y]
  BY <1>1 DEF Applied, Rows
<1> QED BY <1>2, <1>3, <1>4

LEMMA WritesRow ==
  ASSUME NEW n, rows[n] \in Rows
  PROVE  LET r == rows[n] IN
         /\ \A s \in {Starts(n), StartsEndless(n), Suspends(n), Unlinks(n)} :
              ~r.known => Written(s) = r
         /\ \A t : ~r.known => Written(Links(n, t)) = r
         /\ r.known =>
              /\ Written(Starts(n)) = [known |-> TRUE, token |-> r.token, off |-> r.off,
                                       begun |-> TRUE, ends |-> TRUE]
              /\ Written(StartsEndless(n)) = [known |-> TRUE, token |-> r.token, off |-> r.off,
                                              begun |-> TRUE, ends |-> FALSE]
              /\ Written(Suspends(n)) = [r EXCEPT !.off = TRUE]
              /\ Written(Unlinks(n)) = [r EXCEPT !.token = None]
              /\ \A t : Written(Links(n, t)) = [r EXCEPT !.token = t]
<1> DEFINE r == rows[n]
<1>1. "known" \in DOMAIN Fresh
  BY DEF Fresh, NoRow
<1>2. /\ \A t : [token |-> t] # Fresh
      /\ [off |-> TRUE] # Fresh /\ [begun |-> TRUE, ends |-> TRUE] # Fresh
      /\ [begun |-> TRUE, ends |-> FALSE] # Fresh
  BY <1>1
<1>3. r.known => r.known = TRUE
  BY DEF Rows
<1>4. /\ Applied([off |-> TRUE], r) = [r EXCEPT !.off = TRUE]
      /\ \A t : Applied([token |-> t], r) = [r EXCEPT !.token = t]
      /\ Applied([begun |-> TRUE, ends |-> TRUE], r)
           = [known |-> r.known, token |-> r.token, off |-> r.off, begun |-> TRUE, ends |-> TRUE]
      /\ Applied([begun |-> TRUE, ends |-> FALSE], r)
           = [known |-> r.known, token |-> r.token, off |-> r.off, begun |-> TRUE, ends |-> FALSE]
  BY AppliedIs, Zenon
<1>5. /\ Starts(n).to = [begun |-> TRUE, ends |-> TRUE] /\ Starts(n).key = n
      /\ StartsEndless(n).to = [begun |-> TRUE, ends |-> FALSE] /\ StartsEndless(n).key = n
      /\ Suspends(n).to = [off |-> TRUE] /\ Suspends(n).key = n
      /\ Unlinks(n).to = [token |-> None] /\ Unlinks(n).key = n
      /\ \A t : Links(n, t).to = [token |-> t] /\ Links(n, t).key = n
  BY RowStepsAre
<1>6. ASSUME NEW s, s.key = n, s.to # Fresh
      PROVE  (r.known => Written(s) = Applied(s.to, r)) /\ (~r.known => Written(s) = r)
  BY <1>6 DEF Written
<1> HIDE DEF r
<1>7. /\ r.known => Written(Starts(n)) = Applied([begun |-> TRUE, ends |-> TRUE], r)
      /\ ~r.known => Written(Starts(n)) = r
  <2>1. Starts(n).key = n /\ Starts(n).to # Fresh /\ Starts(n).to = [begun |-> TRUE, ends |-> TRUE]
    BY <1>2, <1>5, Zenon
  <2> QED BY <1>6, <2>1, Zenon
<1>8. /\ r.known => Written(StartsEndless(n)) = Applied([begun |-> TRUE, ends |-> FALSE], r)
      /\ ~r.known => Written(StartsEndless(n)) = r
  <2>1. StartsEndless(n).key = n /\ StartsEndless(n).to # Fresh
    BY <1>2, <1>5, Zenon
  <2> QED BY <1>5, <1>6, <2>1, Zenon
<1>9. /\ r.known => Written(Suspends(n)) = Applied([off |-> TRUE], r)
      /\ ~r.known => Written(Suspends(n)) = r
  <2>1. Suspends(n).key = n /\ Suspends(n).to # Fresh
    BY <1>2, <1>5, Zenon
  <2> QED BY <1>5, <1>6, <2>1, Zenon
<1>10. /\ r.known => Written(Unlinks(n)) = Applied([token |-> None], r)
       /\ ~r.known => Written(Unlinks(n)) = r
  <2>1. Unlinks(n).key = n /\ Unlinks(n).to # Fresh
    BY <1>2, <1>5, Zenon
  <2> QED BY <1>5, <1>6, <2>1, Zenon
<1>11. ASSUME NEW t
       PROVE  /\ r.known => Written(Links(n, t)) = Applied([token |-> t], r)
              /\ ~r.known => Written(Links(n, t)) = r
  <2>1. Links(n, t).key = n /\ Links(n, t).to # Fresh /\ Links(n, t).to = [token |-> t]
    BY <1>2, <1>5, Zenon
  <2> QED BY <1>6, <2>1, Zenon
<1>12. CASE r.known
  <2>1. Written(Starts(n)) = [known |-> TRUE, token |-> r.token, off |-> r.off, begun |-> TRUE, ends |-> TRUE]
    BY <1>3, <1>4, <1>7, <1>12, Zenon
  <2>2. Written(StartsEndless(n))
          = [known |-> TRUE, token |-> r.token, off |-> r.off, begun |-> TRUE, ends |-> FALSE]
    BY <1>3, <1>4, <1>8, <1>12, Zenon
  <2>3. Written(Suspends(n)) = [r EXCEPT !.off = TRUE] /\ Written(Unlinks(n)) = [r EXCEPT !.token = None]
    BY <1>4, <1>9, <1>10, <1>12, Zenon
  <2>4. \A t : Written(Links(n, t)) = [r EXCEPT !.token = t]
    BY <1>4, <1>11, <1>12, Zenon
  <2> QED BY <1>12, <2>1, <2>2, <2>3, <2>4, Zenon DEF r
<1>13. CASE ~r.known
  BY <1>7, <1>8, <1>9, <1>10, <1>11, <1>13 DEF r
<1> QED BY <1>12, <1>13

LEMMA RowChanges ==
  ASSUME NEW s \in Steps, Rank(s) \in {3, 4, 6, 7, 10, 11}, rows[s.key] \in Rows
  PROVE  LET r == rows[s.key]
             w == Written(s) IN
         /\ w \in Rows
         /\ Rank(s) = 3 => w = Fresh
         /\ Rank(s) # 3 /\ ~r.known => w = r
         /\ Rank(s) \in {4, 6, 7, 10} /\ r.known => w.known
         /\ Rank(s) \in {4, 6} => w.token = r.token
         /\ Rank(s) \in {4, 7, 10} => w.off = r.off
         /\ Rank(s) \in {6, 7, 10} => w.ends = r.ends
         /\ s = Starts(s.key) /\ r.known => w.ends
         /\ Rank(s) = 6 /\ r.known => w.off
         /\ \A t : s = Links(s.key, t) /\ r.known => w.token = t
         /\ Rank(s) = 10 /\ r.known => w.token = None
         /\ Rank(s) = 11 /\ r.known => w = NoRow
<1> DEFINE n == s.key
           r == rows[n]
           w == Written(s)
<1>1. n \in Keys /\ r \in Rows
  BY Kinds
<1>2. CASE Rank(s) = 3
  <2>1. s = Inserts(n) /\ s \notin {Starts(n)} /\ \A t : s # Links(n, t)
    BY <1>2, Kinds, Ranks
  <2>2. w = Fresh /\ Fresh \in Rows
    BY <1>1, <2>1, InsertsRow DEF Fresh, NoRow, Rows
  <2> HIDE DEF w, n
  <2> QED BY <1>2, <2>1, <2>2 DEF w, n
<1>3. CASE Rank(s) = 4
  <2>1. s \in {Starts(n), StartsEndless(n)} /\ \A t : s # Links(n, t)
    BY <1>3, Kinds, Ranks
  <2>2. ~r.known => w = r
    BY <1>1, <2>1, WritesRow
  <2>3. r.known => w \in Rows /\ w.known /\ w.token = r.token /\ w.off = r.off
    <3>1. r.known => \/ w = [known |-> TRUE, token |-> r.token, off |-> r.off, begun |-> TRUE, ends |-> TRUE]
                     \/ w = [known |-> TRUE, token |-> r.token, off |-> r.off, begun |-> TRUE, ends |-> FALSE]
      BY <1>1, <2>1, WritesRow
    <3>2. ASSUME NEW t \in Tokens \cup {None}, NEW a \in BOOLEAN, NEW b \in BOOLEAN, NEW c \in BOOLEAN
          PROVE  LET v == [known |-> TRUE, token |-> t, off |-> a, begun |-> b, ends |-> c] IN
                 v \in Rows /\ v.known /\ v.token = t /\ v.off = a
      BY DEF Rows
    <3>3. r.token \in Tokens \cup {None} /\ r.off \in BOOLEAN
      BY <1>1 DEF Rows
    <3> HIDE DEF r, w
    <3>4. TRUE \in BOOLEAN /\ FALSE \in BOOLEAN
      OBVIOUS
    <3>5. CASE w = [known |-> TRUE, token |-> r.token, off |-> r.off, begun |-> TRUE, ends |-> TRUE]
      BY <3>2, <3>3, <3>4, <3>5, Zenon
    <3>6. CASE w = [known |-> TRUE, token |-> r.token, off |-> r.off, begun |-> TRUE, ends |-> FALSE]
      BY <3>2, <3>3, <3>4, <3>6, Zenon
    <3> QED BY <3>1, <3>5, <3>6
  <2>4. s = Starts(n) /\ r.known => w.ends
    BY <1>1, WritesRow
  <2> HIDE DEF w, n
  <2> QED BY <1>1, <1>3, <2>1, <2>2, <2>3, <2>4 DEF w, n
<1>4. CASE Rank(s) = 6
  <2>1. s = Suspends(n) /\ s # Starts(n) /\ \A t : s # Links(n, t)
    BY <1>4, Kinds, Ranks
  <2>2. ~r.known => w = r
    BY <1>1, <2>1, WritesRow
  <2>3. r.known => w = [r EXCEPT !.off = TRUE]
    BY <1>1, <2>1, WritesRow
  <2>4. r.known => w \in Rows /\ w.known /\ w.token = r.token /\ w.off /\ w.ends = r.ends
    BY <1>1, <2>3 DEF Rows
  <2> HIDE DEF w, n
  <2> QED BY <1>1, <1>4, <2>1, <2>2, <2>4 DEF w, n
<1>5. CASE Rank(s) = 7
  <2>1. PICK t \in Tokens : s = Links(n, t)
    BY <1>5, Kinds
  <2>2. s # Starts(n) /\ \A u : s = Links(n, u) => u = t
    BY <1>5, <2>1, Ranks, Told
  <2>3. ~r.known => w = r
    BY <1>1, <2>1, WritesRow
  <2>4. r.known => w = [r EXCEPT !.token = t]
    BY <1>1, <2>1, WritesRow
  <2>5. r.known => w \in Rows /\ w.known /\ w.token = t /\ w.off = r.off /\ w.ends = r.ends
    BY <1>1, <2>4 DEF Rows
  <2> HIDE DEF w, n
  <2> QED BY <1>1, <1>5, <2>2, <2>3, <2>5 DEF w, n
<1>6. CASE Rank(s) = 10
  <2>1. s = Unlinks(n) /\ s # Starts(n) /\ \A t : s # Links(n, t)
    BY <1>6, Kinds, Ranks
  <2>2. ~r.known => w = r
    BY <1>1, <2>1, WritesRow
  <2>3. r.known => w = [r EXCEPT !.token = None]
    BY <1>1, <2>1, WritesRow
  <2>4. r.known => w \in Rows /\ w.known /\ w.token = None /\ w.off = r.off /\ w.ends = r.ends
    BY <1>1, <2>3 DEF Rows
  <2> HIDE DEF w, n
  <2> QED BY <1>1, <1>6, <2>1, <2>2, <2>4 DEF w, n
<1>7. CASE Rank(s) = 11
  <2>1. s = Erases(n) /\ s # Starts(n) /\ \A t : s # Links(n, t)
    BY <1>7, Kinds, Ranks
  <2>2. w = (IF r.known THEN NoRow ELSE r) /\ NoRow \in Rows
    BY <1>1, <2>1, ErasesRow DEF NoRow, Rows
  <2> HIDE DEF w, n
  <2> QED BY <1>1, <1>7, <2>1, <2>2 DEF w, n
<1> QED BY <1>2, <1>3, <1>4, <1>5, <1>6, <1>7

\* Request j makes its next step, h.
Executes(j, h) ==
  /\ h \in Steps /\ First(j, h) /\ Proceeds(j, Ahead(j) \ {h}) /\ hist' = hist
  /\ \/ /\ Rank(h) = 1 /\ outline' = [outline EXCEPT ![h.key] = "open"]
        /\ owes' = [owes EXCEPT ![h.key] = job[j].heir] /\ rows' = rows
     \/ /\ Rank(h) \in {2, 5} /\ Exists(h.key) /\ outline' = [outline EXCEPT ![h.key] = "blocked"]
        /\ UNCHANGED <<rows, owes>>
     \/ /\ Rank(h) \in {8, 9} /\ outline' = [outline EXCEPT ![h.key] = "deleted"]
        /\ UNCHANGED <<rows, owes>>
     \/ /\ Rank(h) \in {3, 4, 6, 7, 10, 11} /\ rows' = [rows EXCEPT ![h.key] = Written(h)]
        /\ UNCHANGED <<outline, owes>>
     \/ Rank(h) = 12 /\ UNCHANGED <<outline, rows, owes>>

\* Its next step raises.
Stumbles(j, h) ==
  /\ h \in Steps /\ First(j, h) /\ UNCHANGED <<outline, rows, owes>>
  /\ hist' \in Histories /\ hist'.asked = hist.asked /\ hist'.clash = hist.clash
  /\ hist.stray \subseteq hist'.stray /\ (hist.torn => hist'.torn)
  /\ \/ /\ Rank(h) = 8 /\ h.key \in hist'.stray
        /\ Proceeds(j, Ahead(j) \ {h})
     \/ /\ Rank(h) \in 3..7
        /\ \/ Proceeds(j, {Deletes(h.key, "skip")})
           \/ Proceeds(j, {Deletes(h.key, "skip"), Erases(h.key)})
     \/ /\ Rank(h) \in {1, 2, 9} /\ (h.key \in hist'.stray \/ (Rank(h) = 2 /\ ~Exists(h.key)))
        /\ Proceeds(j, {})
     \/ Rank(h) \in {10, 11} /\ hist'.torn /\ Proceeds(j, {})

\* The rows of a server go, in a request of their own.
Clears(j, gone) ==
  /\ job[j].stage = "new" /\ Ahead(j) = {} /\ job' = [job EXCEPT ![j] = Finished] /\ gone \subseteq Keys
  /\ rows' = [k \in Keys |-> IF k \in gone THEN NoRow ELSE rows[k]]
  /\ UNCHANGED <<outline, owes>>
  /\ hist' \in Histories /\ hist.asked \subseteq hist'.asked /\ \A k \in gone : rows[k].token \in hist'.asked
  /\ hist'.clash = (hist.clash \/ \E i \in Jobs : Busy(i))
  /\ hist.stray \subseteq hist'.stray /\ gone \subseteq hist'.stray /\ hist'.torn = hist.torn

\* The requests of a process end where they are.
Dies(p) ==
  /\ job' = [j \in Jobs |-> IF Home[j] = p /\ Busy(j) THEN Finished ELSE job[j]]
  /\ UNCHANGED <<outline, rows, owes>>
  /\ hist' \in Histories /\ hist'.asked = hist.asked /\ hist'.clash = hist.clash /\ hist'.torn
  /\ hist.stray \subseteq hist'.stray
  /\ \A j \in Jobs : Home[j] = p => Builds(j) \subseteq hist'.stray

LEMMA StepsExecute ==
  ASSUME WorkType, NEW j \in Jobs, Calls(j) \/ Writes(j) \/ Forgets(j)
  PROVE  Executes(j, Step(j))
<1> DEFINE h == Step(j)
<1>1. job[j].todo # <<>> /\ Goes(j) /\ hist' = hist
  BY DEF Calls, Writes, Forgets
<1>2. h \in Steps /\ First(j, h) /\ Proceeds(j, Ahead(j) \ {h})
  BY <1>1, StepIsFirst, GoesOn
<1>3. CASE Calls(j)
  <2>1. /\ h.on = "outline" /\ outline' = [outline EXCEPT ![h.key] = h.to] /\ rows' = rows
        /\ h.to = "blocked" => Exists(h.key)
        /\ owes' = IF h.to = "open" THEN [owes EXCEPT ![h.key] = job[j].heir] ELSE owes
    BY <1>3 DEF Calls
  <2>2. \/ Rank(h) = 1 /\ h.to = "open"
        \/ Rank(h) \in {2, 5} /\ h.to = "blocked"
        \/ Rank(h) \in {8, 9} /\ h.to = "deleted"
    BY <1>2, <2>1, StepFields
  <2> HIDE DEF h
  <2>3. Executes(j, h)
    BY <1>1, <1>2, <2>1, <2>2 DEF Executes
  <2> QED BY <2>3 DEF h
<1>4. CASE Writes(j)
  <2>1. h.on = "row" /\ rows' = [rows EXCEPT ![h.key] = Written(h)] /\ UNCHANGED <<outline, owes>>
    BY <1>4 DEF Writes
  <2>2. Rank(h) \in {3, 4, 6, 7, 10, 11}
    BY <1>2, <2>1, StepFields
  <2> HIDE DEF h
  <2>3. Executes(j, h)
    BY <1>1, <1>2, <2>1, <2>2 DEF Executes
  <2> QED BY <2>3 DEF h
<1>5. CASE Forgets(j)
  <2>1. h.on = "cache" /\ UNCHANGED <<outline, rows, owes>>
    BY <1>5 DEF Forgets
  <2>2. Rank(h) = 12
    BY <1>2, <2>1, StepFields
  <2> HIDE DEF h
  <2>3. Executes(j, h)
    BY <1>1, <1>2, <2>1, <2>2 DEF Executes
  <2> QED BY <2>3 DEF h
<1> QED BY <1>3, <1>4, <1>5

LEMMA FailuresStumble ==
  ASSUME WorkType, NEW j \in Jobs, Fails(j) \/ Refused(j)
  PROVE  Stumbles(j, Step(j))
<1> DEFINE h == Step(j)
<1>1. /\ job[j].todo # <<>> /\ job' = [job EXCEPT ![j] = Settled(After(j))]
      /\ UNCHANGED <<outline, rows, owes>>
  BY DEF Fails, Refused
<1>2. h \in Steps /\ First(j, h)
  BY <1>1, StepIsFirst
<1>3. hist \in Histories /\ h.key \in Keys \cup {None}
  BY <1>2, Kinds, RowStepsAre DEF WorkType, Forget
<1>4. CASE Fails(j)
  <2>1. /\ h.fails # "never"
        /\ hist' = [hist EXCEPT !.stray = IF h.on = "outline" THEN @ \cup {h.key} ELSE @,
                                !.torn = @ \/ (h.on = "row" /\ h.fails = "stop")]
    BY <1>4 DEF Fails
  <2> DEFINE lost == IF h.on = "outline" THEN {h.key} ELSE {}
             half == h.on = "row" /\ h.fails = "stop"
  <2>2. hist' = [hist EXCEPT !.stray = hist.stray \cup lost, !.torn = hist.torn \/ half]
    <3>1. (IF h.on = "outline" THEN hist.stray \cup {h.key} ELSE hist.stray) = hist.stray \cup lost
      OBVIOUS
    <3> QED BY <2>1, <3>1
  <2>3. lost \subseteq Keys \cup {None} /\ half \in BOOLEAN
    BY <1>3
  <2>4. (h.on = "outline" => h.key \in lost) /\ (h.on = "row" /\ h.fails = "stop" => half)
    OBVIOUS
  <2> HIDE DEF lost, half
  <2>5. /\ hist' \in Histories /\ hist'.asked = hist.asked /\ hist'.clash = hist.clash
        /\ hist'.stray = hist.stray \cup lost /\ hist'.torn = (hist.torn \/ half)
    BY <1>3, <2>2, <2>3 DEF Histories
  <2>6. h.fails \in {"skip", "undo", "stop"}
    BY <1>2, <2>1, StepFields
  <2>7. /\ h.fails = "skip" => Proceeds(j, Ahead(j) \ {h})
        /\ h.fails = "undo" => \/ Proceeds(j, {Deletes(h.key, "skip")})
                               \/ Proceeds(j, {Deletes(h.key, "skip"), Erases(h.key)})
        /\ h.fails = "stop" => Proceeds(j, {})
    BY <1>1, <2>6, Stumbling
  <2>8. CASE h.fails = "skip"
    <3>1. Rank(h) = 8 /\ h.on = "outline"
      BY <1>2, <2>8, StepFields
    <3> HIDE DEF h
    <3>2. Stumbles(j, h)
      BY <1>1, <1>2, <2>4, <2>5, <2>7, <2>8, <3>1 DEF Stumbles
    <3> QED BY <3>2 DEF h
  <2>9. CASE h.fails = "undo"
    <3>1. Rank(h) \in 3..7
      BY <1>2, <2>9, StepFields
    <3> HIDE DEF h
    <3>2. Stumbles(j, h)
      BY <1>1, <1>2, <2>5, <2>7, <2>9, <3>1 DEF Stumbles
    <3> QED BY <3>2 DEF h
  <2>10. CASE h.fails = "stop"
    <3>1. \/ Rank(h) \in {1, 2, 9} /\ h.on = "outline"
          \/ Rank(h) \in {10, 11} /\ h.on = "row"
      <4>1. Rank(h) \in {1, 2, 9, 10, 11} /\ h.on \in {"outline", "row", "cache"}
        BY <1>2, <2>10, StepFields
      <4>2. /\ h.on = "outline" => Rank(h) \in {1, 2, 5, 8, 9}
            /\ h.on = "row" => Rank(h) \in {3, 4, 6, 7, 10, 11}
            /\ h.on = "cache" => Rank(h) = 12
        BY <1>2, StepFields
      <4> QED BY <4>1, <4>2
    <3>3. (h.on = "outline" => h.key \in hist'.stray) /\ hist.stray \subseteq hist'.stray
      BY <2>4, <2>5
    <3>4. (h.on = "row" => hist'.torn) /\ (hist.torn => hist'.torn)
      BY <2>4, <2>5, <2>10
    <3>5. Proceeds(j, {})
      BY <2>7, <2>10
    <3> HIDE DEF h
    <3>2. Stumbles(j, h)
      BY <1>1, <1>2, <2>5, <3>1, <3>3, <3>4, <3>5 DEF Stumbles
    <3> QED BY <3>2 DEF h
  <2> QED BY <2>6, <2>8, <2>9, <2>10
<1>5. CASE Refused(j)
  <2>1. h.on = "outline" /\ h.to = "blocked" /\ ~Exists(h.key) /\ hist' = hist
    BY <1>5 DEF Refused
  <2>2. Rank(h) \in {2, 5}
    BY <1>2, <2>1, StepFields
  <2>3. \/ Rank(h) = 2 /\ h.fails = "stop"
        \/ Rank(h) = 5 /\ h.fails = "undo"
    BY <1>2, <2>2, Kinds, StepsAre
  <2>4. /\ h.fails = "undo" => \/ Proceeds(j, {Deletes(h.key, "skip")})
                               \/ Proceeds(j, {Deletes(h.key, "skip"), Erases(h.key)})
        /\ h.fails = "stop" => Proceeds(j, {})
    BY <1>1, <2>3, Stumbling
  <2> HIDE DEF h
  <2>5. Stumbles(j, h)
    BY <1>1, <1>2, <1>3, <2>1, <2>3, <2>4 DEF Stumbles
  <2> QED BY <2>5 DEF h
<1> QED BY <1>4, <1>5

LEMMA ServersClear ==
  ASSUME WorkType, NEW j \in Jobs, DeleteServer(j)
  PROVE  \E gone : Clears(j, gone)
<1>1. PICK s \in Servers :
        LET gone == {k \in Keys : At[k] = s /\ rows[k].known} IN
        /\ job[j].stage = "new" /\ job' = [job EXCEPT ![j] = Finished]
        /\ rows' = [k \in Keys |-> IF k \in gone THEN NoRow ELSE rows[k]]
        /\ hist' = [hist EXCEPT !.asked = @ \cup {rows[k].token : k \in gone},
                                !.clash = @ \/ \E i \in Jobs : Busy(i),
                                !.stray = @ \cup {k \in Keys : At[k] = s}]
        /\ UNCHANGED <<outline, owes>>
  BY DEF DeleteServer
<1> DEFINE gone == {k \in Keys : At[k] = s /\ rows[k].known}
           tokens == {rows[k].token : k \in gone}
           there == {k \in Keys : At[k] = s}
           busy == \E i \in Jobs : Busy(i)
<1>2. hist \in Histories /\ rows \in [Keys -> Rows]
  BY DEF WorkType
<1>3. /\ tokens \subseteq Tokens \cup {None} /\ there \subseteq Keys /\ gone \subseteq there
      /\ busy \in BOOLEAN /\ \A k \in gone : rows[k].token \in tokens
  BY <1>2 DEF Rows
<1>4. hist' = [hist EXCEPT !.asked = hist.asked \cup tokens, !.clash = hist.clash \/ busy,
                           !.stray = hist.stray \cup there]
  BY <1>1
<1>5. job[j].todo = <<>>
  BY <1>1 DEF WorkType, Sound
<1>6. Ahead(j) = {}
  BY <1>5, NonePlanned DEF Ahead, Plan
<1>7. /\ job[j].stage = "new" /\ job' = [job EXCEPT ![j] = Finished] /\ UNCHANGED <<outline, owes>>
      /\ rows' = [k \in Keys |-> IF k \in gone THEN NoRow ELSE rows[k]]
  BY <1>1
<1> HIDE DEF tokens, there, busy, gone
<1>8. /\ hist' \in Histories /\ hist'.asked = hist.asked \cup tokens /\ hist'.clash = (hist.clash \/ busy)
      /\ hist'.stray = hist.stray \cup there /\ hist'.torn = hist.torn
  BY <1>2, <1>3, <1>4 DEF Histories
<1>9. hist'.clash = (hist.clash \/ \E i \in Jobs : Busy(i))
  BY <1>8 DEF busy
<1>10. Clears(j, gone)
  BY <1>3, <1>6, <1>7, <1>8, <1>9 DEF Clears
<1> QED BY <1>10

LEMMA CrashesDie ==
  ASSUME WorkType, NEW p \in Procs, Crash(p)
  PROVE  Dies(p)
<1> DEFINE keys == UNION {Builds(j) : j \in {i \in Jobs : Home[i] = p}}
<1>1. /\ job' = [j \in Jobs |-> IF Home[j] = p /\ Busy(j) THEN Finished ELSE job[j]]
      /\ UNCHANGED <<outline, rows, owes>>
      /\ hist' = [hist EXCEPT !.torn = TRUE, !.stray = hist.stray \cup keys]
  BY DEF Crash
<1>2. ASSUME NEW j \in Jobs PROVE Builds(j) \subseteq Keys \cup {None}
  <2>1. job[j].todo \in Seq(Steps)
    BY DEF WorkType, JobRecords, Sound
  <2>2. \A s \in Steps : s.key \in Keys \cup {None}
    BY Kinds, RowStepsAre DEF Forget
  <2> QED BY <2>1, <2>2 DEF Builds
<1>3. keys \subseteq Keys \cup {None} /\ \A j \in Jobs : Home[j] = p => Builds(j) \subseteq keys
  BY <1>2
<1>4. hist \in Histories
  BY DEF WorkType
<1> HIDE DEF keys
<1>5. /\ hist' \in Histories /\ hist'.asked = hist.asked /\ hist'.clash = hist.clash /\ hist'.torn
      /\ hist'.stray = hist.stray \cup keys
  BY <1>1, <1>3, <1>4 DEF Histories
<1> QED BY <1>1, <1>3, <1>5 DEF Dies

\* What a step can do to the plans, and to what they are about.
LEMMA Moves ==
  ASSUME WorkType, [Next]_vars
  PROVE  \/ UNCHANGED <<outline, rows, job, owes, hist>>
         \/ \E j \in Jobs : \E r : Plans(j, r)
         \/ \E j \in Jobs : \E h : Executes(j, h)
         \/ \E j \in Jobs : \E h : Stumbles(j, h)
         \/ \E j \in Jobs : \E gone : Clears(j, gone)
         \/ \E p \in Procs : Dies(p)
<1>1. CASE UNCHANGED vars
  BY <1>1 DEF vars
<1>2. ASSUME NEW p \in Readers, Ask(p) \/ Answer(p) \/ PageFails(p)
      PROVE  UNCHANGED <<outline, rows, job, owes, hist>>
  BY <1>2 DEF Ask, Answer, PageFails
<1>3. CASE Tick
  BY <1>3 DEF Tick
<1>4. ASSUME NEW p \in Procs, Crash(p) PROVE Dies(p)
  BY <1>4, CrashesDie
<1>5. ASSUME NEW j \in Jobs, DeleteServer(j) PROVE \E gone : Clears(j, gone)
  BY <1>5, ServersClear
<1>6. ASSUME NEW j \in Jobs,
             CreateKey(j) \/ RotateKey(j) \/ AddServers(j) \/ RemoveServerFrom(j) \/ DeleteKey(j) \/ MirrorNext(j)
      PROVE  \E r : Plans(j, r)
  BY <1>6, CreatePlans, RotatePlans, AddPlans, UnlinkPlans, RemovePlans, MirrorPlans
<1>7. ASSUME NEW j \in Jobs, Calls(j) \/ Writes(j) \/ Forgets(j) PROVE \E h : Executes(j, h)
  BY <1>7, StepsExecute
<1>8. ASSUME NEW j \in Jobs, Fails(j) \/ Refused(j) PROVE \E h : Stumbles(j, h)
  BY <1>8, FailuresStumble
<1> QED BY <1>1, <1>2, <1>3, <1>4, <1>5, <1>6, <1>7, <1>8 DEF Next, Request, Acts

-----------------------------------------------------------------------------
(* The plans after a step *)

LEMMA WorkTypeInit == Init => WorkType
<1> SUFFICES ASSUME Init PROVE WorkType
  OBVIOUS
<1>1. PICK m \in FirstStates :
        /\ rows = [k \in Keys |->
             IF k = FirstKey THEN [known |-> TRUE, token |-> FirstToken, off |-> m.off,
                                   begun |-> m.begun, ends |-> m.ends]
             ELSE NoRow]
        /\ outline = [k \in Keys |->
             IF k # FirstKey THEN "none" ELSE IF m.off THEN "blocked" ELSE "open"]
  BY DEF Init
<1>2. m \in [off : BOOLEAN, begun : BOOLEAN, ends : BOOLEAN]
  BY ConstantsAssumption
<1>3. rows \in [Keys -> Rows]
  BY <1>1, <1>2, ConstantsAssumption DEF Rows, NoRow
<1>4. outline \in [Keys -> {"none", "open", "blocked", "deleted"}]
  BY <1>1
<1>5. owes \in [Keys -> Heirs]
  BY DEF Init, Heirs, Nothing
<1>6. hist \in Histories
  BY DEF Init, Histories, NoHistory
<1>7. Sound(NotBegun)
  BY NotBegunIs, NonePlanned, NothingIs DEF Sound, Plan
<1>8. NotBegun \in JobRecords
  BY NotBegunIs
<1>9. DOMAIN job = Jobs /\ job \in [Jobs -> JobRecords] /\ \A j \in Jobs : Sound(job[j])
  BY <1>7, <1>8 DEF Init
<1> QED BY <1>3, <1>4, <1>5, <1>6, <1>9 DEF WorkType

\* Nobody's plan changes but the plan of request j, which is now A.
Turns(j, A) == Ahead(j)' = A /\ \A i \in Jobs \ {j} : Ahead(i)' = Ahead(i)

LEMMA PlanTurns ==
  ASSUME WorkType, NEW j \in Jobs, NEW r, Plans(j, r)
  PROVE  WorkType' /\ Turns(j, Of(r.todo)) /\ job'[j] = r /\ \A i \in Jobs \ {j} : job'[i] = job[i]
<1>1. r \in JobRecords /\ job' = [job EXCEPT ![j] = r] /\ Sound(r)
  BY DEF Plans, Sound
<1>2. DOMAIN job' = Jobs /\ job' \in [Jobs -> JobRecords] /\ job'[j] = r
      /\ \A i \in Jobs \ {j} : job'[i] = job[i]
  BY <1>1 DEF WorkType
<1>3. \A i \in Jobs : Sound(job'[i])
  BY <1>1, <1>2 DEF WorkType
<1>4. Turns(j, Of(r.todo))
  BY <1>2 DEF Turns, Ahead
<1> QED BY <1>2, <1>3, <1>4 DEF WorkType, Plans

LEMMA ProceedTurns ==
  ASSUME NEW j \in Jobs, NEW B, Proceeds(j, B)
  PROVE  Turns(j, B)
BY DEF Proceeds, Turns, Ahead

LEMMA ExecuteTurns ==
  ASSUME WorkType, NEW j \in Jobs, NEW h, Executes(j, h)
  PROVE  WorkType' /\ Turns(j, Ahead(j) \ {h})
<1>1. h \in Steps /\ Proceeds(j, Ahead(j) \ {h}) /\ hist' = hist
  BY DEF Executes
<1>2. outline' \in [Keys -> {"none", "open", "blocked", "deleted"}]
  BY DEF Executes, WorkType
<1>3. job[j].heir \in Heirs
  BY DEF WorkType, JobRecords
<1>4. owes' \in [Keys -> Heirs]
  BY <1>3 DEF Executes, WorkType
<1>5. rows' \in [Keys -> Rows]
  <2>1. CASE rows' = rows
    BY <2>1 DEF WorkType
  <2>2. CASE Rank(h) \in {3, 4, 6, 7, 10, 11} /\ rows' = [rows EXCEPT ![h.key] = Written(h)]
    <3>1. h.key \in Keys
      BY <1>1, <2>2, Kinds
    <3>2. rows \in [Keys -> Rows] /\ rows[h.key] \in Rows
      BY <3>1 DEF WorkType
    <3>3. Written(h) \in Rows
      BY <1>1, <2>2, <3>2, RowChanges
    <3> QED BY <2>2, <3>2, <3>3
  <2> QED BY <2>1, <2>2 DEF Executes
<1>6. hist' \in Histories
  BY <1>1 DEF WorkType
<1> QED BY <1>1, <1>2, <1>4, <1>5, <1>6, ProceedTurns DEF WorkType, Proceeds

LEMMA StumbleTurns ==
  ASSUME WorkType, NEW j \in Jobs, NEW h, Stumbles(j, h)
  PROVE  /\ WorkType'
         /\ \/ /\ Rank(h) = 8 /\ h.key \in hist'.stray
               /\ Turns(j, Ahead(j) \ {h})
            \/ /\ Rank(h) \in 3..7
               /\ \/ Turns(j, {Deletes(h.key, "skip")})
                  \/ Turns(j, {Deletes(h.key, "skip"), Erases(h.key)})
            \/ /\ Rank(h) \in {1, 2, 9} /\ (h.key \in hist'.stray \/ (Rank(h) = 2 /\ ~Exists(h.key)))
               /\ Turns(j, {})
            \/ Rank(h) \in {10, 11} /\ hist'.torn /\ Turns(j, {})
<1>1. \E B : Proceeds(j, B)
  BY DEF Stumbles
<1>2. WorkType'
  BY <1>1 DEF Stumbles, WorkType, Proceeds
<1> QED BY <1>2, ProceedTurns DEF Stumbles

LEMMA ClearTurns ==
  ASSUME WorkType, NEW j \in Jobs, NEW gone, Clears(j, gone)
  PROVE  /\ WorkType' /\ \A i \in Jobs : Ahead(i)' = Ahead(i)
         /\ ~Busy(j)' /\ \A i \in Jobs \ {j} : job'[i] = job[i]
<1>1. Finished \in JobRecords /\ Sound(Finished) /\ Of(Finished.todo) = {} /\ Finished.stage = "over"
  BY NotBegunIs, NonePlanned, NothingIs DEF Sound, Plan
<1>2. /\ DOMAIN job' = Jobs /\ job' \in [Jobs -> JobRecords] /\ \A i \in Jobs : Sound(job'[i])
      /\ job'[j] = Finished /\ \A i \in Jobs \ {j} : job'[i] = job[i]
  BY <1>1 DEF Clears, WorkType
<1>3. \A i \in Jobs : Ahead(i)' = Ahead(i)
  BY <1>1, <1>2 DEF Ahead, Clears
<1>4. rows' \in [Keys -> Rows]
  BY ConstantsAssumption DEF Clears, WorkType, Rows, NoRow
<1> QED BY <1>1, <1>2, <1>3, <1>4 DEF WorkType, Clears, Busy

LEMMA DeathTurns ==
  ASSUME WorkType, NEW p \in Procs, Dies(p)
  PROVE  /\ WorkType'
         /\ \A i \in Jobs : \/ job'[i] = job[i] /\ Ahead(i)' = Ahead(i) /\ (Home[i] # p \/ ~Busy(i))
                            \/ Home[i] = p /\ ~Busy(i)' /\ Ahead(i)' = {}
         /\ \A i \in Jobs : Home[i] = p => \A s \in Ahead(i) : s.key \in hist'.stray
<1>1. Finished \in JobRecords /\ Sound(Finished) /\ Of(Finished.todo) = {} /\ Finished.stage = "over"
  BY NotBegunIs, NonePlanned, NothingIs DEF Sound, Plan
<1>2. /\ DOMAIN job' = Jobs /\ job' \in [Jobs -> JobRecords] /\ \A i \in Jobs : Sound(job'[i])
      /\ \A i \in Jobs : \/ job'[i] = job[i] /\ (Home[i] # p \/ ~Busy(i))
                         \/ Home[i] = p /\ job'[i] = Finished
  BY <1>1 DEF Dies, WorkType
<1>3. \A i \in Jobs : \/ job'[i] = job[i] /\ Ahead(i)' = Ahead(i) /\ (Home[i] # p \/ ~Busy(i))
                      \/ Home[i] = p /\ ~Busy(i)' /\ Ahead(i)' = {}
  BY <1>1, <1>2 DEF Ahead, Busy
<1>4. \A i \in Jobs : Home[i] = p => \A s \in Ahead(i) : s.key \in hist'.stray
  BY DEF Dies, Builds, Ahead, Of
<1> QED BY <1>2, <1>3, <1>4 DEF WorkType, Dies

LEMMA WorkTypeStep == WorkType /\ [Next]_vars => WorkType'
<1> SUFFICES ASSUME WorkType, [Next]_vars PROVE WorkType'
  OBVIOUS
<1>1. CASE UNCHANGED <<outline, rows, job, owes, hist>>
  BY <1>1 DEF WorkType
<1> QED BY <1>1, Moves, PlanTurns, ExecuteTurns, StumbleTurns, ClearTurns, DeathTurns

-----------------------------------------------------------------------------
(* Nothing is left on Outline that nobody knows of *)

\* Two requests never build the same key, and a key that is still to be made is nobody
\* else's business.
OneBuilder ==
  \A i, j \in Jobs : \A r \in Ahead(i), s \in Ahead(j) : Makes(r) /\ Makes(s) /\ r.key = s.key => i = j
OpensUnused ==
  \A j \in Jobs, n \in Keys : Opens(n) \in Ahead(j) =>
    /\ outline[n] = "none"
    /\ \A i \in Jobs \ {j} : \A s \in Ahead(i) : Rank(s) # 12 => s.key # n

\* A row is written for a key that was made; it is erased for one that was deleted.
InsertsMade ==
  \A j \in Jobs, n \in Keys : Inserts(n) \in Ahead(j) => Opens(n) \in Ahead(j) \/ outline[n] # "none"
ErasesDeleted ==
  \A j \in Jobs, k \in Keys : Erases(k) \in Ahead(j) =>
    \/ Deletes(k, "stop") \in Ahead(j) \/ Deletes(k, "skip") \in Ahead(j)
    \/ outline[k] = "deleted" \/ k \in hist.stray
RowsMade ==
  \A k \in Keys : (rows[k].known => outline[k] # "none") /\ (~rows[k].known => rows[k].token = None)

\* Somebody is about to write the row of a key that has none, or to delete the key.
Covered ==
  \A k \in Keys : Exists(k) /\ ~rows[k].known /\ k \notin hist.stray =>
    \E j \in Jobs : \/ Inserts(k) \in Ahead(j)
                    \/ Deletes(k, "skip") \in Ahead(j) /\ \A s \in Ahead(j) : ~Makes(s)

StrayInv == OneBuilder /\ OpensUnused /\ InsertsMade /\ ErasesDeleted /\ RowsMade /\ Covered

\* The steps of a request, the first of which is h.
LEMMA Passed ==
  ASSUME WorkType, NEW j \in Jobs
  PROVE  /\ Ahead(j) \subseteq Steps /\ Shaped(Ahead(j), job[j].undo)
         /\ \A s \in Ahead(j) : Rank(s) \in 1..12
         /\ \A h : First(j, h) => /\ h \in Ahead(j)
                                  /\ \A s \in Ahead(j) : Rank(h) <= Rank(s) /\ (Rank(s) = Rank(h) => s = h)
         /\ ~Busy(j) => Ahead(j) = {}
<1>1. Sound(job[j]) /\ job[j].todo \in Seq(Steps)
  BY DEF WorkType, Sound, JobRecords
<1>2. Ahead(j) \subseteq Steps
  BY <1>1 DEF Ahead, Of
<1>3. \A s \in Ahead(j) : Rank(s) \in 1..12
  BY <1>2, Kinds
<1>4. ~Busy(j) => Ahead(j) = {}
  BY <1>1, NonePlanned DEF Busy, Ahead, Plan, Sound, JobRecords
<1> QED BY <1>1, <1>2, <1>3, <1>4 DEF Sound, Ahead, First

\* The key a request makes next is in no other request's plan.
LEMMA SpareIs ==
  ASSUME WorkType, NEW n \in Keys, n \in Spare(At[n])
  PROVE  outline[n] = "none" /\ \A i \in Jobs : \A s \in Ahead(i) : s.key # n
BY DEF Spare, Builds, Ahead, Of

LEMMA StrayInit == Init => StrayInv
<1> SUFFICES ASSUME Init PROVE StrayInv
  OBVIOUS
<1>1. \A j \in Jobs : Ahead(j) = {}
  BY NotBegunIs, NonePlanned DEF Init, Ahead, Plan
<1>2. RowsMade /\ Covered
  BY ConstantsAssumption DEF Init, RowsMade, Covered, Exists, NoRow
<1> QED BY <1>1, <1>2 DEF StrayInv, OneBuilder, OpensUnused, InsertsMade, ErasesDeleted

LEMMA StrayPlans ==
  ASSUME WorkType, StrayInv, NEW j \in Jobs, NEW r, Plans(j, r)
  PROVE  StrayInv'
<1> DEFINE A == Of(r.todo)
<1>1. /\ Ahead(j) = {} /\ Ahead(j)' = A /\ \A i \in Jobs \ {j} : Ahead(i)' = Ahead(i)
      /\ Builder(A, r.heir) /\ UNCHANGED <<outline, rows, owes>> /\ hist'.stray = hist.stray
  BY PlanTurns DEF Plans, Turns
<1>2. A \subseteq Steps /\ \A s \in A : Rank(s) \in 1..12
  <2>1. r.todo \in Seq(Steps)
    BY DEF Plans, Sound, JobRecords
  <2>2. A \subseteq Steps
    BY <2>1 DEF Of
  <2> QED BY <2>2, Kinds
<1> HIDE DEF A
<1>3. ASSUME NEW s \in A, Makes(s)
      PROVE  /\ Opens(s.key) \in A /\ s.key \in Keys /\ outline[s.key] = "none"
             /\ \A i \in Jobs : \A u \in Ahead(i) : u.key # s.key
  <2>1. Opens(s.key) \in A /\ s.key \in Keys
    BY <1>1, <1>2, <1>3, Kinds DEF Builder, Makes
  <2> QED BY <1>1, <2>1, SpareIs DEF Builder
<1>4. \A n : Makes(Opens(n)) /\ Makes(Inserts(n)) /\ Opens(n).key = n /\ Inserts(n).key = n
             /\ ~Makes(Erases(n))
  BY Ranks, Told DEF Makes
<1>5. OneBuilder'
  BY <1>1, <1>3 DEF StrayInv, OneBuilder
<1>6. OpensUnused'
  <2>1. ASSUME NEW i \in Jobs, NEW n \in Keys, Opens(n) \in Ahead(i)',
               NEW i2 \in Jobs \ {i}, NEW s \in Ahead(i2)', Rank(s) # 12
        PROVE  outline[n] = "none" /\ s.key # n
    <3>1. CASE i = j
      BY <1>1, <1>3, <1>4, <2>1, <3>1
    <3>2. CASE i # j /\ i2 # j
      BY <1>1, <2>1, <3>2 DEF StrayInv, OpensUnused
    <3>3. CASE i # j /\ i2 = j
      <4>1. Opens(n) \in Ahead(i) /\ s \in A /\ outline[n] = "none"
        BY <1>1, <2>1, <3>3 DEF StrayInv, OpensUnused
      <4>2. CASE Makes(s)
        BY <1>3, <1>4, <4>1, <4>2
      <4>3. CASE ~Makes(s)
        <5>1. Rank(s) \in 8..11
          BY <1>2, <2>1, <4>1, <4>3 DEF Makes
        <5>2. rows[s.key].known
          BY <1>1, <4>1, <5>1 DEF Builder
        <5> QED BY <4>1, <5>2 DEF StrayInv, RowsMade
      <4> QED BY <4>2, <4>3
    <3> QED BY <3>1, <3>2, <3>3
  <2>2. ASSUME NEW i \in Jobs, NEW n \in Keys, Opens(n) \in Ahead(i)'
        PROVE  outline[n] = "none"
    <3>1. CASE i = j
      BY <1>1, <1>3, <1>4, <2>2, <3>1
    <3>2. CASE i # j
      BY <1>1, <2>2, <3>2 DEF StrayInv, OpensUnused
    <3> QED BY <3>1, <3>2
  <2> QED BY <1>1, <2>1, <2>2 DEF OpensUnused
<1>7. InsertsMade'
  BY <1>1, <1>3, <1>4 DEF StrayInv, InsertsMade
<1>8. ErasesDeleted'
  BY <1>1 DEF StrayInv, ErasesDeleted, Builder
<1>9. RowsMade'
  BY <1>1 DEF StrayInv, RowsMade
<1>10. Covered'
  <2>1. ASSUME NEW k \in Keys, Exists(k), ~rows[k].known, k \notin hist.stray
        PROVE  \E i \in Jobs \ {j} : \/ Inserts(k) \in Ahead(i)
                                     \/ Deletes(k, "skip") \in Ahead(i) /\ \A s \in Ahead(i) : ~Makes(s)
    BY <1>1, <2>1 DEF StrayInv, Covered
  <2>2. \A k \in Keys : Exists(k)' = Exists(k)
    BY <1>1 DEF Exists
  <2> QED BY <1>1, <2>1, <2>2 DEF Covered
<1> QED BY <1>5, <1>6, <1>7, <1>8, <1>9, <1>10 DEF StrayInv

LEMMA StrayExecutes ==
  ASSUME WorkType, StrayInv, NEW j \in Jobs, NEW h, Executes(j, h)
  PROVE  StrayInv'
<1> DEFINE n == h.key
           A == Ahead(j)
<1>1. /\ A' = A \ {h} /\ \A i \in Jobs \ {j} : Ahead(i)' = Ahead(i)
      /\ h \in Steps /\ First(j, h) /\ hist' = hist
  BY ExecuteTurns DEF Executes, Turns
<1>2. /\ A \subseteq Steps /\ Shaped(A, job[j].undo) /\ h \in A
      /\ \A s \in A : Rank(s) \in 1..12 /\ Rank(h) <= Rank(s) /\ (Rank(s) = Rank(h) => s = h)
  BY <1>1, Passed
<1>3. Rank(h) # 12 => n \in Keys
  BY <1>1, Kinds
<1>4. /\ outline \in [Keys -> {"none", "open", "blocked", "deleted"}] /\ rows \in [Keys -> Rows]
      /\ \A k \in Keys : rows[k].known \in BOOLEAN
  BY DEF WorkType, Rows
<1>5. \A i \in Jobs : Ahead(i)' \subseteq Ahead(i)
  BY <1>1
<1>6. OneBuilder'
  BY <1>5 DEF StrayInv, OneBuilder
\* what a step does to Outline, and to a row
<1>7. \/ UNCHANGED outline
      \/ /\ Rank(h) = 1 /\ h = Opens(n) /\ outline[n] = "none"
         /\ outline' = [outline EXCEPT ![n] = "open"] /\ rows' = rows
      \/ /\ Rank(h) \in {2, 5} /\ outline[n] # "none" /\ Exists(n)
         /\ outline' = [outline EXCEPT ![n] = "blocked"] /\ rows' = rows
      \/ /\ Rank(h) \in {8, 9} /\ outline' = [outline EXCEPT ![n] = "deleted"] /\ rows' = rows
  <2>1. Rank(h) = 1 => h = Opens(n) /\ outline[n] = "none"
    BY <1>1, <1>2, <1>3, Kinds DEF StrayInv, OpensUnused
  <2>2. Exists(n) => outline[n] # "none"
    BY DEF Exists
  <2> QED BY <2>1, <2>2 DEF Executes
<1>8. \/ UNCHANGED rows
      \/ /\ Rank(h) \in {3, 4, 6, 7, 10, 11} /\ rows' = [rows EXCEPT ![n] = Written(h)]
         /\ outline' = outline
  BY DEF Executes
<1>9. ASSUME NEW k \in Keys, rows'[k].known # rows[k].known
      PROVE  /\ k = n /\ outline' = outline
             /\ \/ Rank(h) = 3 /\ h = Inserts(k) /\ rows'[k].known
                \/ Rank(h) = 11 /\ h = Erases(k) /\ ~rows'[k].known
  <2>1. /\ Rank(h) \in {3, 4, 6, 7, 10, 11} /\ rows' = [rows EXCEPT ![n] = Written(h)]
        /\ outline' = outline /\ k = n /\ rows'[k] = Written(h) /\ rows[n] \in Rows
    BY <1>3, <1>4, <1>8, <1>9
  <2>2. /\ Rank(h) = 3 => Written(h) = Fresh /\ h = Inserts(n)
        /\ Rank(h) # 3 /\ ~rows[n].known => Written(h) = rows[n]
        /\ Rank(h) \in {4, 6, 7, 10} /\ rows[n].known => Written(h).known
        /\ Rank(h) = 11 /\ rows[n].known => Written(h) = NoRow
        /\ Rank(h) = 11 => h = Erases(n)
    BY <1>1, <2>1, RowChanges, Kinds
  <2>3. Fresh.known /\ ~NoRow.known
    BY DEF Fresh, NoRow
  <2> HIDE DEF n
  <2> QED BY <1>4, <1>9, <2>1, <2>2, <2>3
<1>10. OpensUnused'
  <2>1. ASSUME NEW i \in Jobs, NEW m \in Keys, Opens(m) \in Ahead(i)' PROVE outline'[m] = "none"
    <3>1. Opens(m) \in Ahead(i) /\ outline[m] = "none" /\ (i = j => Rank(h) # 1)
      BY <1>1, <1>2, <1>5, <2>1, Ranks DEF StrayInv, OpensUnused
    <3>2. Rank(h) # 12 => n # m
      <4>1. CASE i # j
        BY <1>2, <3>1, <4>1 DEF StrayInv, OpensUnused
      <4>2. CASE i = j
        <5>1. Rank(h) <= 1
          BY <1>2, <3>1, <4>2, Ranks
        <5> QED BY <1>2, <3>1, <4>2, <5>1
      <4> QED BY <4>1, <4>2
    <3> QED BY <1>4, <1>7, <3>1, <3>2
  <2> QED BY <1>5, <2>1 DEF StrayInv, OpensUnused
<1>11. InsertsMade'
  <2> SUFFICES ASSUME NEW i \in Jobs, NEW m \in Keys, Inserts(m) \in Ahead(i)', Opens(m) \notin Ahead(i)'
               PROVE  outline'[m] # "none"
    BY DEF InsertsMade
  <2>1. Inserts(m) \in Ahead(i) /\ (Opens(m) \in Ahead(i) \/ outline[m] # "none")
    BY <1>5 DEF StrayInv, InsertsMade
  <2>2. Opens(m) \in Ahead(i) => i = j /\ h = Opens(m) /\ Rank(h) = 1 /\ n = m
    BY <1>1, Ranks, Told
  <2>3. Rank(h) = 1 => outline' = [outline EXCEPT ![n] = "open"]
    BY DEF Executes
  <2>4. CASE Opens(m) \in Ahead(i)
    BY <1>4, <2>2, <2>3, <2>4
  <2>5. CASE outline[m] # "none"
    BY <1>4, <1>7, <2>5
  <2> QED BY <2>1, <2>4, <2>5
<1>12. ErasesDeleted'
  <2> SUFFICES ASSUME NEW i \in Jobs, NEW k \in Keys, Erases(k) \in Ahead(i)',
                      Deletes(k, "stop") \notin Ahead(i)', Deletes(k, "skip") \notin Ahead(i)',
                      k \notin hist.stray
               PROVE  outline'[k] = "deleted"
    BY <1>1 DEF ErasesDeleted
  <2>1. Erases(k) \in Ahead(i)
    BY <1>5
  <2>2. CASE Deletes(k, "stop") \in Ahead(i) \/ Deletes(k, "skip") \in Ahead(i)
    <3>1. h \in {Deletes(k, "stop"), Deletes(k, "skip")}
      BY <1>1, <2>2
    <3>2. Rank(h) \in {8, 9} /\ n = k
      BY <3>1, Ranks, Told
    <3>3. outline' = [outline EXCEPT ![n] = "deleted"]
      BY <3>2 DEF Executes
    <3> QED BY <1>4, <3>2, <3>3
  <2>3. CASE outline[k] = "deleted"
    <3>1. Exists(n) /\ n = k => FALSE
      BY <2>3 DEF Exists
    <3> QED BY <1>4, <1>7, <2>3, <3>1
  <2> QED BY <2>1, <2>2, <2>3 DEF StrayInv, ErasesDeleted
<1>13. RowsMade'
  <2>1. ASSUME NEW k \in Keys, rows'[k].known PROVE outline'[k] # "none"
    <3>1. outline[k] # "none"
      <4>1. CASE rows[k].known
        BY <4>1 DEF StrayInv, RowsMade
      <4>2. CASE ~rows[k].known
        <5>1. h = Inserts(k) /\ Rank(h) = 3
          BY <1>9, <2>1, <4>2
        <5>2. Opens(k) \notin A
          BY <1>2, <5>1, Ranks
        <5> QED BY <1>2, <5>1, <5>2 DEF StrayInv, InsertsMade
      <4> QED BY <4>1, <4>2
    <3> QED BY <1>4, <1>7, <3>1
  <2>2. ASSUME NEW k \in Keys, ~rows'[k].known PROVE rows'[k].token = None
    <3>1. CASE rows' = rows
      BY <2>2, <3>1 DEF StrayInv, RowsMade
    <3>2. CASE Rank(h) \in {3, 4, 6, 7, 10, 11} /\ rows' = [rows EXCEPT ![n] = Written(h)] /\ k # n
      BY <1>4, <2>2, <3>2 DEF StrayInv, RowsMade
    <3>3. CASE Rank(h) \in {3, 4, 6, 7, 10, 11} /\ rows' = [rows EXCEPT ![n] = Written(h)] /\ k = n
      <4>1. rows'[k] = Written(h) /\ rows[n] \in Rows
        BY <1>4, <3>3
      <4>2. /\ Rank(h) = 3 => Written(h) = Fresh
            /\ Rank(h) # 3 /\ ~rows[n].known => Written(h) = rows[n]
            /\ Rank(h) \in {4, 6, 7, 10} /\ rows[n].known => Written(h).known
            /\ Rank(h) = 11 /\ rows[n].known => Written(h) = NoRow
        BY <1>1, <3>3, <4>1, RowChanges
      <4>3. Fresh.known /\ NoRow.token = None
        BY DEF Fresh, NoRow
      <4>4. ~rows[n].known => rows[n].token = None
        BY <3>3 DEF StrayInv, RowsMade
      <4> HIDE DEF n
      <4> QED BY <2>2, <3>3, <4>1, <4>2, <4>3, <4>4
    <3> QED BY <1>8, <3>1, <3>2, <3>3
  <2> QED BY <2>1, <2>2 DEF RowsMade
<1>14. Covered'
  <2> SUFFICES ASSUME NEW k \in Keys, Exists(k)', ~rows'[k].known, k \notin hist.stray
               PROVE  \E i \in Jobs : \/ Inserts(k) \in Ahead(i)'
                                      \/ Deletes(k, "skip") \in Ahead(i)' /\ \A s \in Ahead(i)' : ~Makes(s)
    BY <1>1 DEF Covered
  <2>1. CASE Rank(h) = 1 /\ k = n
    <3>1. h = Opens(k)
      BY <1>1, <2>1, Kinds
    <3>2. Inserts(k) \in A /\ Inserts(k) # h
      BY <1>2, <2>1, <3>1, Ranks DEF Shaped
    <3> QED BY <1>1, <3>2
  <2>2. CASE ~(Rank(h) = 1 /\ k = n)
    <3>1. Exists(k) /\ (Rank(h) \in {8, 9} => k # n)
      BY <1>4, <1>7, <2>2 DEF Exists, Executes
    <3>2. ~rows[k].known
      <4> SUFFICES ASSUME rows[k].known PROVE FALSE
        OBVIOUS
      <4>1. Rank(h) = 11 /\ h = Erases(k)
        BY <1>9
      <4>2. Deletes(k, "stop") \notin A /\ Deletes(k, "skip") \notin A
        BY <1>2, <4>1, Ranks
      <4>3. outline[k] = "deleted"
        BY <1>2, <4>1, <4>2 DEF StrayInv, ErasesDeleted
      <4> QED BY <3>1, <4>3 DEF Exists
    <3>3. PICK i \in Jobs : \/ Inserts(k) \in Ahead(i)
                            \/ Deletes(k, "skip") \in Ahead(i) /\ \A s \in Ahead(i) : ~Makes(s)
      BY <3>1, <3>2 DEF StrayInv, Covered
    <3>4. h # Inserts(k)
      <4> SUFFICES ASSUME h = Inserts(k) PROVE FALSE
        OBVIOUS
      <4>1. Rank(h) = 3 /\ n = k
        BY Ranks, Told
      <4>2. rows' = [rows EXCEPT ![n] = Written(h)] /\ rows[n] \in Rows
        BY <1>4, <4>1 DEF Executes
      <4>3. Written(h) = Fresh
        BY <1>1, <4>1, <4>2, RowChanges
      <4>4. rows'[k] = Fresh
        BY <1>4, <4>1, <4>2, <4>3
      <4> QED BY <4>4 DEF Fresh, NoRow
    <3>5. h # Deletes(k, "skip")
      BY <3>1, Ranks, Told
    <3> QED BY <1>1, <1>5, <3>3, <3>4, <3>5
  <2> QED BY <2>1, <2>2
<1> QED BY <1>6, <1>10, <1>11, <1>12, <1>13, <1>14 DEF StrayInv

LEMMA StrayStumbles ==
  ASSUME WorkType, StrayInv, NEW j \in Jobs, NEW h, Stumbles(j, h)
  PROVE  StrayInv'
<1> DEFINE n == h.key
           A == Ahead(j)
           A2 == Ahead(j)'
<1>1. /\ \A i \in Jobs \ {j} : Ahead(i)' = Ahead(i)
      /\ h \in Steps /\ First(j, h) /\ UNCHANGED <<outline, rows>> /\ hist.stray \subseteq hist'.stray
  BY StumbleTurns DEF Stumbles, Turns
<1>2. /\ A \subseteq Steps /\ Shaped(A, job[j].undo) /\ h \in A
      /\ \A s \in A : Rank(s) \in 1..12 /\ Rank(h) <= Rank(s) /\ (Rank(s) = Rank(h) => s = h)
  BY <1>1, Passed
<1>3. Rank(h) # 12 => n \in Keys
  BY <1>1, Kinds
<1>4. \/ Rank(h) = 8 /\ n \in hist'.stray /\ A2 = A \ {h}
      \/ /\ Rank(h) \in 3..7
         /\ A2 \in {{Deletes(n, "skip")}, {Deletes(n, "skip"), Erases(n)}}
      \/ Rank(h) \in {1, 2, 9} /\ (n \in hist'.stray \/ (Rank(h) = 2 /\ ~Exists(n))) /\ A2 = {}
      \/ Rank(h) \in {10, 11} /\ A2 = {}
  BY StumbleTurns DEF Turns
<1>5. \A s \in A2 : s \in A \/ (Rank(h) \in 3..7 /\ ~Makes(s) /\ s \in {Deletes(n, "skip"), Erases(n)})
  BY <1>4, Ranks DEF Makes
<1>6. \A k \in Keys : Exists(k)' = Exists(k)
  BY <1>1 DEF Exists
<1>7. OneBuilder'
  BY <1>1, <1>5 DEF StrayInv, OneBuilder
<1>8. OpensUnused'
  <2>1. ASSUME NEW i \in Jobs, NEW m \in Keys, Opens(m) \in Ahead(i)' PROVE Opens(m) \in Ahead(i)
    BY <1>1, <1>5, <2>1, Ranks
  <2>2. ASSUME NEW i \in Jobs, NEW m \in Keys, Opens(m) \in Ahead(i),
               NEW i2 \in Jobs \ {i}, NEW s \in Ahead(i2)', Rank(s) # 12
        PROVE  s.key # m
    <3>1. CASE s \in Ahead(i2)
      BY <2>2, <3>1 DEF StrayInv, OpensUnused
    <3>2. CASE s \notin Ahead(i2)
      <4>1. i2 = j /\ s.key = n /\ Rank(h) # 12
        BY <1>1, <1>5, <2>2, <3>2, Told
      <4> QED BY <1>2, <2>2, <4>1 DEF StrayInv, OpensUnused
    <3> QED BY <3>1, <3>2
  <2>3. \A i \in Jobs, m \in Keys : Opens(m) \in Ahead(i) => outline[m] = "none"
    BY DEF StrayInv, OpensUnused
  <2> QED BY <1>1, <2>1, <2>2, <2>3 DEF OpensUnused
<1>9. InsertsMade'
  <2> SUFFICES ASSUME NEW i \in Jobs, NEW m \in Keys, Inserts(m) \in Ahead(i)'
               PROVE  Opens(m) \in Ahead(i)' \/ outline[m] # "none"
    BY <1>1 DEF InsertsMade
  <2>1. Inserts(m) \in Ahead(i)
    BY <1>1, <1>5, Ranks DEF Makes
  <2>2. Opens(m) \in Ahead(i) => Opens(m) \in Ahead(i)'
    <3>1. CASE i # j
      BY <1>1, <3>1
    <3>2. CASE i = j
      <4>1. A2 = A \ {h} /\ Rank(h) = 8
        <5>1. Inserts(m) \in A2 /\ Inserts(m) \notin {Deletes(n, "skip"), Erases(n)}
          BY <3>2, Ranks
        <5> QED BY <1>4, <5>1
      <4> QED BY <1>1, <3>2, <4>1, Ranks
    <3> QED BY <3>1, <3>2
  <2> QED BY <2>1, <2>2 DEF StrayInv, InsertsMade
<1>10. ErasesDeleted'
  <2> SUFFICES ASSUME NEW i \in Jobs, NEW k \in Keys, Erases(k) \in Ahead(i)'
               PROVE  \/ Deletes(k, "stop") \in Ahead(i)' \/ Deletes(k, "skip") \in Ahead(i)'
                      \/ outline[k] = "deleted" \/ k \in hist'.stray
    BY <1>1 DEF ErasesDeleted
  <2>1. CASE i # j
    BY <1>1, <2>1 DEF StrayInv, ErasesDeleted
  <2>2. CASE i = j
    <3>1. CASE Rank(h) = 8 /\ n \in hist'.stray /\ A2 = A \ {h}
      <4>1. h = Deletes(n, "skip") /\ Erases(k) \in A
        BY <1>1, <2>2, <3>1, Kinds
      <4>2. Deletes(k, "skip") = h => k = n
        BY <4>1, Told
      <4>3. Deletes(k, "stop") # h
        BY <3>1, Ranks
      <4> QED BY <1>1, <2>2, <3>1, <4>1, <4>2, <4>3 DEF StrayInv, ErasesDeleted
    <3>2. CASE A2 \in {{Deletes(n, "skip")}, {Deletes(n, "skip"), Erases(n)}}
      <4>1. Erases(k).key = k /\ Deletes(n, "skip").key = n /\ Erases(n).key = n
        BY Told
      <4>2. k = n
        BY <2>2, <3>2, <4>1, Ranks
      <4> QED BY <2>2, <3>2, <4>2
    <3> QED BY <1>4, <2>2, <3>1, <3>2
  <2> QED BY <2>1, <2>2
<1>11. RowsMade'
  BY <1>1 DEF StrayInv, RowsMade
<1>12. Covered'
  <2> SUFFICES ASSUME NEW k \in Keys, Exists(k), ~rows[k].known, k \notin hist'.stray
               PROVE  \E i \in Jobs : \/ Inserts(k) \in Ahead(i)'
                                      \/ Deletes(k, "skip") \in Ahead(i)' /\ \A s \in Ahead(i)' : ~Makes(s)
    BY <1>1, <1>6 DEF Covered
  <2>1. PICK i \in Jobs : \/ Inserts(k) \in Ahead(i)
                          \/ Deletes(k, "skip") \in Ahead(i) /\ \A s \in Ahead(i) : ~Makes(s)
    BY <1>1 DEF StrayInv, Covered
  <2>2. CASE i # j
    BY <1>1, <2>1, <2>2
  <2>3. CASE i = j
    <3>1. CASE Rank(h) = 8 /\ n \in hist'.stray /\ A2 = A \ {h}
      <4>1. h # Deletes(k, "skip") /\ h # Inserts(k)
        BY <3>1, Ranks, Told
      <4> QED BY <2>1, <2>3, <3>1, <4>1
    <3>2. CASE Rank(h) \in 3..7 /\ A2 \in {{Deletes(n, "skip")}, {Deletes(n, "skip"), Erases(n)}}
      <4>1. Makes(h)
        BY <3>2 DEF Makes
      <4>2. Inserts(k) \in A /\ Makes(Inserts(k)) /\ Inserts(k).key = k
        BY <1>2, <2>1, <2>3, <4>1, Ranks, Told DEF Makes
      <4>3. k = n
        BY <1>2, <4>1, <4>2 DEF Shaped
      <4>4. \A s \in A2 : ~Makes(s)
        BY <3>2, Ranks DEF Makes
      <4> QED BY <2>3, <3>2, <4>3, <4>4
    <3>3. CASE Rank(h) \in {1, 2, 9} /\ (n \in hist'.stray \/ (Rank(h) = 2 /\ ~Exists(n)))
      <4>1. CASE Rank(h) \in {1, 2}
        <5>1. Makes(h)
          BY <4>1 DEF Makes
        <5>2. Inserts(k) \in A /\ Makes(Inserts(k)) /\ Inserts(k).key = k
          BY <1>2, <2>1, <2>3, <5>1, Ranks, Told DEF Makes
        <5>3. k = n
          BY <1>2, <5>1, <5>2 DEF Shaped
        <5> QED BY <3>3, <4>1, <5>3
      <4>2. CASE Rank(h) = 9
        BY <1>2, <2>1, <2>3, <4>2, Ranks
      <4> QED BY <3>3, <4>1, <4>2
    <3>4. CASE Rank(h) \in {10, 11}
      BY <1>2, <2>1, <2>3, <3>4, Ranks
    <3> QED BY <1>4, <3>1, <3>2, <3>3, <3>4
  <2> QED BY <2>2, <2>3
<1> QED BY <1>7, <1>8, <1>9, <1>10, <1>11, <1>12 DEF StrayInv

LEMMA StrayClears ==
  ASSUME WorkType, StrayInv, NEW j \in Jobs, NEW gone, Clears(j, gone)
  PROVE  StrayInv'
<1>1. /\ \A i \in Jobs : Ahead(i)' = Ahead(i)
      /\ outline' = outline /\ rows' = [k \in Keys |-> IF k \in gone THEN NoRow ELSE rows[k]]
      /\ hist.stray \subseteq hist'.stray /\ gone \subseteq hist'.stray
  BY ClearTurns DEF Clears
<1>2. \A k \in Keys : Exists(k)' = Exists(k)
  BY <1>1 DEF Exists
<1>3. \A k \in Keys : \/ rows'[k] = rows[k]
                      \/ k \in gone /\ ~rows'[k].known /\ rows'[k].token = None
  BY <1>1 DEF NoRow
<1>4. OneBuilder' /\ OpensUnused' /\ InsertsMade'
  BY <1>1 DEF StrayInv, OneBuilder, OpensUnused, InsertsMade
<1>5. ErasesDeleted'
  BY <1>1 DEF StrayInv, ErasesDeleted
<1>6. RowsMade'
  BY <1>1, <1>3 DEF StrayInv, RowsMade
<1>7. Covered'
  BY <1>1, <1>2, <1>3 DEF StrayInv, Covered
<1> QED BY <1>4, <1>5, <1>6, <1>7 DEF StrayInv

LEMMA StrayDies ==
  ASSUME WorkType, StrayInv, NEW p \in Procs, Dies(p)
  PROVE  StrayInv'
<1>1. /\ \A i \in Jobs : Ahead(i)' = Ahead(i) \/ (Home[i] = p /\ Ahead(i)' = {})
      /\ \A i \in Jobs : Home[i] = p => \A s \in Ahead(i) : s.key \in hist'.stray
      /\ UNCHANGED <<outline, rows>> /\ hist.stray \subseteq hist'.stray
  BY DeathTurns DEF Dies
<1>2. \A k \in Keys : Exists(k)' = Exists(k)
  BY <1>1 DEF Exists
<1>3. OneBuilder' /\ OpensUnused' /\ InsertsMade' /\ RowsMade'
  BY <1>1 DEF StrayInv, OneBuilder, OpensUnused, InsertsMade, RowsMade
<1>4. ErasesDeleted'
  BY <1>1 DEF StrayInv, ErasesDeleted
<1>5. Covered'
  <2> SUFFICES ASSUME NEW k \in Keys, Exists(k), ~rows[k].known, k \notin hist'.stray
               PROVE  \E i \in Jobs : \/ Inserts(k) \in Ahead(i)'
                                      \/ Deletes(k, "skip") \in Ahead(i)' /\ \A s \in Ahead(i)' : ~Makes(s)
    BY <1>1, <1>2 DEF Covered
  <2>1. PICK i \in Jobs : \/ Inserts(k) \in Ahead(i)
                          \/ Deletes(k, "skip") \in Ahead(i) /\ \A s \in Ahead(i) : ~Makes(s)
    BY <1>1 DEF StrayInv, Covered
  <2>2. Home[i] # p
    BY <1>1, <2>1, Told
  <2> QED BY <1>1, <2>1, <2>2
<1> QED BY <1>3, <1>4, <1>5 DEF StrayInv

LEMMA StrayStep == WorkType /\ StrayInv /\ [Next]_vars => StrayInv'
<1> SUFFICES ASSUME WorkType, StrayInv, [Next]_vars PROVE StrayInv'
  OBVIOUS
<1>1. CASE UNCHANGED <<outline, rows, job, owes, hist>>
  <2>1. \A i \in Jobs : Ahead(i)' = Ahead(i)
    BY <1>1 DEF Ahead
  <2>2. \A k \in Keys : Exists(k)' = Exists(k)
    BY <1>1 DEF Exists
  <2>3. OneBuilder' /\ OpensUnused' /\ InsertsMade' /\ ErasesDeleted' /\ RowsMade'
    BY <1>1, <2>1 DEF StrayInv, OneBuilder, OpensUnused, InsertsMade, ErasesDeleted, RowsMade
  <2>4. Covered'
    BY <1>1, <2>1, <2>2 DEF StrayInv, Covered
  <2> QED BY <2>3, <2>4 DEF StrayInv
<1> QED BY <1>1, Moves, StrayPlans, StrayExecutes, StrayStumbles, StrayClears, StrayDies

\* Whatever fails, dies or happens at the same time, a key on Outline that the panel does
\* not know is one that a failed call was for, or that a process died over: the cleanup of
\* create_key_for and rotate_key leaves nothing else.
THEOREM NothingIsStray == Spec => []NothingStray
<1>1. Init => WorkType /\ StrayInv
  BY WorkTypeInit, StrayInit
<1>2. WorkType /\ StrayInv /\ [Next]_vars => (WorkType /\ StrayInv)'
  BY WorkTypeStep, StrayStep
<1>3. WorkType /\ StrayInv => NothingStray
  <2> SUFFICES ASSUME WorkType, StrayInv, Quiet, NEW k \in Keys, Exists(k), ~rows[k].known, k \notin hist.stray
               PROVE  FALSE
    BY DEF NothingStray
  <2>1. \A j \in Jobs : Ahead(j) = {}
    BY Passed DEF Quiet
  <2> QED BY <2>1 DEF StrayInv, Covered
<1> QED BY <1>1, <1>2, <1>3, PTL DEF Spec

-----------------------------------------------------------------------------
(* Nothing is exposed before it has inherited *)

\* What the step h does to its key.
LEMMA ExecuteDoes ==
  ASSUME WorkType, NEW j \in Jobs, NEW h, Executes(j, h)
  PROVE  LET n == h.key IN
         /\ \A k \in Keys : k = n \/ (rows'[k] = rows[k] /\ outline'[k] = outline[k] /\ owes'[k] = owes[k])
         /\ Rank(h) = 12 => UNCHANGED <<outline, rows, owes>>
         /\ Rank(h) # 12 => n \in Keys
         /\ Rank(h) = 1 => h = Opens(n) /\ outline'[n] = "open" /\ owes'[n] = job[j].heir
         /\ Rank(h) # 1 => owes' = owes
         /\ Rank(h) \in {2, 5} => Exists(n) /\ outline'[n] = "blocked"
         /\ Rank(h) \in {8, 9} => outline'[n] = "deleted"
         /\ Rank(h) \in {1, 2, 5, 8, 9} => rows' = rows
         /\ Rank(h) \in {3, 4, 6, 7, 10, 11} => outline' = outline
         /\ Rank(h) = 3 => rows'[n].known /\ rows'[n].token = None
         /\ Rank(h) \in {4, 6, 7, 10, 11} /\ ~rows[n].known => rows' = rows
         /\ Rank(h) \in {4, 6, 7, 10} /\ rows[n].known => rows'[n].known
         /\ Rank(h) \in {4, 6} => rows'[n].token = rows[n].token
         /\ Rank(h) \in {4, 7, 10} => rows'[n].off = rows[n].off
         /\ Rank(h) \in {6, 7, 10} => rows'[n].ends = rows[n].ends
         /\ h = Starts(n) /\ rows[n].known => rows'[n].ends
         /\ Rank(h) = 6 /\ rows[n].known => rows'[n].off
         /\ \A t : h = Links(n, t) /\ rows[n].known => rows'[n].token = t
         /\ Rank(h) = 10 /\ rows[n].known => rows'[n].token = None
         /\ Rank(h) = 11 /\ rows[n].known => ~rows'[n].known /\ rows'[n].token = None
<1> DEFINE n == h.key
<1>1. h \in Steps /\ outline \in [Keys -> {"none", "open", "blocked", "deleted"}]
      /\ rows \in [Keys -> Rows] /\ owes \in [Keys -> Heirs]
  BY DEF Executes, WorkType
<1>2. /\ Rank(h) \in 1..12
      /\ Rank(h) # 12 => n \in Keys
      /\ Rank(h) = 1 => h = Opens(n)
  BY <1>1, Kinds
<1>3. /\ \A k \in Keys : k = n \/ (rows'[k] = rows[k] /\ outline'[k] = outline[k] /\ owes'[k] = owes[k])
      /\ Rank(h) = 12 => UNCHANGED <<outline, rows, owes>>
      /\ Rank(h) = 1 => outline'[n] = "open" /\ owes'[n] = job[j].heir
      /\ Rank(h) # 1 => owes' = owes
      /\ Rank(h) \in {2, 5} => Exists(n) /\ outline'[n] = "blocked"
      /\ Rank(h) \in {8, 9} => outline'[n] = "deleted"
      /\ Rank(h) \in {1, 2, 5, 8, 9} => rows' = rows
      /\ Rank(h) \in {3, 4, 6, 7, 10, 11} => outline' = outline /\ rows' = [rows EXCEPT ![n] = Written(h)]
  BY <1>1, <1>2 DEF Executes
<1>4. CASE Rank(h) \in {3, 4, 6, 7, 10, 11}
  <2>1. rows[n] \in Rows /\ rows' = [rows EXCEPT ![n] = Written(h)] /\ rows'[n] = Written(h)
    BY <1>1, <1>2, <1>3, <1>4
  <2>2. Fresh.known /\ Fresh.token = None /\ ~NoRow.known /\ NoRow.token = None
    BY DEF Fresh, NoRow
  <2>3. LET r == rows[n]
            w == Written(h) IN
         /\ w \in Rows
         /\ Rank(h) = 3 => w = Fresh
         /\ Rank(h) # 3 /\ ~r.known => w = r
         /\ Rank(h) \in {4, 6, 7, 10} /\ r.known => w.known
         /\ Rank(h) \in {4, 6} => w.token = r.token
         /\ Rank(h) \in {4, 7, 10} => w.off = r.off
         /\ Rank(h) \in {6, 7, 10} => w.ends = r.ends
         /\ h = Starts(h.key) /\ r.known => w.ends
         /\ Rank(h) = 6 /\ r.known => w.off
         /\ \A t : h = Links(h.key, t) /\ r.known => w.token = t
         /\ Rank(h) = 10 /\ r.known => w.token = None
         /\ Rank(h) = 11 /\ r.known => w = NoRow
    BY <1>1, <1>4, <2>1, RowChanges
  <2>4. Rank(h) # 3 /\ ~rows[n].known => rows' = rows
    <3>1. [rows EXCEPT ![n] = rows[n]] = rows
      BY <1>1
    <3> QED BY <2>1, <2>3, <3>1
  <2> HIDE DEF n
  <2> QED BY <1>2, <1>3, <1>4, <2>1, <2>2, <2>3, <2>4 DEF n
<1>5. CASE Rank(h) \notin {3, 4, 6, 7, 10, 11}
  <2>1. h # Starts(n) /\ \A t : h # Links(n, t)
    BY <1>5, Ranks
  <2> QED BY <1>2, <1>3, <1>5, <2>1
<1> QED BY <1>4, <1>5

\* A key that is still being made is behind no link.
Unlinked == \A j \in Jobs : \A s \in Ahead(j) : Makes(s) => rows[s.key].token = None

\* A key that is to be put behind a link has what it inherits, or is going to have it.
Inherits(j, n) ==
  LET A == Ahead(j)
      heir == job[j].heir IN
  /\ Opens(n) \in A \/ owes[n] = heir
  /\ heir.off /\ (Opens(n) \in A \/ outline[n] = "open") => Blocks(n, "stop") \in A \/ Blocks(n, "undo") \in A
  /\ heir.off => Suspends(n) \in A \/ (Inserts(n) \notin A /\ (rows[n].known => rows[n].off))
  /\ heir.begun /\ heir.ends =>
       /\ StartsEndless(n) \notin A
       /\ Starts(n) \in A \/ (Inserts(n) \notin A /\ (rows[n].known => rows[n].ends))

HeirInv ==
  /\ Unlinked
  /\ \A j \in Jobs, n \in Keys, t \in Tokens : Links(n, t) \in Ahead(j) => Inherits(j, n)
  /\ InheritsBeforeExposed

LEMMA HeirInit == Init => HeirInv
<1> SUFFICES ASSUME Init PROVE HeirInv
  OBVIOUS
<1>1. \A j \in Jobs : Ahead(j) = {}
  BY NotBegunIs, NonePlanned DEF Init, Ahead, Plan
<1>2. InheritsBeforeExposed
  BY DEF Init, InheritsBeforeExposed, Nothing
<1> QED BY <1>1, <1>2 DEF HeirInv, Unlinked

LEMMA HeirPlans ==
  ASSUME WorkType, StrayInv, HeirInv, NEW j \in Jobs, NEW r, Plans(j, r)
  PROVE  HeirInv'
<1> DEFINE A == Of(r.todo)
<1>1. /\ Ahead(j)' = A /\ job'[j].heir = r.heir
      /\ \A i \in Jobs \ {j} : Ahead(i)' = Ahead(i) /\ job'[i] = job[i]
      /\ Builder(A, r.heir) /\ UNCHANGED <<outline, rows, owes>>
  BY PlanTurns DEF Plans, Turns
<1>2. A \subseteq Steps
  <2>1. r.todo \in Seq(Steps)
    BY DEF Plans, Sound, JobRecords
  <2> QED BY <2>1 DEF Of
<1> HIDE DEF A
<1>3. ASSUME NEW s \in A, Makes(s)
      PROVE  Opens(s.key) \in A /\ rows[s.key].token = None
  <2>1. Opens(s.key) \in A /\ s.key \in Keys
    BY <1>1, <1>2, <1>3, Kinds DEF Builder, Makes
  <2>2. outline[s.key] = "none"
    BY <1>1, <2>1, SpareIs DEF Builder
  <2> QED BY <2>1, <2>2 DEF StrayInv, RowsMade
<1>4. Unlinked'
  BY <1>1, <1>3 DEF HeirInv, Unlinked
<1>5. ASSUME NEW i \in Jobs, NEW n \in Keys, NEW t \in Tokens, Links(n, t) \in Ahead(i)'
      PROVE  Inherits(i, n)'
  <2>1. CASE i = j
    <3>1. Links(n, t) \in A /\ Makes(Links(n, t)) /\ Links(n, t).key = n
      BY <1>1, <1>5, <2>1, Ranks, Told DEF Makes
    <3>2. Opens(n) \in A
      BY <1>3, <3>1
    <3>3. /\ r.heir.off => Suspends(n) \in A /\ (Blocks(n, "stop") \in A \/ Blocks(n, "undo") \in A)
          /\ r.heir.begun /\ r.heir.ends => Starts(n) \in A /\ StartsEndless(n) \notin A
      BY <1>1, <3>1 DEF Builder
    <3> QED BY <1>1, <2>1, <3>2, <3>3 DEF Inherits
  <2>2. CASE i # j
    BY <1>1, <1>5, <2>2 DEF HeirInv, Inherits
  <2> QED BY <2>1, <2>2
<1>6. InheritsBeforeExposed'
  BY <1>1 DEF HeirInv, InheritsBeforeExposed
<1> QED BY <1>4, <1>5, <1>6 DEF HeirInv

LEMMA HeirExecutes ==
  ASSUME WorkType, StrayInv, HeirInv, NEW j \in Jobs, NEW h, Executes(j, h)
  PROVE  HeirInv'
<1> DEFINE n == h.key
           A == Ahead(j)
<1>1. /\ A' = A \ {h} /\ \A i \in Jobs \ {j} : Ahead(i)' = Ahead(i) /\ job'[i] = job[i]
      /\ A' = {} \/ job'[j].heir = job[j].heir
      /\ h \in Steps /\ First(j, h) /\ hist' = hist
  BY ExecuteTurns DEF Executes, Turns, Proceeds, Ahead
<1>2. /\ A \subseteq Steps /\ Shaped(A, job[j].undo) /\ h \in A
      /\ \A s \in A : Rank(s) \in 1..12 /\ Rank(h) <= Rank(s) /\ (Rank(s) = Rank(h) => s = h)
  BY <1>1, Passed
<1>3. /\ Rank(h) = 4 => h \in {Starts(n), StartsEndless(n)}
      /\ Rank(h) = 7 => \E t \in Tokens : h = Links(n, t)
      /\ Rank(h) = 3 => h = Inserts(n)
      /\ Rank(h) = 6 => h = Suspends(n)
  BY <1>1, Kinds
<1>4. \A k \in Keys : rows[k].known \in BOOLEAN /\ (~rows[k].known => rows[k].token = None)
  BY DEF WorkType, Rows, StrayInv, RowsMade
<1>5. ASSUME NEW i \in Jobs, NEW s \in Ahead(i)', Makes(s) PROVE ~(Makes(h) /\ s.key = n) \/ i = j
  <2>1. s \in Ahead(i)
    BY <1>1, <1>5
  <2> QED BY <1>2, <1>5, <2>1 DEF StrayInv, OneBuilder
<1>6. Unlinked'
  <2> SUFFICES ASSUME NEW i \in Jobs, NEW s \in Ahead(i)', Makes(s) PROVE rows'[s.key].token = None
    BY DEF Unlinked
  <2>1. s \in Ahead(i) /\ s \in Steps
    BY <1>1, Passed
  <2>2. s.key \in Keys /\ rows[s.key].token = None
    BY <2>1, Kinds DEF HeirInv, Unlinked, Makes
  <2>3. CASE Rank(h) = 7 /\ s.key = n
    <3>1. i = j
      BY <1>5, <2>3 DEF Makes
    <3>2. s \in A /\ s # h /\ Rank(s) <= 7
      BY <1>1, <3>1 DEF Makes
    <3> QED BY <1>2, <2>3, <3>2
  <2>4. CASE Rank(h) # 7 \/ s.key # n
    BY <1>2, <1>4, <2>2, <2>4, ExecuteDoes
  <2> QED BY <2>3, <2>4
<1>7. InheritsBeforeExposed'
  <2> SUFFICES ASSUME NEW k \in Keys, rows'[k].token # None
               PROVE  /\ owes'[k].off => outline'[k] # "open" /\ rows'[k].off
                      /\ owes'[k].begun /\ owes'[k].ends => rows'[k].ends
    BY DEF InheritsBeforeExposed
  <2>1. rows[k].token # None => /\ owes[k].off => outline[k] # "open" /\ rows[k].off
                                /\ owes[k].begun /\ owes[k].ends => rows[k].ends
    BY DEF HeirInv, InheritsBeforeExposed
  <2>2. CASE k # n \/ Rank(h) = 12
    BY <2>1, <2>2, ExecuteDoes
  <2>3. CASE k = n /\ Rank(h) \in {1, 2, 3, 4, 5, 6}
    <3>1. rows[n].token = None
      BY <1>2, <2>3 DEF HeirInv, Unlinked, Makes
    <3>2. rows'[n].token = None
      BY <2>3, <3>1, ExecuteDoes
    <3> QED BY <2>3, <3>2
  <2>4. CASE k = n /\ Rank(h) \in {8, 9}
    <3>1. outline'[n] = "deleted" /\ rows' = rows /\ owes' = owes
      BY <2>4, ExecuteDoes
    <3> QED BY <2>1, <2>4, <3>1
  <2>5. CASE k = n /\ Rank(h) \in {10, 11}
    <3>1. rows'[n].token = None
      BY <1>4, <2>5, ExecuteDoes
    <3> QED BY <2>5, <3>1
  <2>6. CASE k = n /\ Rank(h) = 7
    <3>1. PICK t \in Tokens : h = Links(n, t)
      BY <1>3, <2>6
    <3>2. rows[n].known
      BY <1>4, <2>6, ExecuteDoes
    <3>3. /\ owes' = owes /\ outline' = outline /\ rows'[n].off = rows[n].off /\ rows'[n].ends = rows[n].ends
      BY <2>6, ExecuteDoes
    <3>4. Inherits(j, n)
      BY <1>2, <2>6, <3>1 DEF HeirInv
    <3>5. /\ Opens(n) \notin A /\ Blocks(n, "stop") \notin A /\ Blocks(n, "undo") \notin A
          /\ Suspends(n) \notin A /\ Starts(n) \notin A
      BY <1>2, <2>6, Ranks
    <3> HIDE DEF n
    <3> QED BY <2>6, <3>2, <3>3, <3>4, <3>5 DEF Inherits
  <2> QED BY <1>2, <2>2, <2>3, <2>4, <2>5, <2>6
<1>8. ASSUME NEW i \in Jobs, NEW m \in Keys, NEW t \in Tokens, Links(m, t) \in Ahead(i)'
      PROVE  Inherits(i, m)'
  <2>1. /\ Links(m, t) \in Ahead(i) /\ Inherits(i, m) /\ Makes(Links(m, t)) /\ Links(m, t).key = m
        /\ Rank(Links(m, t)) = 7 /\ job'[i].heir = job[i].heir
    BY <1>1, <1>8, Ranks, Told DEF HeirInv, Makes
  <2>2. CASE i = j /\ Rank(h) <= 7
    <3>1. n = m
      BY <1>2, <2>1, <2>2 DEF Shaped, Makes
    <3>2. Rank(h) # 7
      BY <1>1, <1>2, <1>8, <2>1, <2>2
    <3>3. CASE Rank(h) = 1
      <4>1. /\ h = Opens(n) /\ outline'[n] = "open" /\ owes'[n] = job[j].heir /\ rows' = rows
        BY <3>3, ExecuteDoes
      <4>2. \A s \in A : s # h => s \in A'
        BY <1>1
      <4>3. h \notin {Blocks(n, "stop"), Blocks(n, "undo"), Suspends(n), Starts(n)}
        BY <3>3, Ranks
      <4>4. A' \subseteq A
        BY <1>1
      <4> HIDE DEF n, A
      <4> QED BY <1>2, <2>1, <2>2, <3>1, <4>1, <4>2, <4>3, <4>4 DEF Inherits, A
    <3>4. CASE Rank(h) \in {2, 5}
      <4>1. outline'[n] = "blocked" /\ rows' = rows /\ owes' = owes
        BY <3>4, ExecuteDoes
      <4>2. Opens(n) \notin A /\ h \notin {Suspends(n), Starts(n)}
        BY <1>2, <3>4, Ranks
      <4>3. A' = A \ {h}
        BY <1>1
      <4> HIDE DEF n, A
      <4> QED BY <2>1, <2>2, <3>1, <4>1, <4>2, <4>3 DEF Inherits, A
    <3>5. CASE Rank(h) = 3
      <4>1. outline' = outline /\ owes' = owes /\ h = Inserts(n)
        BY <1>3, <3>5, ExecuteDoes
      <4>2. Opens(n) \notin A /\ Inserts(n) \in A
            /\ h \notin {Suspends(n), Starts(n), Blocks(n, "stop"), Blocks(n, "undo")}
        BY <1>2, <3>5, <4>1, Ranks
      <4>3. A' = A \ {h}
        BY <1>1
      <4> HIDE DEF n, A
      <4> QED BY <2>1, <2>2, <3>1, <4>1, <4>2, <4>3 DEF Inherits, A
    <3>6. CASE Rank(h) = 4
      <4>1. /\ outline' = outline /\ owes' = owes /\ h \in {Starts(n), StartsEndless(n)}
            /\ rows'[n].off = rows[n].off /\ (~rows[n].known => rows' = rows)
            /\ (h = Starts(n) /\ rows[n].known => rows'[n].ends)
        BY <1>3, <3>6, ExecuteDoes
      <4>2. Opens(n) \notin A /\ Inserts(n) \notin A
            /\ h \notin {Suspends(n), Blocks(n, "stop"), Blocks(n, "undo")}
        BY <1>2, <3>6, Ranks
      <4>3. A' = A \ {h} /\ h \in A
        BY <1>1, <1>2
      <4> HIDE DEF n, A
      <4> QED BY <2>1, <2>2, <3>1, <4>1, <4>2, <4>3 DEF Inherits, A
    <3>7. CASE Rank(h) = 6
      <4>1. /\ outline' = outline /\ owes' = owes /\ h = Suspends(n)
            /\ rows'[n].ends = rows[n].ends /\ (~rows[n].known => rows' = rows)
            /\ (rows[n].known => rows'[n].off)
        BY <1>3, <3>7, ExecuteDoes
      <4>2. Opens(n) \notin A /\ Inserts(n) \notin A
            /\ h \notin {Starts(n), Blocks(n, "stop"), Blocks(n, "undo")}
        BY <1>2, <3>7, Ranks
      <4>3. A' = A \ {h} /\ h \in A
        BY <1>1, <1>2
      <4> HIDE DEF n, A
      <4> QED BY <2>1, <2>2, <3>1, <4>1, <4>2, <4>3 DEF Inherits, A
    <3> QED BY <1>2, <2>2, <3>2, <3>3, <3>4, <3>5, <3>6, <3>7
  <2>3. CASE i = j /\ Rank(h) > 7
    BY <1>2, <2>1, <2>3
  <2>4. CASE i # j
    <3>1. Ahead(i)' = Ahead(i)
      BY <1>1, <2>4
    <3>2. m = n => Rank(h) \in 8..12
      BY <1>2, <2>1, <2>4 DEF StrayInv, OneBuilder, Makes
    <3>3. owes'[m] = owes[m] /\ (outline'[m] = "open" => outline[m] = "open")
      BY <1>2, <3>2, ExecuteDoes
    <3>4. rows'[m].known => rows[m].known /\ rows'[m].off = rows[m].off /\ rows'[m].ends = rows[m].ends
      BY <1>2, <1>4, <3>2, ExecuteDoes
    <3> QED BY <2>1, <3>1, <3>3, <3>4 DEF Inherits
  <2> QED BY <1>2, <2>2, <2>3, <2>4
<1> QED BY <1>6, <1>7, <1>8 DEF HeirInv

LEMMA HeirStumbles ==
  ASSUME WorkType, HeirInv, NEW j \in Jobs, NEW h, Stumbles(j, h)
  PROVE  HeirInv'
<1> DEFINE n == h.key
<1>1. /\ \A i \in Jobs \ {j} : Ahead(i)' = Ahead(i) /\ job'[i] = job[i]
      /\ First(j, h) /\ UNCHANGED <<outline, rows, owes>>
      /\ \/ Rank(h) = 8 /\ Ahead(j)' = Ahead(j) \ {h}
         \/ Ahead(j)' \in {{}, {Deletes(n, "skip")}, {Deletes(n, "skip"), Erases(n)}}
  BY StumbleTurns DEF Stumbles, Turns, Proceeds
<1>2. \A s \in Ahead(j)' : Rank(s) > 7
  <2>1. \A s \in Ahead(j) : Rank(s) \in 1..12 /\ Rank(h) <= Rank(s)
    BY <1>1, Passed
  <2> QED BY <1>1, <2>1, Ranks
<1>3. Unlinked'
  <2> SUFFICES ASSUME NEW i \in Jobs, NEW s \in Ahead(i)', Makes(s) PROVE rows[s.key].token = None
    BY <1>1 DEF Unlinked
  <2>1. i # j
    <3>1. Rank(s) <= 7
      BY DEF Makes
    <3>2. ASSUME i = j PROVE FALSE
      <4>1. s \in Ahead(j) \/ s \in {Deletes(n, "skip"), Erases(n)}
        BY <1>1, <3>2
      <4>2. Rank(s) \in Int
        BY <4>1, Passed, Ranks
      <4> QED BY <1>2, <3>1, <3>2, <4>2
    <3> QED BY <3>2
  <2> QED BY <1>1, <2>1 DEF HeirInv, Unlinked
<1>4. ASSUME NEW i \in Jobs, NEW m \in Keys, NEW t \in Tokens, Links(m, t) \in Ahead(i)'
      PROVE  Inherits(i, m)'
  <2>1. i # j
    BY <1>2, <1>4, Ranks
  <2> QED BY <1>1, <1>4, <2>1 DEF HeirInv, Inherits
<1>5. InheritsBeforeExposed'
  BY <1>1 DEF HeirInv, InheritsBeforeExposed
<1> QED BY <1>3, <1>4, <1>5 DEF HeirInv

LEMMA HeirClears ==
  ASSUME WorkType, HeirInv, NEW j \in Jobs, NEW gone, Clears(j, gone)
  PROVE  HeirInv'
<1>1. /\ \A i \in Jobs : Ahead(i)' = Ahead(i)
      /\ \A i \in Jobs \ {j} : job'[i] = job[i]
      /\ Ahead(j)' = {} /\ UNCHANGED <<outline, owes>>
      /\ rows' = [k \in Keys |-> IF k \in gone THEN NoRow ELSE rows[k]]
  BY ClearTurns DEF Clears
<1>2. \A k \in Keys : \/ rows'[k] = rows[k]
                      \/ ~rows'[k].known /\ rows'[k].token = None
  BY <1>1 DEF NoRow
<1>3. Unlinked'
  <2>1. ASSUME NEW i \in Jobs, NEW s \in Ahead(i), Makes(s) PROVE s.key \in Keys
    <3>1. s \in Steps
      BY <2>1, Passed
    <3> QED BY <2>1, <3>1, Kinds DEF Makes
  <2> QED BY <1>1, <1>2, <2>1 DEF HeirInv, Unlinked
<1>4. ASSUME NEW i \in Jobs, NEW m \in Keys, NEW t \in Tokens, Links(m, t) \in Ahead(i)'
      PROVE  Inherits(i, m)'
  <2>1. i # j
    BY <1>1, <1>4
  <2> QED BY <1>1, <1>2, <1>4, <2>1 DEF HeirInv, Inherits
<1>5. InheritsBeforeExposed'
  BY <1>1, <1>2 DEF HeirInv, InheritsBeforeExposed
<1> QED BY <1>3, <1>4, <1>5 DEF HeirInv

LEMMA HeirDies ==
  ASSUME WorkType, HeirInv, NEW p \in Procs, Dies(p)
  PROVE  HeirInv'
<1>1. /\ \A i \in Jobs : (job'[i] = job[i] /\ Ahead(i)' = Ahead(i)) \/ Ahead(i)' = {}
      /\ UNCHANGED <<outline, rows, owes>>
  BY DeathTurns DEF Dies
<1> QED BY <1>1 DEF HeirInv, Unlinked, Inherits, InheritsBeforeExposed

LEMMA HeirStep == WorkType /\ StrayInv /\ HeirInv /\ [Next]_vars => HeirInv'
<1> SUFFICES ASSUME WorkType, StrayInv, HeirInv, [Next]_vars PROVE HeirInv'
  OBVIOUS
<1>1. CASE UNCHANGED <<outline, rows, job, owes, hist>>
  <2>1. \A i \in Jobs : Ahead(i)' = Ahead(i)
    BY <1>1 DEF Ahead
  <2> QED BY <1>1, <2>1 DEF HeirInv, Unlinked, Inherits, InheritsBeforeExposed
<1> QED BY <1>1, Moves, HeirPlans, HeirExecutes, HeirStumbles, HeirClears, HeirDies

\* A key that replaces or doubles a suspended one is cut off, and one that replaces or
\* doubles a key with a term ends, before the link leads to it (mirror_onto, rotate_key).
THEOREM NothingIsExposedTooSoon == Spec => []InheritsBeforeExposed
<1>1. Init => WorkType /\ StrayInv /\ HeirInv
  BY WorkTypeInit, StrayInit, HeirInit
<1>2. WorkType /\ StrayInv /\ HeirInv /\ [Next]_vars => (WorkType /\ StrayInv /\ HeirInv)'
  BY WorkTypeStep, StrayStep, HeirStep
<1>3. HeirInv => InheritsBeforeExposed
  BY DEF HeirInv
<1> QED BY <1>1, <1>2, <1>3, PTL DEF Spec

-----------------------------------------------------------------------------
(* Nobody is left without a config, or with two on one server *)

Alone == \A i, j \in Jobs : Busy(i) /\ Busy(j) => i = j

\* A key is on Outline, and has its row, before it is put behind a link.
LinksReady ==
  \A j \in Jobs, n \in Keys, t \in Tokens : Links(n, t) \in Ahead(j) =>
    /\ Opens(n) \in Ahead(j) \/ Exists(n)
    /\ Inserts(n) \in Ahead(j) \/ rows[n].known
UnlinksAsked ==
  \A j \in Jobs, k \in Keys : Unlinks(k) \in Ahead(j) => rows[k].token \in hist.asked \cup {None}

\* Of every customer's keys one works that is not going to end before another is there.
Lasts(k, t) ==
  /\ k \in Members(t) /\ Working(k)
  /\ \A j \in Jobs : Ends(Ahead(j), k) => \E n \in Keys : Links(n, t) \in Ahead(j)
Served == \A t \in Tokens \ hist.asked : Members(t) # {} => \E k \in Keys : Lasts(k, t)

ServedInv == ~hist.clash => Alone /\ LinksReady /\ UnlinksAsked /\ Served

\* Of two keys of a customer on one server, one is about to be erased.
Doubles ==
  \A t \in Tokens : \A k, l \in Members(t) : k # l /\ At[k] = At[l] =>
    \E j \in Jobs : /\ Erases(k) \in Ahead(j) \/ Erases(l) \in Ahead(j)
                    /\ \A s \in Ahead(j) : ~Makes(s) /\ Rank(s) # 9
LinksFirst ==
  \A j \in Jobs, n \in Keys, t \in Tokens : Links(n, t) \in Ahead(j) =>
    \A l \in Members(t) : At[l] = At[n] => Erases(l) \in Ahead(j)

SingleInv == ~hist.clash /\ ~hist.torn => Doubles /\ LinksFirst

\* When no two requests overlap, whoever else is there has nothing to do.
LEMMA Apart ==
  ASSUME WorkType, ServedInv, ~hist.clash, NEW j \in Jobs, Busy(j)
  PROVE  \A i \in Jobs \ {j} : ~Busy(i) /\ Ahead(i) = {}
BY Passed DEF ServedInv, Alone

LEMMA ServedInit == Init => ServedInv /\ SingleInv
<1> SUFFICES ASSUME Init PROVE ServedInv /\ SingleInv
  OBVIOUS
<1>1. \A j \in Jobs : Ahead(j) = {} /\ ~Busy(j)
  BY NotBegunIs, NonePlanned DEF Init, Ahead, Plan, Busy, NotBegun
<1>2. PICK m \in FirstStates :
        /\ rows = [k \in Keys |->
             IF k = FirstKey THEN [known |-> TRUE, token |-> FirstToken, off |-> m.off,
                                   begun |-> m.begun, ends |-> m.ends]
             ELSE NoRow]
        /\ outline = [k \in Keys |->
             IF k # FirstKey THEN "none" ELSE IF m.off THEN "blocked" ELSE "open"]
  BY DEF Init
<1>3. /\ FirstKey \in Keys /\ FirstToken \in Tokens /\ None \notin Tokens
      /\ rows[FirstKey].known /\ rows[FirstKey].token = FirstToken
      /\ \A k \in Keys : k # FirstKey => ~rows[k].known
  BY <1>2, ConstantsAssumption DEF NoRow
<1>4. \A t \in Tokens : Members(t) = IF t = FirstToken THEN {FirstKey} ELSE {}
  BY <1>3 DEF Members
<1>5. Working(FirstKey)
  BY <1>2, <1>3 DEF Working, Exists
<1>6. Served
  BY <1>1, <1>3, <1>4, <1>5 DEF Served, Lasts, Ends
<1>7. Alone /\ LinksReady /\ UnlinksAsked /\ LinksFirst
  BY <1>1 DEF Alone, LinksReady, UnlinksAsked, LinksFirst
<1>8. Doubles
  BY <1>4 DEF Doubles
<1> QED BY <1>6, <1>7, <1>8 DEF ServedInv, SingleInv

LEMMA ServedPlans ==
  ASSUME WorkType, ServedInv, SingleInv, NEW j \in Jobs, NEW r, Plans(j, r)
  PROVE  ServedInv' /\ SingleInv'
<1> SUFFICES ASSUME ~hist'.clash PROVE ServedInv' /\ SingleInv'
  BY DEF ServedInv, SingleInv
<1> DEFINE A == Of(r.todo)
<1>1. /\ Ahead(j) = {} /\ Ahead(j)' = A
      /\ \A i \in Jobs \ {j} : Ahead(i)' = Ahead(i) /\ job'[i] = job[i]
      /\ Builder(A, r.heir) /\ Keeper(A, hist'.asked) /\ UNCHANGED <<outline, rows, owes>>
      /\ hist.asked \subseteq hist'.asked /\ hist'.torn = hist.torn
      /\ Shaped(A, r.undo)
  BY PlanTurns DEF Plans, Turns, Sound
<1>2. ~hist.clash /\ \A i \in Jobs \ {j} : ~Busy(i)
  <2>1. \/ hist'.clash = (hist.clash \/ \E i \in Jobs : Busy(i))
        \/ hist'.clash = hist.clash /\ Busy(j)
    BY DEF Plans
  <2> QED BY <2>1 DEF ServedInv, Alone
<1> HIDE DEF A
<1>3. \A i \in Jobs : Ahead(i) = {}
  BY <1>1, <1>2, Passed
<1>4. /\ \A k \in Keys : Exists(k)' = Exists(k) /\ Working(k)' = Working(k)
      /\ \A t \in Tokens : Members(t)' = Members(t)
  BY <1>1 DEF Exists, Working, Members
<1>5. Alone'
  BY <1>1, <1>2 DEF Alone, Busy
<1>6. LinksReady'
  <2> SUFFICES ASSUME NEW i \in Jobs, NEW n \in Keys, NEW t \in Tokens, Links(n, t) \in Ahead(i)'
               PROVE  Opens(n) \in Ahead(i)' /\ Inserts(n) \in Ahead(i)'
    BY DEF LinksReady
  <2>1. i = j /\ Links(n, t) \in A /\ Makes(Links(n, t)) /\ Links(n, t).key = n
    BY <1>1, <1>3, Ranks, Told DEF Makes
  <2>2. Opens(n) \in A
    BY <1>1, <2>1 DEF Builder
  <2> QED BY <1>1, <2>1, <2>2 DEF Shaped
<1>7. UnlinksAsked'
  BY <1>1, <1>3 DEF UnlinksAsked, Keeper
<1>8. Served'
  <2> SUFFICES ASSUME NEW t \in Tokens \ hist'.asked, Members(t) # {} PROVE \E k \in Keys : Lasts(k, t)'
    BY <1>4 DEF Served
  <2>1. PICK k \in Keys : Lasts(k, t)
    BY <1>1, <1>2 DEF ServedInv, Served
  <2>2. rows[k].token = t
    BY <2>1 DEF Lasts, Members
  <2>3. Ends(A, k) => \E n \in Keys : Links(n, t) \in A
    BY <1>1, <2>2 DEF Keeper
  <2>4. \A i \in Jobs : Ends(Ahead(i)', k) => \E n \in Keys : Links(n, t) \in Ahead(i)'
    BY <1>1, <1>3, <2>3 DEF Ends
  <2>5. Lasts(k, t)'
    BY <1>4, <2>1, <2>4 DEF Lasts
  <2> QED BY <2>5
<1>9. ASSUME ~hist'.torn PROVE Doubles' /\ LinksFirst'
  <2>1. \A t \in Tokens : \A k, l \in Members(t) : At[k] = At[l] => k = l
    BY <1>1, <1>2, <1>3, <1>9 DEF SingleInv, Doubles
  <2>2. Doubles'
    BY <1>4, <2>1 DEF Doubles
  <2>3. LinksFirst'
    <3> SUFFICES ASSUME NEW i \in Jobs, NEW n \in Keys, NEW t \in Tokens, Links(n, t) \in Ahead(i)',
                        NEW l \in Members(t), At[l] = At[n]
                 PROVE  Erases(l) \in Ahead(i)'
      BY <1>4 DEF LinksFirst
    <3>1. i = j /\ Links(n, t) \in A
      BY <1>1, <1>3
    <3>2. PICK k \in Members(t) : At[k] = At[n] /\ Erases(k) \in A
      BY <1>1, <3>1 DEF Keeper
    <3> QED BY <1>1, <2>1, <3>1, <3>2
  <2> QED BY <2>2, <2>3
<1> QED BY <1>5, <1>6, <1>7, <1>8, <1>9 DEF ServedInv, SingleInv

\* How a step changes who has which key.
LEMMA ExecuteMembers ==
  ASSUME WorkType, StrayInv, HeirInv, NEW j \in Jobs, NEW h, Executes(j, h)
  PROVE  /\ \A t \in Tokens : \/ Members(t)' \subseteq Members(t)
                              \/ /\ Rank(h) = 7 /\ h = Links(h.key, t) /\ h.key \in Keys
                                 /\ Members(t)' \subseteq Members(t) \cup {h.key}
         /\ Rank(h) = 11 => \A t \in Tokens : h.key \notin Members(t)'
         /\ \A t \in Tokens : \A k \in Members(t) :
              k \in Members(t)' \/ (Rank(h) \in {10, 11} /\ h.key = k)
<1> DEFINE n == h.key
<1>1. /\ \A k \in Keys : k = n \/ rows'[k] = rows[k]
      /\ Rank(h) = 12 => rows' = rows
      /\ Rank(h) # 12 => n \in Keys
      /\ Rank(h) \in {1, 2, 5, 8, 9} => rows' = rows
      /\ Rank(h) = 3 => rows'[n].known /\ rows'[n].token = None
      /\ Rank(h) \in {4, 6, 7, 10, 11} /\ ~rows[n].known => rows' = rows
      /\ Rank(h) \in {4, 6, 7, 10} /\ rows[n].known => rows'[n].known
      /\ Rank(h) \in {4, 6} => rows'[n].token = rows[n].token
      /\ Rank(h) = 10 /\ rows[n].known => rows'[n].token = None
      /\ Rank(h) = 11 /\ rows[n].known => ~rows'[n].known
  BY ExecuteDoes
<1>2. Rank(h) \in 1..12 /\ (Rank(h) = 7 => \E t \in Tokens : h = Links(n, t))
  BY Kinds DEF Executes
<1>3. \A t : h = Links(n, t) /\ rows[n].known => rows'[n].token = t
  BY ExecuteDoes
<1>4. Rank(h) <= 7 => rows[n].token = None
  BY DEF Executes, First, HeirInv, Unlinked, Makes
<1>5. None \notin Tokens
  BY ConstantsAssumption
<1> HIDE DEF n
<1>6. ASSUME NEW t \in Tokens
      PROVE  \/ Members(t)' \subseteq Members(t)
             \/ Rank(h) = 7 /\ h = Links(n, t) /\ n \in Keys /\ Members(t)' \subseteq Members(t) \cup {n}
  <2>1. CASE Rank(h) = 7
    <3>1. PICK u \in Tokens : h = Links(n, u)
      BY <1>2, <2>1
    <3>2. u # t => rows' = rows \/ rows'[n].token # t
      BY <1>1, <1>3, <2>1, <3>1
    <3> QED BY <1>1, <2>1, <3>1, <3>2 DEF Members
  <2>2. CASE Rank(h) # 7
    <3>1. \A k \in Keys : rows'[k] = rows[k] \/ ~rows'[k].known \/ rows'[k].token # t
                          \/ (rows[k].known /\ rows'[k].token = rows[k].token)
      BY <1>1, <1>2, <1>5, <2>2
    <3> QED BY <3>1 DEF Members
  <2> QED BY <2>1, <2>2
<1>7. Rank(h) = 11 => \A t \in Tokens : n \notin Members(t)'
  BY <1>1 DEF Members
<1>8. ASSUME NEW t \in Tokens, NEW k \in Members(t)
      PROVE  k \in Members(t)' \/ (Rank(h) \in {10, 11} /\ n = k)
  <2>1. k \in Keys /\ rows[k].known /\ rows[k].token = t
    BY <1>8 DEF Members
  <2>2. CASE n = k /\ Rank(h) <= 7
    BY <1>4, <1>5, <2>1, <2>2
  <2>3. CASE n # k \/ Rank(h) \in {8, 9, 12}
    <3>1. rows'[k] = rows[k]
      BY <1>1, <2>1, <2>3
    <3> QED BY <2>1, <3>1 DEF Members
  <2> QED BY <1>2, <2>2, <2>3
<1> QED BY <1>6, <1>7, <1>8 DEF n

LEMMA ServedExecutes ==
  ASSUME WorkType, StrayInv, HeirInv, ServedInv, NEW j \in Jobs, NEW h, Executes(j, h)
  PROVE  ServedInv'
<1> SUFFICES ASSUME ~hist.clash PROVE Alone' /\ LinksReady' /\ UnlinksAsked' /\ Served'
  BY DEF ServedInv, Executes
<1> DEFINE n == h.key
           A == Ahead(j)
<1>1. /\ A' = A \ {h}
      /\ \A i \in Jobs \ {j} : Ahead(i)' = Ahead(i) /\ job'[i] = job[i]
      /\ h \in Steps /\ First(j, h) /\ hist' = hist /\ Busy(j)
  BY ExecuteTurns DEF Executes, Turns, Proceeds
<1>2. /\ A \subseteq Steps /\ Shaped(A, job[j].undo) /\ h \in A
      /\ \A s \in A : Rank(s) \in 1..12 /\ Rank(h) <= Rank(s) /\ (Rank(s) = Rank(h) => s = h)
  BY <1>1, Passed
<1>3. \A i \in Jobs \ {j} : ~Busy(i) /\ Ahead(i) = {} /\ Ahead(i)' = {}
  BY <1>1, Apart
<1>4. LinksReady /\ UnlinksAsked /\ Served
  BY DEF ServedInv
<1>5. \A s \in A' : s \in A /\ Rank(h) < Rank(s)
  BY <1>1, <1>2
<1>6. Alone'
  BY <1>1, <1>3 DEF Alone, Busy
<1>7. \A k \in Keys : /\ Exists(k) => Exists(k)' \/ (Rank(h) \in {8, 9} /\ k = n)
                      /\ rows[k].known => rows'[k].known \/ (Rank(h) = 11 /\ k = n)
  <2> SUFFICES ASSUME NEW k \in Keys
               PROVE  /\ Exists(k) => Exists(k)' \/ (Rank(h) \in {8, 9} /\ k = n)
                      /\ rows[k].known => rows'[k].known \/ (Rank(h) = 11 /\ k = n)
    OBVIOUS
  <2>1. CASE k # n
    BY <2>1, ExecuteDoes DEF Exists
  <2>2. CASE k = n
    <3>1. Rank(h) \in 1..12
      BY <1>2
    <3>2. /\ Rank(h) = 1 => outline'[n] = "open"
          /\ Rank(h) \in {2, 5} => outline'[n] = "blocked"
          /\ Rank(h) \in {3, 4, 6, 7, 10, 11, 12} => outline' = outline
          /\ Rank(h) \in {1, 2, 5, 8, 9, 12} => rows' = rows
          /\ Rank(h) = 3 => rows'[n].known
          /\ Rank(h) \in {4, 6, 7, 10} /\ rows[n].known => rows'[n].known
      BY ExecuteDoes
    <3> HIDE DEF n
    <3> QED BY <2>2, <3>1, <3>2 DEF Exists
  <2> QED BY <2>1, <2>2
<1>8. LinksReady'
  <2> SUFFICES ASSUME NEW i \in Jobs, NEW m \in Keys, NEW t \in Tokens, Links(m, t) \in Ahead(i)'
               PROVE  /\ Opens(m) \in Ahead(i)' \/ Exists(m)'
                      /\ Inserts(m) \in Ahead(i)' \/ rows'[m].known
    BY DEF LinksReady
  <2>1. i = j /\ Links(m, t) \in A /\ Rank(h) < 7
    BY <1>1, <1>3, <1>5, Ranks
  <2>2. n = m
    BY <1>2, <2>1, Told, Ranks DEF Shaped, Makes
  <2>3. Opens(m) \in A \/ Exists(m)
    BY <1>4, <2>1 DEF LinksReady
  <2>4. Inserts(m) \in A \/ rows[m].known
    BY <1>4, <2>1 DEF LinksReady
  <2>5. Opens(m) = h => Exists(m)'
    <3>1. Rank(h) = 1 => outline'[n] = "open"
      BY ExecuteDoes
    <3> QED BY <2>2, <3>1, Ranks DEF Exists
  <2>6. Inserts(m) = h => rows'[m].known
    <3>1. Rank(h) = 3 => rows'[n].known
      BY ExecuteDoes
    <3> QED BY <2>2, <3>1, Ranks
  <2> QED BY <1>1, <1>7, <2>1, <2>3, <2>4, <2>5, <2>6
<1>9. UnlinksAsked'
  <2> SUFFICES ASSUME NEW i \in Jobs, NEW k \in Keys, Unlinks(k) \in Ahead(i)'
               PROVE  rows'[k].token \in hist.asked \cup {None}
    BY <1>1 DEF UnlinksAsked
  <2>1. i = j /\ Unlinks(k) \in A /\ Rank(h) < 10
    BY <1>1, <1>3, <1>5, Ranks
  <2>2. rows[k].token \in hist.asked \cup {None}
    BY <1>4, <2>1 DEF UnlinksAsked
  <2>3. Rank(h) # 7
    <3> SUFFICES ASSUME Rank(h) = 7 PROVE FALSE
      OBVIOUS
    <3>1. PICK t \in Tokens : h = Links(n, t)
      BY <1>1, Kinds
    <3>2. n \in Keys
      BY <1>1, Kinds
    <3>3. LET s == Unlinks(k) IN Makes(s) \/ s = Forget(t)
            \/ \E l \in Keys \ {n} : s \in {Deletes(l, "skip"), Erases(l)}
      BY <1>2, <2>1, <3>1, <3>2 DEF Shaped
    <3> QED BY <3>3, Ranks DEF Makes
  <2>4. rows'[k].token = rows[k].token \/ rows'[k].token = None
    <3>1. CASE k # n
      BY <3>1, ExecuteDoes
    <3>2. CASE k = n
      <4>1. Rank(h) \in {1, 2, 3, 4, 5, 6, 8, 9}
        BY <1>2, <2>1, <2>3
      <4> QED BY <3>2, <4>1, ExecuteDoes
    <3> QED BY <3>1, <3>2
  <2> QED BY <2>2, <2>4
<1>10. Served'
  <2> SUFFICES ASSUME NEW t \in Tokens \ hist.asked, Members(t)' # {} PROVE \E k \in Keys : Lasts(k, t)'
    BY <1>1 DEF Served
  <2>1. CASE h = Links(n, t) /\ Rank(h) = 7 /\ rows[n].known
    <3>1. n \in Keys /\ rows'[n].known /\ rows'[n].token = t /\ outline' = outline
      BY <2>1, ExecuteDoes
    <3>2. Opens(n) \notin A
      BY <1>2, <2>1, Ranks
    <3>3. Exists(n)
      BY <1>2, <1>4, <2>1, <3>1, <3>2 DEF LinksReady
    <3>4. n \in Members(t)' /\ Working(n)'
      BY <3>1, <3>3 DEF Members, Working, Exists
    <3>5. ~Ends(A', n)
      <4>1. \A s \in A : Makes(s) \/ s = Forget(t)
              \/ \E k \in Keys \ {n} : s \in {Deletes(k, "skip"), Erases(k)}
        BY <1>2, <2>1, <3>1 DEF Shaped
      <4>2. ASSUME NEW s \in {Erases(n), Deletes(n, "stop"), Deletes(n, "skip")}, s \in A PROVE FALSE
        <5>1. s.key = n /\ Rank(s) \in {8, 9, 11}
          BY <4>2, Told, Ranks
        <5>2. PICK k \in Keys \ {n} : s \in {Deletes(k, "skip"), Erases(k)}
          BY <4>1, <4>2, <5>1, Ranks DEF Makes
        <5>3. s.key = k
          BY <5>2, Told
        <5> QED BY <5>1, <5>3
      <4> QED BY <1>5, <4>2 DEF Ends
    <3>6. \A i \in Jobs : ~Ends(Ahead(i)', n)
      BY <1>3, <3>5 DEF Ends
    <3>7. Lasts(n, t)'
      BY <3>4, <3>6 DEF Lasts
    <3> QED BY <3>1, <3>7
  <2>2. CASE ~(h = Links(n, t) /\ Rank(h) = 7 /\ rows[n].known)
    <3>1. Members(t)' \subseteq Members(t)
      <4>1. CASE h = Links(n, t) /\ Rank(h) = 7
        <5>1. rows' = rows
          BY <2>2, <4>1, ExecuteDoes DEF WorkType, Rows
        <5> QED BY <5>1 DEF Members
      <4>2. CASE ~(h = Links(n, t) /\ Rank(h) = 7)
        BY <4>2, ExecuteMembers
      <4> QED BY <4>1, <4>2
    <3>2. PICK k \in Keys : Lasts(k, t)
      BY <1>4, <3>1 DEF Served
    <3>3. /\ k \in Members(t) /\ Working(k) /\ rows[k].known /\ rows[k].token = t /\ t # None
          /\ (Ends(A, k) => \E m \in Keys : Links(m, t) \in A)
      BY <3>2, ConstantsAssumption DEF Lasts, Members
    <3>4. Rank(h) >= 8 => ~Ends(A, k)
      <4>1. ASSUME Rank(h) >= 8, NEW m \in Keys, Links(m, t) \in A PROVE FALSE
        BY <1>2, <4>1, Ranks
      <4> QED BY <3>3, <4>1
    <3>5. Rank(h) \in {8, 9, 11} => k # n
      <4>1. /\ Rank(h) = 8 => h = Deletes(n, "skip")
            /\ Rank(h) = 9 => h = Deletes(n, "stop")
            /\ Rank(h) = 11 => h = Erases(n)
        BY <1>1, Kinds
      <4> QED BY <1>2, <3>4, <4>1 DEF Ends
    <3>6. Rank(h) = 10 => k # n
      <4>1. Rank(h) = 10 => h = Unlinks(n) /\ n \in Keys
        BY <1>1, Kinds
      <4>2. Rank(h) = 10 => rows[n].token \in hist.asked \cup {None}
        BY <1>2, <1>4, <4>1 DEF UnlinksAsked
      <4> QED BY <3>3, <4>2
    <3>7. k \in Members(t)'
      BY <3>3, <3>5, <3>6, ExecuteMembers
    <3>8. Working(k)'
      BY <1>7, <3>3, <3>5 DEF Working
    <3>9. Ends(A', k) => \E m \in Keys : Links(m, t) \in A'
      <4> SUFFICES ASSUME Ends(A', k) PROVE \E m \in Keys : Links(m, t) \in A'
        OBVIOUS
      <4>1. Ends(A, k)
        BY <1>1 DEF Ends
      <4>2. PICK m \in Keys : Links(m, t) \in A
        BY <3>3, <4>1
      <4>3. Links(m, t) # h
        <5> SUFFICES ASSUME Links(m, t) = h PROVE FALSE
          OBVIOUS
        <5>1. Rank(h) = 7 /\ n = m
          BY Ranks, Told
        <5>2. ~rows[m].known
          BY <2>2, <5>1
        <5>3. Inserts(m) \notin A
          BY <1>2, <5>1, Ranks
        <5> QED BY <1>4, <4>2, <5>2, <5>3 DEF LinksReady
      <4> QED BY <1>1, <4>2, <4>3
    <3>10. \A i \in Jobs : Ends(Ahead(i)', k) => \E m \in Keys : Links(m, t) \in Ahead(i)'
      BY <1>3, <3>9 DEF Ends
    <3>11. Lasts(k, t)'
      BY <3>7, <3>8, <3>10 DEF Lasts
    <3> QED BY <3>11
  <2> QED BY <2>1, <2>2
<1> QED BY <1>6, <1>8, <1>9, <1>10

LEMMA SingleExecutes ==
  ASSUME WorkType, StrayInv, HeirInv, ServedInv, SingleInv, NEW j \in Jobs, NEW h, Executes(j, h)
  PROVE  SingleInv'
<1> SUFFICES ASSUME ~hist.clash, ~hist.torn PROVE Doubles' /\ LinksFirst'
  BY DEF SingleInv, Executes
<1> DEFINE n == h.key
           A == Ahead(j)
<1>1. /\ A' = A \ {h}
      /\ \A i \in Jobs \ {j} : Ahead(i)' = Ahead(i)
      /\ h \in Steps /\ First(j, h) /\ hist' = hist /\ Busy(j)
  BY ExecuteTurns DEF Executes, Turns, Proceeds
<1>2. /\ A \subseteq Steps /\ Shaped(A, job[j].undo) /\ h \in A
      /\ \A s \in A : Rank(s) \in 1..12 /\ Rank(h) <= Rank(s) /\ (Rank(s) = Rank(h) => s = h)
  BY <1>1, Passed
<1>3. \A i \in Jobs \ {j} : Ahead(i) = {} /\ Ahead(i)' = {}
  BY <1>1, Apart
<1>4. Doubles /\ LinksFirst
  BY DEF SingleInv
<1>5. \A s \in A' : s \in A /\ Rank(h) < Rank(s)
  BY <1>1, <1>2
<1>6. ASSUME NEW t \in Tokens, NEW k \in Members(t), NEW l \in Members(t), k # l, At[k] = At[l]
      PROVE  (Erases(k) \in A \/ Erases(l) \in A) /\ \A s \in A : ~Makes(s) /\ Rank(s) # 9
  BY <1>3, <1>4, <1>6 DEF Doubles
<1>7. Doubles'
  <2> SUFFICES ASSUME NEW t \in Tokens, NEW k \in Members(t)', NEW l \in Members(t)', k # l, At[k] = At[l]
               PROVE  (Erases(k) \in A' \/ Erases(l) \in A') /\ \A s \in A' : ~Makes(s) /\ Rank(s) # 9
    BY DEF Doubles
  <2>1. CASE Members(t)' \subseteq Members(t)
    <3>1. (Erases(k) \in A \/ Erases(l) \in A) /\ \A s \in A : ~Makes(s) /\ Rank(s) # 9
      BY <1>6, <2>1
    <3>2. h # Erases(k) /\ h # Erases(l)
      <4>1. \A m : h = Erases(m) => Rank(h) = 11 /\ n = m
        BY Ranks, Told
      <4>2. Rank(h) = 11 => n \notin Members(t)'
        BY ExecuteMembers
      <4> QED BY <4>1, <4>2
    <3> QED BY <1>1, <3>1, <3>2
  <2>2. CASE /\ Rank(h) = 7 /\ h = Links(n, t) /\ n \in Keys
             /\ Members(t)' \subseteq Members(t) \cup {n}
    <3>1. ~(k \in Members(t) /\ l \in Members(t))
      <4>1. Makes(h)
        BY <2>2 DEF Makes
      <4> QED BY <1>2, <1>6, <4>1
    <3>2. ASSUME NEW m \in Members(t), At[m] = At[n] PROVE Erases(m) \in A'
      <4>1. Erases(m) \in A
        BY <1>2, <1>4, <2>2, <3>2 DEF LinksFirst
      <4> QED BY <1>1, <2>2, <4>1, Ranks
    <3>3. Erases(k) \in A' \/ Erases(l) \in A'
      BY <2>2, <3>1, <3>2
    <3>4. \A s \in A' : ~Makes(s) /\ Rank(s) # 9
      <4> SUFFICES ASSUME NEW s \in A' PROVE ~Makes(s) /\ Rank(s) # 9
        OBVIOUS
      <4>1. s \in A /\ 7 < Rank(s) /\ Rank(s) \in 1..12
        BY <1>2, <1>5, <2>2
      <4>2. ~Makes(s)
        BY <4>1 DEF Makes
      <4>3. s = Forget(t) \/ \E m \in Keys \ {n} : s \in {Deletes(m, "skip"), Erases(m)}
        BY <1>2, <2>2, <4>1, <4>2 DEF Shaped
      <4> QED BY <4>2, <4>3, Ranks
    <3> QED BY <3>3, <3>4
  <2> QED BY <2>1, <2>2, ExecuteMembers
<1>8. LinksFirst'
  <2> SUFFICES ASSUME NEW i \in Jobs, NEW m \in Keys, NEW t \in Tokens, Links(m, t) \in Ahead(i)',
                      NEW l \in Members(t)', At[l] = At[m]
               PROVE  Erases(l) \in Ahead(i)'
    BY DEF LinksFirst
  <2>1. i = j /\ Links(m, t) \in A /\ Rank(h) < 7
    BY <1>1, <1>3, <1>5, Ranks
  <2>2. l \in Members(t)
    BY <2>1, ExecuteMembers
  <2>3. Erases(l) \in A
    BY <1>4, <2>1, <2>2 DEF LinksFirst
  <2> QED BY <1>1, <2>1, <2>3, Ranks
<1> QED BY <1>7, <1>8

LEMMA ServedStumbles ==
  ASSUME WorkType, HeirInv, ServedInv, SingleInv, NEW j \in Jobs, NEW h, Stumbles(j, h)
  PROVE  ServedInv' /\ SingleInv'
<1> DEFINE n == h.key
           A == Ahead(j)
           A2 == Ahead(j)'
<1>1. /\ \A i \in Jobs \ {j} : Ahead(i)' = Ahead(i) /\ job'[i] = job[i]
      /\ h \in Steps /\ First(j, h) /\ UNCHANGED <<outline, rows>> /\ Busy(j)
      /\ hist'.asked = hist.asked /\ hist'.clash = hist.clash /\ (hist.torn => hist'.torn)
  BY StumbleTurns DEF Stumbles, Turns, Proceeds
<1>2. /\ A \subseteq Steps /\ h \in A
      /\ \A s \in A : Rank(s) \in 1..12 /\ Rank(h) <= Rank(s)
  BY <1>1, Passed
<1>3. \/ Rank(h) = 8 /\ A2 = A \ {h}
      \/ Rank(h) \in 3..7 /\ A2 \in {{Deletes(n, "skip")}, {Deletes(n, "skip"), Erases(n)}}
      \/ Rank(h) \in {1, 2, 9} /\ A2 = {}
      \/ Rank(h) \in {10, 11} /\ hist'.torn /\ A2 = {}
  BY StumbleTurns DEF Turns
<1> SUFFICES ASSUME ~hist.clash
             PROVE  Alone' /\ LinksReady' /\ UnlinksAsked' /\ Served' /\ SingleInv'
  BY <1>1 DEF ServedInv, SingleInv
<1>4. \A i \in Jobs \ {j} : ~Busy(i) /\ Ahead(i) = {} /\ Ahead(i)' = {}
  BY <1>1, Apart
<1>5. /\ \A k \in Keys : Exists(k)' = Exists(k) /\ Working(k)' = Working(k)
      /\ \A t \in Tokens : Members(t)' = Members(t)
  BY <1>1 DEF Exists, Working, Members
<1>6. LinksReady /\ UnlinksAsked /\ Served
  BY DEF ServedInv
<1>7. \A m, t : Links(m, t) \notin A2
  <2> SUFFICES ASSUME NEW m, NEW t, Links(m, t) \in A2 PROVE FALSE
    OBVIOUS
  <2>1. Rank(Links(m, t)) = 7
    BY Ranks
  <2>2. CASE A2 = A \ {h} /\ Rank(h) = 8
    BY <1>2, <2>1, <2>2
  <2>3. CASE A2 \in {{Deletes(n, "skip")}, {Deletes(n, "skip"), Erases(n)}}
    BY <2>1, <2>3, Ranks
  <2> QED BY <1>3, <2>2, <2>3
<1>8. Alone'
  BY <1>1, <1>4 DEF Alone, Busy
<1>9. LinksReady'
  BY <1>4, <1>7 DEF LinksReady
<1>10. UnlinksAsked'
  <2> SUFFICES ASSUME NEW i \in Jobs, NEW k \in Keys, Unlinks(k) \in Ahead(i)'
               PROVE  rows[k].token \in hist.asked \cup {None}
    BY <1>1 DEF UnlinksAsked
  <2>1. i = j /\ Unlinks(k) \in A
    BY <1>3, <1>4, Ranks
  <2> QED BY <1>6, <2>1 DEF UnlinksAsked
<1>11. Served'
  <2> SUFFICES ASSUME NEW t \in Tokens \ hist.asked, Members(t) # {} PROVE \E k \in Keys : Lasts(k, t)'
    BY <1>1, <1>5 DEF Served
  <2>1. PICK k \in Keys : Lasts(k, t)
    BY <1>6 DEF Served
  <2>2. rows[k].token = t /\ t # None /\ (Ends(A, k) => \E m \in Keys : Links(m, t) \in A)
    BY <2>1, ConstantsAssumption DEF Lasts, Members
  <2>3. ~Ends(A2, k)
    <3>1. CASE Rank(h) = 8 /\ A2 = A \ {h}
      <4>1. \A m \in Keys : Links(m, t) \notin A
        BY <1>2, <3>1, Ranks
      <4> QED BY <2>2, <3>1, <4>1 DEF Ends
    <3>2. CASE Rank(h) \in 3..7 /\ A2 \in {{Deletes(n, "skip")}, {Deletes(n, "skip"), Erases(n)}}
      <4>1. rows[n].token = None
        BY <1>2, <3>2 DEF HeirInv, Unlinked, Makes
      <4>2. \A m : /\ Erases(m).key = m /\ Deletes(m, "stop").key = m /\ Deletes(m, "skip").key = m
        BY Told
      <4>3. Ends(A2, k) => \E s \in A2 : s.key = k
        BY <4>2 DEF Ends
      <4>4. \A s \in A2 : s.key = n
        BY <3>2, <4>2
      <4> QED BY <2>2, <4>1, <4>3, <4>4
    <3>3. CASE A2 = {}
      BY <3>3 DEF Ends
    <3> QED BY <1>3, <3>1, <3>2, <3>3
  <2>4. \A i \in Jobs : ~Ends(Ahead(i)', k)
    BY <1>4, <2>3 DEF Ends
  <2>5. Lasts(k, t)'
    BY <1>5, <2>1, <2>4 DEF Lasts
  <2> QED BY <2>5
<1>12. ASSUME ~hist'.torn PROVE Doubles' /\ LinksFirst'
  <2>1. ASSUME NEW t \in Tokens, NEW k \in Members(t), NEW l \in Members(t), k # l, At[k] = At[l]
        PROVE  (Erases(k) \in A2 \/ Erases(l) \in A2) /\ \A s \in A2 : ~Makes(s) /\ Rank(s) # 9
    <3>1. (Erases(k) \in A \/ Erases(l) \in A) /\ \A s \in A : ~Makes(s) /\ Rank(s) # 9
      BY <1>1, <1>4, <1>12, <2>1 DEF SingleInv, Doubles
    <3>2. Rank(h) = 8 /\ A2 = A \ {h}
      BY <1>2, <1>3, <1>12, <3>1 DEF Makes
    <3> QED BY <3>1, <3>2, Ranks
  <2>2. Doubles'
    BY <1>5, <2>1 DEF Doubles
  <2>3. LinksFirst'
    BY <1>4, <1>7 DEF LinksFirst
  <2> QED BY <2>2, <2>3
<1> QED BY <1>8, <1>9, <1>10, <1>11, <1>12 DEF SingleInv

LEMMA ServedClears ==
  ASSUME WorkType, ServedInv, SingleInv, NEW j \in Jobs, NEW gone, Clears(j, gone)
  PROVE  ServedInv' /\ SingleInv'
<1> SUFFICES ASSUME ~hist'.clash PROVE ServedInv' /\ SingleInv'
  BY DEF ServedInv, SingleInv
<1>1. /\ \A i \in Jobs : Ahead(i)' = Ahead(i)
      /\ \A i \in Jobs \ {j} : job'[i] = job[i]
      /\ ~Busy(j)' /\ outline' = outline /\ hist'.torn = hist.torn
      /\ rows' = [k \in Keys |-> IF k \in gone THEN NoRow ELSE rows[k]]
      /\ hist.asked \subseteq hist'.asked /\ \A k \in gone : rows[k].token \in hist'.asked
  BY ClearTurns DEF Clears
<1>2. ~hist.clash /\ \A i \in Jobs : ~Busy(i)
  BY DEF Clears
<1>3. \A i \in Jobs : Ahead(i) = {} /\ Ahead(i)' = {}
  BY <1>1, <1>2, Passed
<1>4. /\ \A t \in Tokens : Members(t)' \subseteq Members(t)
      /\ \A t \in Tokens, k \in Keys : k \in Members(t) /\ k \notin gone => k \in Members(t)'
      /\ \A k \in Keys : Working(k) /\ k \notin gone => Working(k)'
  BY <1>1 DEF Members, Working, Exists, NoRow
<1>5. Alone' /\ LinksReady' /\ UnlinksAsked' /\ LinksFirst'
  <2>1. \A i \in Jobs : ~Busy(i)'
    BY <1>1, <1>2 DEF Busy
  <2> QED BY <1>3, <2>1 DEF Alone, LinksReady, UnlinksAsked, LinksFirst
<1>6. Served'
  <2> SUFFICES ASSUME NEW t \in Tokens \ hist'.asked, Members(t)' # {} PROVE \E k \in Keys : Lasts(k, t)'
    BY DEF Served
  <2>1. PICK k \in Keys : Lasts(k, t)
    BY <1>1, <1>2, <1>4 DEF ServedInv, Served
  <2>2. k \in Members(t) /\ Working(k) /\ rows[k].token = t
    BY <2>1 DEF Lasts, Members
  <2>3. k \notin gone
    BY <1>1, <2>2
  <2>4. Lasts(k, t)'
    BY <1>3, <1>4, <2>2, <2>3 DEF Lasts, Ends
  <2> QED BY <2>4
<1>7. ASSUME ~hist'.torn PROVE Doubles'
  BY <1>1, <1>2, <1>3, <1>4, <1>7 DEF SingleInv, Doubles
<1> QED BY <1>5, <1>6, <1>7 DEF ServedInv, SingleInv

LEMMA ServedDies ==
  ASSUME WorkType, ServedInv, NEW p \in Procs, Dies(p)
  PROVE  ServedInv' /\ SingleInv'
<1> SUFFICES ASSUME ~hist.clash PROVE Alone' /\ LinksReady' /\ UnlinksAsked' /\ Served' /\ SingleInv'
  BY DEF ServedInv, SingleInv, Dies
<1>1. /\ \A i \in Jobs : (job'[i] = job[i] /\ Ahead(i)' = Ahead(i)) \/ (~Busy(i)' /\ Ahead(i)' = {})
      /\ UNCHANGED <<outline, rows>> /\ hist'.asked = hist.asked /\ hist'.torn
  BY DeathTurns DEF Dies
<1>2. /\ \A k \in Keys : Exists(k)' = Exists(k) /\ Working(k)' = Working(k)
      /\ \A t \in Tokens : Members(t)' = Members(t)
  BY <1>1 DEF Exists, Working, Members
<1>3. Alone'
  BY <1>1 DEF ServedInv, Alone, Busy
<1>4. LinksReady' /\ UnlinksAsked'
  BY <1>1, <1>2 DEF ServedInv, LinksReady, UnlinksAsked
<1>5. Served'
  <2> SUFFICES ASSUME NEW t \in Tokens \ hist.asked, Members(t) # {} PROVE \E k \in Keys : Lasts(k, t)'
    BY <1>1, <1>2 DEF Served
  <2>1. PICK k \in Keys : Lasts(k, t)
    BY DEF ServedInv, Served
  <2>2. Lasts(k, t)'
    BY <1>1, <1>2, <2>1 DEF Lasts, Ends
  <2> QED BY <2>2
<1>6. SingleInv'
  BY <1>1 DEF SingleInv
<1> QED BY <1>3, <1>4, <1>5, <1>6

LEMMA ServedStep ==
  WorkType /\ StrayInv /\ HeirInv /\ ServedInv /\ SingleInv /\ [Next]_vars => ServedInv' /\ SingleInv'
<1> SUFFICES ASSUME WorkType, StrayInv, HeirInv, ServedInv, SingleInv, [Next]_vars
             PROVE  ServedInv' /\ SingleInv'
  OBVIOUS
<1>1. CASE UNCHANGED <<outline, rows, job, owes, hist>>
  <2>1. \A i \in Jobs : Ahead(i)' = Ahead(i) /\ Busy(i)' = Busy(i)
    BY <1>1 DEF Ahead, Busy
  <2>2. /\ \A k \in Keys : Exists(k)' = Exists(k) /\ Working(k)' = Working(k)
        /\ \A t \in Tokens : Members(t)' = Members(t)
    BY <1>1 DEF Exists, Working, Members
  <2>3. ~hist.clash => Alone' /\ LinksReady' /\ UnlinksAsked'
    BY <1>1, <2>1, <2>2 DEF ServedInv, Alone, LinksReady, UnlinksAsked
  <2>4. ~hist.clash => Served'
    <3>1. \A t \in Tokens, k \in Keys : Lasts(k, t)' = Lasts(k, t)
      BY <2>1, <2>2 DEF Lasts
    <3> QED BY <1>1, <2>2, <3>1 DEF ServedInv, Served
  <2>5. SingleInv'
    BY <1>1, <2>1, <2>2 DEF SingleInv, Doubles, LinksFirst
  <2> QED BY <1>1, <2>3, <2>4, <2>5 DEF ServedInv
<1> QED BY <1>1, Moves, ServedPlans, ServedExecutes, SingleExecutes, ServedStumbles, ServedClears, ServedDies

\* A customer nobody took a key from has one that works, on Outline and behind the link,
\* whatever fails and whoever dies in between, as long as no two requests overlap
\* (rotate_key: "a working config and at worst a stale key to clean up").
THEOREM NobodyIsWithoutConfig == Spec => []NeverWithoutConfig
<1>1. Init => WorkType /\ StrayInv /\ HeirInv /\ ServedInv /\ SingleInv
  BY WorkTypeInit, StrayInit, HeirInit, ServedInit
<1>2. WorkType /\ StrayInv /\ HeirInv /\ ServedInv /\ SingleInv /\ [Next]_vars
        => (WorkType /\ StrayInv /\ HeirInv /\ ServedInv /\ SingleInv)'
  BY WorkTypeStep, StrayStep, HeirStep, ServedStep
<1>3. ServedInv => NeverWithoutConfig
  BY DEF ServedInv, Served, Lasts, NeverWithoutConfig
<1> QED BY <1>1, <1>2, <1>3, PTL DEF Spec

\* The variables have their types; and after any requests, one after the other and none of
\* them torn, a customer has one config on a server at most (mirror_onto, rotate_key).
THEOREM OneConfigOnAServer == Spec => []ConfigInv
<1>1. Init => WorkType /\ StrayInv /\ HeirInv /\ ServedInv /\ SingleInv /\ PageType
  <2>1. Init => PageType
    BY ConstantsAssumption DEF Init, PageType, NoEntry, NoPage, Long
  <2> QED BY <2>1, WorkTypeInit, StrayInit, HeirInit, ServedInit
<1>2. WorkType /\ StrayInv /\ HeirInv /\ ServedInv /\ SingleInv /\ PageType /\ [Next]_vars
        => (WorkType /\ StrayInv /\ HeirInv /\ ServedInv /\ SingleInv /\ PageType)'
  BY WorkTypeStep, StrayStep, HeirStep, ServedStep, PageTypeStep
<1>3. WorkType /\ PageType => TypeOK
  <2>1. WorkType => \A j \in Jobs : /\ job[j].stage \in {"new", "first", "extra", "over"}
                                    /\ job[j].extras \subseteq Servers
                                    /\ job[j].token \in Tokens \cup {None}
    BY DEF WorkType, JobRecords
  <2> QED BY <2>1 DEF WorkType, PageType, TypeOK, Heirs
<1>4. WorkType /\ SingleInv => OneConfigPerServer
  <2> SUFFICES ASSUME WorkType, SingleInv, Quiet, ~hist.clash, ~hist.torn, NEW t \in Tokens,
                      NEW k \in Members(t), NEW l \in Members(t), At[k] = At[l], k # l
               PROVE  FALSE
    BY DEF OneConfigPerServer
  <2>1. \A j \in Jobs : Ahead(j) = {}
    BY Passed DEF Quiet
  <2> QED BY <2>1 DEF SingleInv, Doubles
<1>5. WorkType /\ SingleInv /\ PageType => ConfigInv
  BY <1>3, <1>4 DEF ConfigInv
<1> QED BY <1>1, <1>2, <1>5, PTL DEF Spec
=============================================================================
