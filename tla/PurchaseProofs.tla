---------------------------- MODULE PurchaseProofs ----------------------------
(***************************************************************************)
(* What is true of Purchase for every set of processes, admins, orders and *)
(* adjustments, every price, and whatever fails.                           *)
(***************************************************************************)
EXTENDS Purchase, FiniteSetTheorems, TLAPS

\* Which requests can stand where: only a request with a key is in begin(), and
\* orders and adjustments keep to their own handlers.
PlacesOK ==
  /\ \A r \in Orders : pc[r] # "adjust" /\ (pc[r] \in {"claim", "lookup"} => Holds(r))
  /\ \A t \in Adjustments : pc[t] \in {"idle", "adjust"} \cup Terminal

\* An open transaction belongs to a request that is at one of the three places
\* that open one, and a request that does not pay opens none.
TxHasAnOwner ==
  Idle \/ /\ tx.op \in Ops
          /\ pc[tx.op] \in {"buy", "reverse", "adjust"}
          /\ pc[tx.op] = "buy" => pays[tx.op]

TypeInv == TypeOK /\ PlacesOK /\ TxHasAnOwner

\* An open transaction carries exactly the movement of its request, and a charge
\* is still covered: the UPDATE checked it and nobody else can write since.
TxIsBalanced ==
  ~Idle =>
    /\ tx.credit = IF account[AdminOf[tx.op]] = "deleted" THEN 0 ELSE Movement(tx.op)
    /\ tx.logged => tx.ledger = Movement(tx.op)
    /\ pc[tx.op] = "buy" => /\ account[AdminOf[tx.op]] # "deleted"
                            /\ credit[AdminOf[tx.op]] >= Amount[tx.op]

MoneyInv == TypeInv /\ TxIsBalanced /\ LedgerAgrees

\* How far an order has got with the money and with the goods, by its place.
SaleInv ==
  /\ delivered \subseteq out
  /\ \A r \in Orders :
    /\ pc[r] \in {"idle", "claim", "lookup", "buy", "refused", "replayed"} =>
         r \notin paid /\ r \notin out
    /\ pc[r] = "sell" => (r \in paid <=> pays[r]) /\ r \notin out
    /\ pc[r] = "store" => (r \in paid <=> pays[r]) /\ r \in out
    /\ pc[r] = "reverse" => r \in paid /\ pays[r]
    /\ pc[r] \in {"store", "reverse", "abandon", "failed"} => r \notin delivered
    /\ pc[r] \in {"tag", "finish", "ok"} => r \in delivered
    /\ r \in delivered => (r \in paid <=> pays[r])
    /\ r \in out /\ pays[r] /\ r \notin paid => pc[r] \in {"abandon", "failed", "crashed"}
    /\ r \in paid => pays[r]

\* Without failing statements a reversal always lands.
ReversalLands ==
  ~DbMayFail => \A r \in Orders :
    pc[r] \in {"abandon", "failed", "refused", "replayed"} => r \notin paid

\* The row of a key is held by the one order that is past the claim.
Past(r) == pc[r] \in {"buy", "sell", "store", "reverse", "tag", "finish", "abandon"}
RowIsHeld ==
  \A r \in Orders : Holds(r) /\ Undisturbed(KeyOf[r]) /\ Past(r) =>
    rows[KeyOf[r]].st # "none" /\ rows[KeyOf[r]].by = r

\* A stored answer is that of the order that holds the row.
AnswerInv ==
  \A k \in Keys :
    /\ rows[k].st # "none" => rows[k].by \in Orders /\ KeyOf[rows[k].by] = k
    /\ rows[k].st = "done" /\ Undisturbed(k) =>
         rows[k].answer = rows[k].by /\ rows[k].answer \in delivered

\* The places and the types are preserved together: a row is only looked up
\* under a key, and only an order is ever paid.
LEMMA TypeInvariant == Spec => []TypeInv
<1> USE ConstantsAssumption
<1> USE DEF TypeInv, TypeOK, PlacesOK, TxHasAnOwner, Idle, CanWriteAt, CanWrite, Holds, Ops, Running, Terminal, NoTx, NoRow, money, history, Goto
<1>1. Init => TypeInv
  BY DEF Init
<1>2. TypeInv /\ [Next]_vars => TypeInv'
  <2> SUFFICES ASSUME TypeInv, [Next]_vars PROVE TypeInv'
    OBVIOUS
  <2>1. ASSUME NEW r \in Orders, Arrive(r) PROVE TypeInv'
    BY <2>1 DEF Arrive
  <2>2. ASSUME NEW r \in Orders, Step(r) PROVE TypeInv'
    <3>1. CASE Reserve(r) BY <3>1 DEF Reserve
    <3>2. CASE Collide(r) BY <3>2 DEF Collide
    <3>3. CASE LookupMiss(r) BY <3>3 DEF LookupMiss
    <3>4. CASE Refuse(r) BY <3>4 DEF Refuse
    <3>5. CASE Replay(r) BY <3>5 DEF Replay
    <3>6. CASE BuyNothing(r) BY <3>6 DEF BuyNothing
    <3>7. CASE ChargeUpdate(r) BY <3>7 DEF ChargeUpdate
    <3>8. CASE ChargeRefused(r) BY <3>8 DEF ChargeRefused
    <3>9. CASE HandsOver(r) \/ Deliver(r) BY <3>9 DEF HandsOver, Deliver
    <3>10. CASE SaleFails(r) \/ StoreFails(r) BY <3>10 DEF SaleFails, StoreFails, GiveUp
    <3>11. CASE Abandon(r) BY <3>11 DEF Abandon
    <3>12. CASE Tag(r) BY <3>12 DEF Tag
    <3>13. CASE Finish(r)
      <4>1. CASE Holds(r) /\ rows[KeyOf[r]].st # "none"
        <5>1. KeyOf[r] \in Keys
          BY <4>1
        <5>2. Answered(rows[KeyOf[r]], r) \in [st : {"none", "running", "done"},
                                 by : Orders \cup {NoOp}, answer : Orders \cup {NoOp}]
          BY <5>1 DEF Answered
        <5>3. rows' = [rows EXCEPT ![KeyOf[r]] = Answered(rows[KeyOf[r]], r)]
          BY <3>13, <4>1 DEF Finish
        <5>4. rows' \in [Keys -> [st : {"none", "running", "done"},
                                  by : Orders \cup {NoOp}, answer : Orders \cup {NoOp}]]
          BY <5>1, <5>2, <5>3
        <5> QED BY <3>13, <5>4 DEF Finish
      <4>2. CASE ~(Holds(r) /\ rows[KeyOf[r]].st # "none")
        BY <3>13, <4>2 DEF Finish
      <4> QED BY <4>1, <4>2
    <3>14. CASE WriteFails(r) BY <3>14 DEF WriteFails, AfterFailure
    <3> QED BY <2>2, <3>1, <3>2, <3>3, <3>4, <3>5, <3>6, <3>7, <3>8, <3>9,
               <3>10, <3>11, <3>12, <3>13, <3>14 DEF Step
  <2>3. ASSUME NEW op \in Ops, TxStep(op) PROVE TypeInv'
    <3>1. CASE CreditUpdate(op) BY <3>1 DEF CreditUpdate
    <3>2. CASE LedgerInsert(op)
      <4>1. Movement(op) \in Int BY DEF Movement
      <4>2. tx' \in [op : Ops \cup {NoOp}, credit : Int, ledger : Int, logged : BOOLEAN]
        BY <3>2, <4>1 DEF LedgerInsert
      <4> QED BY <3>2, <4>2 DEF LedgerInsert
    <3>3. CASE Commit(op)
      <4>1. AfterCommit(op) \in {"sell", "abandon", "ok"} BY DEF AfterCommit
      <4>2. PaidAfterCommit(op) \subseteq Orders BY DEF PaidAfterCommit
      <4>3. op \in Adjustments => AfterCommit(op) = "ok" BY DEF AfterCommit
      <4>4. credit' \in [Admins -> Int] /\ ledger' \in [Admins -> Int]
        BY <3>3 DEF Commit
      <4> QED BY <3>3, <4>1, <4>2, <4>3, <4>4 DEF Commit
    <3>4. CASE TxFails(op) BY <3>4 DEF TxFails
    <3> QED BY <2>3, <3>1, <3>2, <3>3, <3>4 DEF TxStep
  <2>4. ASSUME NEW t \in Adjustments, AdjustCheck(t) PROVE TypeInv'
    BY <2>4 DEF AdjustCheck
  <2>5. ASSUME NEW a \in Admins, SetCreditEnabled(a) \/ RemoveAdmin(a) PROVE TypeInv'
    BY <2>5 DEF SetCreditEnabled, RemoveAdmin, SomeoneCanWrite
  <2>6. ASSUME NEW k \in Keys, Prune(k) PROVE TypeInv'
    BY <2>6 DEF Prune, SomeoneCanWrite
  <2>7. ASSUME NEW w \in Procs, Crash(w) PROVE TypeInv'
    <3>1. tx' = NoTx \/ (tx' = tx /\ (tx = NoTx \/ HomeOf[tx.op] # w))
      BY <2>7 DEF Crash
    <3>2. \A op \in Ops : pc'[op] = pc[op] \/ (pc'[op] = "crashed" /\ HomeOf[op] = w)
      BY <2>7 DEF Crash
    <3>3. TypeOK'
      BY <2>7, <3>1 DEF Crash, Live
    <3>4. PlacesOK'
      BY <3>2, <2>7 DEF Crash
    <3>5. TxHasAnOwner'
      BY <3>1, <3>2, <2>7 DEF Crash
    <3> QED BY <3>3, <3>4, <3>5
  <2>8. CASE UNCHANGED vars
    BY <2>8 DEF vars
  <2> QED
    BY <2>1, <2>2, <2>3, <2>4, <2>5, <2>6, <2>7, <2>8 DEF Next
<1> QED
  BY <1>1, <1>2, PTL DEF Spec

\* Type correctness: every statement, failure and crash leaves each table and
\* each request in a state the code knows.
THEOREM TypeCorrect == Spec => []TypeOK
BY TypeInvariant, PTL DEF TypeInv

-----------------------------------------------------------------------------

\* A step that touches neither the money nor the accounts leaves the owner of an
\* open transaction where it stands.
LEMMA QuietStep ==
  ASSUME TypeInv, NEW r \in Orders,
         Arrive(r) \/ (Step(r) /\ ~ChargeUpdate(r))
  PROVE  UNCHANGED <<money, account>> /\ (~Idle => pc'[tx.op] = pc[tx.op])
<1> USE ConstantsAssumption
<1> USE DEF TypeInv, TypeOK, PlacesOK, TxHasAnOwner, Idle, CanWriteAt, CanWrite,
            Ops, NoTx, money, Goto
<1>1. CASE Arrive(r) BY <1>1 DEF Arrive
<1>2. CASE Reserve(r) BY <1>2 DEF Reserve
<1>3. CASE Collide(r) BY <1>3 DEF Collide
<1>4. CASE LookupMiss(r) BY <1>4 DEF LookupMiss
<1>5. CASE Refuse(r) BY <1>5 DEF Refuse
<1>6. CASE Replay(r) BY <1>6 DEF Replay
<1>7. CASE BuyNothing(r) BY <1>7 DEF BuyNothing
<1>8. CASE ChargeRefused(r) BY <1>8 DEF ChargeRefused
<1>9. CASE HandsOver(r) \/ Deliver(r) BY <1>9 DEF HandsOver, Deliver
<1>10. CASE SaleFails(r) \/ StoreFails(r) BY <1>10 DEF SaleFails, StoreFails, GiveUp
<1>11. CASE Abandon(r) BY <1>11 DEF Abandon
<1>12. CASE Tag(r) BY <1>12 DEF Tag
<1>13. CASE Finish(r) BY <1>13 DEF Finish
<1>14. CASE WriteFails(r) BY <1>14 DEF WriteFails, AfterFailure
<1> QED BY <1>1, <1>2, <1>3, <1>4, <1>5, <1>6, <1>7, <1>8, <1>9, <1>10, <1>11,
           <1>12, <1>13, <1>14 DEF Step

\* The balance and the ledger move together, by the movement of the request that
\* commits, and a pending charge stays covered.
LEMMA MoneyInvariant == Spec => []MoneyInv
<1> USE ConstantsAssumption
<1>1. Init => TxIsBalanced /\ LedgerAgrees
  BY DEF Init, TxIsBalanced, LedgerAgrees, Idle
<1>2. TypeInv /\ TypeInv' /\ TxIsBalanced /\ LedgerAgrees /\ [Next]_vars
        => TxIsBalanced' /\ LedgerAgrees'
  <2> SUFFICES ASSUME TypeInv, TypeInv', TxIsBalanced, LedgerAgrees, [Next]_vars
               PROVE  TxIsBalanced' /\ LedgerAgrees'
    OBVIOUS
  <2> USE DEF TypeInv, TypeOK, PlacesOK, TxHasAnOwner, Idle, CanWriteAt, CanWrite,
              Ops, NoTx, TxIsBalanced, LedgerAgrees, Movement
  <2>1. ASSUME NEW r \in Orders, Arrive(r) \/ (Step(r) /\ ~ChargeUpdate(r))
        PROVE  TxIsBalanced' /\ LedgerAgrees'
    <3>1. UNCHANGED <<money, account>> /\ (~Idle => pc'[tx.op] = pc[tx.op])
      BY <2>1, QuietStep
    <3> QED BY <3>1 DEF money
  <2>2. ASSUME NEW r \in Orders, ChargeUpdate(r) PROVE TxIsBalanced' /\ LedgerAgrees'
    BY <2>2 DEF ChargeUpdate, Covers
  <2>3. ASSUME NEW op \in Ops, CreditUpdate(op) PROVE TxIsBalanced' /\ LedgerAgrees'
    BY <2>3 DEF CreditUpdate
  <2>4. ASSUME NEW op \in Ops, LedgerInsert(op) PROVE TxIsBalanced' /\ LedgerAgrees'
    <3>1. /\ tx'.op = tx.op /\ tx'.credit = tx.credit /\ tx'.ledger = Movement(op)
          /\ op = tx.op
      BY <2>4 DEF LedgerInsert
    <3>2. tx # NoTx
      BY <2>4 DEF LedgerInsert
    <3>3. UNCHANGED <<credit, ledger, account, pc>>
      BY <2>4 DEF LedgerInsert
    <3> QED BY <3>1, <3>2, <3>3
  <2>5. ASSUME NEW op \in Ops, Commit(op) PROVE TxIsBalanced' /\ LedgerAgrees'
    <3>1. ~Idle /\ op = tx.op /\ tx.logged
      BY <2>5 DEF Commit
    <3>2. account[AdminOf[op]] # "deleted" => tx.credit = tx.ledger
      BY <3>1
    <3>3. TxIsBalanced'
      BY <2>5 DEF Commit
    <3>4. LedgerAgrees'
      BY <2>5, <3>2 DEF Commit
    <3> QED BY <3>3, <3>4
  <2>6. ASSUME NEW op \in Ops, TxFails(op) PROVE TxIsBalanced' /\ LedgerAgrees'
    BY <2>6 DEF TxFails
  <2>7. ASSUME NEW t \in Adjustments, AdjustCheck(t) PROVE TxIsBalanced' /\ LedgerAgrees'
    BY <2>7 DEF AdjustCheck, money, Goto
  <2>8. ASSUME NEW a \in Admins, SetCreditEnabled(a) \/ RemoveAdmin(a)
        PROVE  TxIsBalanced' /\ LedgerAgrees'
    BY <2>8 DEF SetCreditEnabled, RemoveAdmin, SomeoneCanWrite, money
  <2>9. ASSUME NEW k \in Keys, Prune(k) PROVE TxIsBalanced' /\ LedgerAgrees'
    BY <2>9 DEF Prune, money
  <2>10. ASSUME NEW w \in Procs, Crash(w) PROVE TxIsBalanced' /\ LedgerAgrees'
    <3>1. tx' = NoTx \/ (tx' = tx /\ (tx = NoTx \/ pc'[tx.op] = pc[tx.op]))
      BY <2>10 DEF Crash
    <3>2. UNCHANGED <<credit, ledger, account>>
      BY <2>10 DEF Crash
    <3> QED BY <3>1, <3>2
  <2>11. CASE UNCHANGED vars
    BY <2>11 DEF vars
  <2> QED
    BY <2>1, <2>2, <2>3, <2>4, <2>5, <2>6, <2>7, <2>8, <2>9, <2>10, <2>11
    DEF Next, TxStep, Step
<1> QED
  BY <1>1, <1>2, TypeInvariant, PTL DEF Spec, MoneyInv

\* The balance a purchase is checked against always equals what the ledger says,
\* whatever crashes, fails or is removed in the middle of a sale.
THEOREM LedgerAlwaysAgrees == Spec => []LedgerAgrees
BY MoneyInvariant, PTL DEF MoneyInv

\* Sales that overlap never overdraw an admin, as long as the owner only tops up
\* (a negative adjustment is decided on a balance that may be gone by then).
THEOREM NeverOverdrawn ==
  ASSUME \A t \in Adjustments : Amount[t] >= 0
  PROVE  Spec => []NoOverdraft
<1> USE ConstantsAssumption
<1>1. Init => NoOverdraft
  BY DEF Init, NoOverdraft
<1>2. MoneyInv /\ NoOverdraft /\ [Next]_vars => NoOverdraft'
  <2> SUFFICES ASSUME MoneyInv, NoOverdraft, [Next]_vars PROVE NoOverdraft'
    OBVIOUS
  <2>1. ASSUME NEW op \in Ops, Commit(op) PROVE NoOverdraft'
    <3>1. ~Idle /\ op = tx.op /\ tx.logged
      BY <2>1 DEF Commit, Idle, NoTx
    <3>2. credit[AdminOf[op]] + tx.credit >= 0
      BY <3>1 DEF MoneyInv, TypeInv, TypeOK, PlacesOK, TxHasAnOwner, TxIsBalanced,
                  Movement, NoOverdraft, Ops
    <3> QED BY <2>1, <3>2 DEF Commit, NoOverdraft, MoneyInv, TypeInv, TypeOK
  <2>2. CASE ~\E op \in Ops : Commit(op)
    <3>1. UNCHANGED credit
      BY <2>2 DEF Next, Step, TxStep, vars, money, Arrive, Reserve, Collide, LookupMiss,
        Refuse, Replay, BuyNothing, ChargeUpdate, Covers, ChargeRefused, HandsOver, Deliver, StoreFails, GiveUp, SaleFails,
        Abandon, Tag, Finish, WriteFails, CreditUpdate, LedgerInsert, TxFails,
        AdjustCheck, SetCreditEnabled, RemoveAdmin, Prune, Crash
    <3> QED BY <3>1 DEF NoOverdraft
  <2> QED BY <2>1, <2>2
<1> QED
  BY <1>1, <1>2, MoneyInvariant, PTL DEF Spec

-----------------------------------------------------------------------------

\* The order of charge, sale, reversal and answer: goods follow the money, and an
\* order is only abandoned once its reversal has been tried.
LEMMA SaleInvariant == Spec => [](SaleInv /\ ReversalLands)
<1> USE ConstantsAssumption
<1> USE DEF SaleInv, ReversalLands
<1>1. Init => SaleInv /\ ReversalLands
  BY DEF Init, Ops
<1>2. TypeInv /\ SaleInv /\ ReversalLands /\ [Next]_vars => SaleInv' /\ ReversalLands'
  <2> SUFFICES ASSUME TypeInv, SaleInv, ReversalLands, [Next]_vars
               PROVE  SaleInv' /\ ReversalLands'
    OBVIOUS
  <2> USE DEF TypeInv, TypeOK, Ops, Running, Terminal, Goto, money, history
  <2>1. ASSUME NEW r \in Orders, Arrive(r) PROVE SaleInv' /\ ReversalLands'
    BY <2>1 DEF Arrive
  <2>2. ASSUME NEW r \in Orders, Step(r) PROVE SaleInv' /\ ReversalLands'
    <3>1. CASE Reserve(r) BY <3>1 DEF Reserve
    <3>2. CASE Collide(r) BY <3>2 DEF Collide
    <3>3. CASE LookupMiss(r) BY <3>3 DEF LookupMiss
    <3>4. CASE Refuse(r) BY <3>4 DEF Refuse
    <3>5. CASE Replay(r) BY <3>5 DEF Replay
    <3>6. CASE BuyNothing(r) BY <3>6 DEF BuyNothing
    <3>7. CASE ChargeUpdate(r) BY <3>7 DEF ChargeUpdate
    <3>8. CASE ChargeRefused(r) BY <3>8 DEF ChargeRefused
    <3>9. CASE HandsOver(r) \/ Deliver(r) BY <3>9 DEF HandsOver, Deliver
    <3>10. CASE SaleFails(r) \/ StoreFails(r) BY <3>10 DEF SaleFails, StoreFails, GiveUp
    <3>11. CASE Abandon(r) BY <3>11 DEF Abandon
    <3>12. CASE Tag(r) BY <3>12 DEF Tag
    <3>13. CASE Finish(r) BY <3>13 DEF Finish
    <3>14. CASE WriteFails(r) BY <3>14 DEF WriteFails, AfterFailure
    <3> QED BY <2>2, <3>1, <3>2, <3>3, <3>4, <3>5, <3>6, <3>7, <3>8, <3>9,
               <3>10, <3>11, <3>12, <3>13, <3>14 DEF Step
  <2>3. ASSUME NEW op \in Ops, TxStep(op) PROVE SaleInv' /\ ReversalLands'
    <3>1. CASE CreditUpdate(op) BY <3>1 DEF CreditUpdate
    <3>2. CASE LedgerInsert(op) BY <3>2 DEF LedgerInsert
    <3>3. CASE Commit(op)
      <4>1. /\ op = tx.op /\ pc[op] \in {"buy", "reverse", "adjust"}
            /\ pc[op] = "buy" => op \in Orders /\ pays[op]
        BY <3>3 DEF Commit, TxHasAnOwner, Idle, NoTx, PlacesOK
      <4>2. CASE pc[op] = "buy"
        BY <3>3, <4>1, <4>2 DEF Commit, AfterCommit, PaidAfterCommit
      <4>3. CASE pc[op] = "reverse"
        BY <3>3, <4>3 DEF Commit, AfterCommit, PaidAfterCommit
      <4>4. CASE pc[op] = "adjust"
        BY <3>3, <4>4 DEF Commit, AfterCommit, PaidAfterCommit, PlacesOK
      <4> QED BY <4>1, <4>2, <4>3, <4>4
    <3>4. CASE TxFails(op)
      BY <3>4 DEF TxFails, TxHasAnOwner, PlacesOK, Idle, NoTx
    <3> QED BY <2>3, <3>1, <3>2, <3>3, <3>4 DEF TxStep
  <2>4. ASSUME NEW t \in Adjustments, AdjustCheck(t) PROVE SaleInv' /\ ReversalLands'
    BY <2>4 DEF AdjustCheck
  <2>5. ASSUME NEW a \in Admins, SetCreditEnabled(a) \/ RemoveAdmin(a)
        PROVE  SaleInv' /\ ReversalLands'
    BY <2>5 DEF SetCreditEnabled, RemoveAdmin
  <2>6. ASSUME NEW k \in Keys, Prune(k) PROVE SaleInv' /\ ReversalLands'
    BY <2>6 DEF Prune
  <2>7. ASSUME NEW w \in Procs, Crash(w) PROVE SaleInv' /\ ReversalLands'
    BY <2>7 DEF Crash
  <2>8. CASE UNCHANGED vars
    BY <2>8 DEF vars
  <2> QED
    BY <2>1, <2>2, <2>3, <2>4, <2>5, <2>6, <2>7, <2>8 DEF Next
<1> QED
  BY <1>1, <1>2, TypeInvariant, PTL DEF Spec

\* What Outline has of a paying order is paid for at every moment, through failed calls,
\* answers that get lost, failed statements and crashes, until the order is given up.
THEOREM GoodsArePaidFor == Spec => []NoFreeGoods
<1>1. SaleInv /\ TypeInv => NoFreeGoods
  BY DEF SaleInv, NoFreeGoods, TypeInv, TypeOK
<1> QED BY <1>1, SaleInvariant, TypeInvariant, PTL

\* While no statement fails, a request answered with an error has cost nothing.
THEOREM FailuresAreFree == ASSUME ~DbMayFail PROVE Spec => []FailureIsFree
<1>1. ReversalLands => FailureIsFree
  BY DEF ReversalLands, FailureIsFree
<1> QED BY <1>1, SaleInvariant, PTL

-----------------------------------------------------------------------------

\* The reservation: as long as every attempt under a key found the row it
\* collided with, the key's row belongs to the one order that is past the claim,
\* and the answer stored in it is that order's.
RowInv == RowIsHeld /\ AnswerInv

LEMMA RowInvariant == Spec => []RowInv
<1> USE ConstantsAssumption
<1> USE DEF RowInv, RowIsHeld, AnswerInv, Undisturbed, Holds, Past
<1>1. Init => RowInv
  BY DEF Init, Ops, NoRow
<1>2. TypeInv /\ SaleInv /\ RowInv /\ [Next]_vars => RowInv'
  <2> SUFFICES ASSUME TypeInv, SaleInv, RowInv, [Next]_vars PROVE RowInv'
    OBVIOUS
  <2> USE DEF TypeInv, TypeOK, PlacesOK, Ops, Running, Terminal, Goto, money, history, NoRow
  <2>1. ASSUME NEW r \in Orders, Arrive(r) PROVE RowInv'
    BY <2>1 DEF Arrive
  <2>2. ASSUME NEW r \in Orders, Step(r) PROVE RowInv'
    <3>1. CASE Reserve(r) BY <3>1 DEF Reserve
    <3>2. CASE Collide(r) BY <3>2 DEF Collide
    <3>3. CASE LookupMiss(r) BY <3>3 DEF LookupMiss
    <3>4. CASE Refuse(r) BY <3>4 DEF Refuse
    <3>5. CASE Replay(r) BY <3>5 DEF Replay
    <3>6. CASE BuyNothing(r) BY <3>6 DEF BuyNothing
    <3>7. CASE ChargeUpdate(r) BY <3>7 DEF ChargeUpdate
    <3>8. CASE ChargeRefused(r) BY <3>8 DEF ChargeRefused
    <3>9. CASE HandsOver(r) \/ Deliver(r) BY <3>9 DEF HandsOver, Deliver
    <3>10. CASE SaleFails(r) \/ StoreFails(r) BY <3>10 DEF SaleFails, StoreFails, GiveUp
    <3>11. CASE Abandon(r) BY <3>11 DEF Abandon
    <3>12. CASE Tag(r) BY <3>12 DEF Tag
    <3>13. CASE Finish(r) BY <3>13 DEF Finish, Answered, SaleInv
    <3>14. CASE WriteFails(r) BY <3>14 DEF WriteFails, AfterFailure
    <3> QED BY <2>2, <3>1, <3>2, <3>3, <3>4, <3>5, <3>6, <3>7, <3>8, <3>9,
               <3>10, <3>11, <3>12, <3>13, <3>14 DEF Step
  <2>3. ASSUME NEW op \in Ops, TxStep(op) PROVE RowInv'
    <3>1. CASE CreditUpdate(op) BY <3>1 DEF CreditUpdate
    <3>2. CASE LedgerInsert(op) BY <3>2 DEF LedgerInsert
    <3>3. CASE Commit(op)
      BY <3>3 DEF Commit, AfterCommit, TxHasAnOwner, Idle, NoTx
    <3>4. CASE TxFails(op)
      BY <3>4 DEF TxFails, TxHasAnOwner, Idle, NoTx
    <3> QED BY <2>3, <3>1, <3>2, <3>3, <3>4 DEF TxStep
  <2>4. ASSUME NEW t \in Adjustments, AdjustCheck(t) PROVE RowInv'
    BY <2>4 DEF AdjustCheck
  <2>5. ASSUME NEW a \in Admins, SetCreditEnabled(a) \/ RemoveAdmin(a) PROVE RowInv'
    BY <2>5 DEF SetCreditEnabled, RemoveAdmin
  <2>6. ASSUME NEW k \in Keys, Prune(k) PROVE RowInv'
    BY <2>6 DEF Prune
  <2>7. ASSUME NEW w \in Procs, Crash(w) PROVE RowInv'
    BY <2>7 DEF Crash
  <2>8. CASE UNCHANGED vars
    BY <2>8 DEF vars
  <2> QED
    BY <2>1, <2>2, <2>3, <2>4, <2>5, <2>6, <2>7, <2>8 DEF Next
<1> QED
  BY <1>1, <1>2, TypeInvariant, SaleInvariant, PTL DEF Spec

\* A charge that landed keeps its row, so no retry can charge again: while no
\* statement fails, under every key whose attempts found the row they met.
THEOREM ChargesKeepTheirRow == ASSUME ~DbMayFail PROVE Spec => []ChargeKeepsItsRow
<1> USE ConstantsAssumption
<1> USE DEF ChargeKeepsItsRow, Undisturbed, Holds
<1>1. Init => ChargeKeepsItsRow
  BY DEF Init
<1>2. TypeInv /\ ReversalLands /\ RowInv /\ ChargeKeepsItsRow /\ [Next]_vars
        => ChargeKeepsItsRow'
  <2> SUFFICES ASSUME TypeInv, ReversalLands, RowInv, ChargeKeepsItsRow, [Next]_vars
               PROVE  ChargeKeepsItsRow'
    OBVIOUS
  <2> USE DEF TypeInv, TypeOK, Ops, money, history, NoRow, RowInv, RowIsHeld, Past
  <2>1. ASSUME NEW r \in Orders, Reserve(r) PROVE ChargeKeepsItsRow'
    BY <2>1 DEF Reserve
  <2>2. ASSUME NEW r \in Orders, Abandon(r) PROVE ChargeKeepsItsRow'
    BY <2>2 DEF Abandon, ReversalLands
  <2>3. ASSUME NEW r \in Orders, Finish(r) PROVE ChargeKeepsItsRow'
    BY <2>3 DEF Finish, Answered
  <2>4. ASSUME NEW k \in Keys, Prune(k) PROVE ChargeKeepsItsRow'
    BY <2>4 DEF Prune
  <2>5. ASSUME NEW op \in Ops, Commit(op) PROVE ChargeKeepsItsRow'
    <3>1. op = tx.op /\ pc[op] \in {"buy", "reverse", "adjust"}
      BY <2>5 DEF Commit, TxHasAnOwner, Idle, NoTx
    <3>2. UNCHANGED <<rows, unreserved, pruned>>
      BY <2>5 DEF Commit
    <3>3. paid' \subseteq paid \/ (pc[op] = "buy" /\ paid' = paid \cup {op})
      BY <2>5, <3>1 DEF Commit, PaidAfterCommit
    <3>4. pc[op] = "buy" => op \in Orders
      BY DEF PlacesOK, Terminal
    <3>5. CASE pc[op] = "buy" /\ paid' = paid \cup {op}
      <4>1. Holds(op) /\ Undisturbed(KeyOf[op]) =>
              rows[KeyOf[op]].st # "none" /\ rows[KeyOf[op]].by = op
        BY <3>4, <3>5
      <4> QED BY <3>2, <3>5, <4>1
    <3>6. CASE paid' \subseteq paid
      BY <3>2, <3>6
    <3> QED BY <3>3, <3>5, <3>6
  <2>6. CASE UNCHANGED <<paid, rows>> /\ unreserved \subseteq unreserved' /\ UNCHANGED pruned
    BY <2>6
  <2> QED
    BY <2>1, <2>2, <2>3, <2>4, <2>5, <2>6 DEF Next, Step, TxStep, vars, Arrive, Collide,
      LookupMiss, Refuse, Replay, BuyNothing, ChargeUpdate, Covers, ChargeRefused, HandsOver,
      Deliver, StoreFails, GiveUp, SaleFails, Tag, WriteFails, CreditUpdate, LedgerInsert, TxFails, AdjustCheck,
      SetCreditEnabled, RemoveAdmin, Crash
<1> QED
  BY <1>1, <1>2, TypeInvariant, SaleInvariant, RowInvariant, PTL DEF Spec

\* A replay answers with the result of an order for the same thing, delivered.
THEOREM ReplaysAreHonest == Spec => []ReplayIsTheSameSale
<1> USE ConstantsAssumption
<1> USE DEF ReplayIsTheSameSale, Undisturbed
<1>1. Init => ReplayIsTheSameSale
  BY DEF Init, Ops
<1>2. TypeInv /\ RowInv /\ ReplayIsTheSameSale /\ [Next]_vars => ReplayIsTheSameSale'
  <2> SUFFICES ASSUME TypeInv, RowInv, ReplayIsTheSameSale, [Next]_vars
               PROVE  ReplayIsTheSameSale'
    OBVIOUS
  <2> USE DEF TypeInv, TypeOK, Ops, history, money, Goto
  <2>1. ASSUME NEW r \in Orders, Replay(r) PROVE ReplayIsTheSameSale'
    BY <2>1 DEF Replay, SameOrder, RowInv, AnswerInv, PlacesOK, Holds, Undisturbed
  <2>2. ASSUME NEW r \in Orders, Finish(r) PROVE ReplayIsTheSameSale'
    BY <2>2 DEF Finish
  <2>3. ASSUME NEW r \in Orders, WriteFails(r) PROVE ReplayIsTheSameSale'
    BY <2>3 DEF WriteFails, AfterFailure
  <2>4. CASE /\ UNCHANGED reply
             /\ \A r \in Orders : pc'[r] = "replayed" => pc[r] = "replayed"
             /\ delivered \subseteq delivered'
             /\ unreserved \subseteq unreserved' /\ pruned \subseteq pruned'
    BY <2>4
  <2>5. ASSUME NEW r \in Orders, Arrive(r) \/ (Step(r) /\ ~Replay(r) /\ ~Finish(r)
                                                       /\ ~WriteFails(r))
        PROVE  ReplayIsTheSameSale'
    BY <2>4, <2>5 DEF Step, Arrive, Reserve, Collide, LookupMiss, Refuse, BuyNothing,
      ChargeUpdate, Covers, ChargeRefused, HandsOver, Deliver, StoreFails, GiveUp, SaleFails, Abandon, Tag
  <2>6. ASSUME NEW op \in Ops, TxStep(op) PROVE ReplayIsTheSameSale'
    BY <2>4, <2>6 DEF TxStep, CreditUpdate, LedgerInsert, Commit, AfterCommit, TxFails
  <2>7. CASE \E t \in Adjustments : AdjustCheck(t)
    BY <2>4, <2>7 DEF AdjustCheck
  <2>8. CASE \E a \in Admins : SetCreditEnabled(a) \/ RemoveAdmin(a)
    BY <2>4, <2>8 DEF SetCreditEnabled, RemoveAdmin
  <2>9. CASE (\E k \in Keys : Prune(k)) \/ (\E w \in Procs : Crash(w)) \/ UNCHANGED vars
    BY <2>4, <2>9 DEF Prune, Crash, vars
  <2> QED
    BY <2>1, <2>2, <2>3, <2>5, <2>6, <2>7, <2>8, <2>9 DEF Next
<1> QED
  BY <1>1, <1>2, TypeInvariant, RowInvariant, PTL DEF Spec

\* What Outline has keeps its row, even where reversals may fail: only an order that was
\* answered with an error has let go of it.
GoodsKeepTheirRow ==
  \A r \in out : Holds(r) /\ Undisturbed(KeyOf[r]) /\ pc[r] # "failed" =>
     rows[KeyOf[r]].st # "none" /\ rows[KeyOf[r]].by = r

LEMMA GoodsKeepRows == Spec => []GoodsKeepTheirRow
<1> USE ConstantsAssumption
<1> USE DEF GoodsKeepTheirRow, Undisturbed, Holds
<1>1. Init => GoodsKeepTheirRow
  BY DEF Init
<1>2. TypeInv /\ SaleInv /\ RowInv /\ GoodsKeepTheirRow /\ [Next]_vars => GoodsKeepTheirRow'
  <2> SUFFICES ASSUME TypeInv, SaleInv, RowInv, GoodsKeepTheirRow, [Next]_vars
               PROVE  GoodsKeepTheirRow'
    OBVIOUS
  <2> USE DEF TypeInv, TypeOK, Ops, money, history, NoRow, RowInv, RowIsHeld, Past, Goto
  <2>1. ASSUME NEW r \in Orders, Reserve(r) PROVE GoodsKeepTheirRow'
    BY <2>1 DEF Reserve
  <2>2. ASSUME NEW r \in Orders, Abandon(r) PROVE GoodsKeepTheirRow'
    BY <2>2 DEF Abandon
  <2>3. ASSUME NEW r \in Orders, Finish(r) PROVE GoodsKeepTheirRow'
    BY <2>3 DEF Finish, Answered
  <2>4. ASSUME NEW k \in Keys, Prune(k) PROVE GoodsKeepTheirRow'
    BY <2>4 DEF Prune
  <2>5. ASSUME NEW r \in Orders, HandsOver(r) \/ SaleFails(r) PROVE GoodsKeepTheirRow'
    <3>1. /\ pc[r] = "sell" /\ out' \subseteq out \cup {r}
          /\ UNCHANGED <<rows, unreserved, pruned>>
          /\ \A q \in Orders : q # r => pc'[q] = pc[q]
      BY <2>5 DEF HandsOver, SaleFails, GiveUp
    <3> QED BY <3>1
  <2>6. CASE /\ out' \subseteq out /\ UNCHANGED rows
             /\ \A q \in Orders : pc[q] = "failed" => pc'[q] = "failed"
             /\ unreserved \subseteq unreserved' /\ UNCHANGED pruned
    BY <2>6
  <2>7. ASSUME NEW r \in Orders,
               \/ Arrive(r)
               \/ Step(r) /\ ~Reserve(r) /\ ~Abandon(r) /\ ~Finish(r)
                          /\ ~HandsOver(r) /\ ~SaleFails(r)
        PROVE  GoodsKeepTheirRow'
    BY <2>6, <2>7 DEF Step, Arrive, Collide, LookupMiss, Refuse, Replay, BuyNothing,
      ChargeUpdate, Covers, ChargeRefused, Deliver, StoreFails, GiveUp, Tag, WriteFails
  <2>8. ASSUME NEW op \in Ops, TxStep(op) PROVE GoodsKeepTheirRow'
    <3>1. \A q \in Orders : pc[q] = "failed" => pc'[q] = "failed"
      BY <2>8 DEF TxStep, CreditUpdate, LedgerInsert, Commit, TxFails, TxHasAnOwner, Idle, NoTx
    <3> QED BY <2>6, <2>8, <3>1 DEF TxStep, CreditUpdate, LedgerInsert, Commit, TxFails
  <2>9. CASE \/ \E t \in Adjustments : AdjustCheck(t)
             \/ \E a \in Admins : SetCreditEnabled(a) \/ RemoveAdmin(a)
             \/ UNCHANGED vars
    BY <2>6, <2>9 DEF AdjustCheck, SetCreditEnabled, RemoveAdmin, vars
  <2>10. ASSUME NEW w \in Procs, Crash(w) PROVE GoodsKeepTheirRow'
    BY <2>6, <2>10 DEF Crash, Live, Running
  <2> QED
    BY <2>1, <2>2, <2>3, <2>4, <2>5, <2>7, <2>8, <2>9, <2>10 DEF Next
<1> QED
  BY <1>1, <1>2, TypeInvariant, SaleInvariant, RowInvariant, PTL DEF Spec

\* One key, one sale: what the idempotency of a purchase is for.
THEOREM KeysSellOnce == Spec => []OneSalePerKey
<1>1. TypeInv /\ GoodsKeepTheirRow => GoodsComeOnce
  BY DEF GoodsKeepTheirRow, GoodsComeOnce, Holds
<1>2. ReplayIsTheSameSale /\ GoodsComeOnce => OneSalePerKey
  BY DEF OneSalePerKey
<1> QED BY <1>1, <1>2, ReplaysAreHonest, GoodsKeepRows, TypeInvariant, PTL

\* With one process the row cannot go between the INSERT that collides and the
\* SELECT queued right behind it: two attempts are never both past the claim.
THEOREM OneProcessReserves ==
  ASSUME \A v, w \in Procs : v = w
  PROVE  Spec => []TwoRetriesCannotBothProceed
<1> USE ConstantsAssumption
<1> DEFINE Found == /\ unreserved = {}
                    /\ \A r \in Orders : pc[r] = "lookup" => rows[KeyOf[r]].st # "none"
<1>1. Init => Found
  BY DEF Init, Ops
<1>2. TypeInv /\ Found /\ [Next]_vars => Found'
  <2> SUFFICES ASSUME TypeInv, Found, [Next]_vars PROVE Found'
    OBVIOUS
  <2> USE DEF TypeInv, TypeOK, Ops, history, money, Goto, NoRow, CanWrite, CanWriteAt
  <2>1. ASSUME NEW r \in Orders, Abandon(r) PROVE Found'
    BY <2>1 DEF Abandon, PlacesOK, Holds
  <2>2. ASSUME NEW k \in Keys, Prune(k) PROVE Found'
    BY <2>2 DEF Prune, SomeoneCanWrite, PlacesOK, Holds
  <2>3. ASSUME NEW r \in Orders, Finish(r) PROVE Found'
    BY <2>3 DEF Finish, Answered, PlacesOK, Holds
  <2>4. ASSUME NEW r \in Orders, Reserve(r) \/ Collide(r) \/ LookupMiss(r) PROVE Found'
    BY <2>4 DEF Reserve, Collide, LookupMiss
  <2>5. CASE /\ UNCHANGED <<rows, unreserved>>
             /\ \A r \in Orders : pc'[r] = "lookup" => pc[r] = "lookup"
    BY <2>5
  <2>6. ASSUME NEW r \in Orders, Arrive(r) \/ Refuse(r) \/ Replay(r) \/ BuyNothing(r)
                \/ ChargeUpdate(r) \/ ChargeRefused(r) \/ HandsOver(r) \/ Deliver(r) \/ SaleFails(r)
                \/ StoreFails(r) \/ Tag(r) \/ WriteFails(r)
        PROVE  Found'
    BY <2>5, <2>6 DEF Arrive, Refuse, Replay, BuyNothing, ChargeUpdate, Covers, ChargeRefused,
      HandsOver, Deliver, StoreFails, GiveUp, SaleFails, Tag, WriteFails, AfterFailure
  <2>7. ASSUME NEW op \in Ops, TxStep(op) PROVE Found'
    BY <2>5, <2>7 DEF TxStep, CreditUpdate, LedgerInsert, Commit, AfterCommit, TxFails
  <2>8. CASE \E t \in Adjustments : AdjustCheck(t)
    BY <2>5, <2>8 DEF AdjustCheck
  <2>9. CASE \/ \E a \in Admins : SetCreditEnabled(a) \/ RemoveAdmin(a)
             \/ \E w \in Procs : Crash(w)
             \/ UNCHANGED vars
    BY <2>5, <2>9 DEF SetCreditEnabled, RemoveAdmin, Crash, vars
  <2> QED
    BY <2>1, <2>2, <2>3, <2>4, <2>6, <2>7, <2>8, <2>9 DEF Next, Step
<1>3. Found /\ RowInv => TwoRetriesCannotBothProceed
  BY DEF RowInv, RowIsHeld, Past, Undisturbed, Holds, TwoRetriesCannotBothProceed
<1> QED
  BY <1>1, <1>2, <1>3, TypeInvariant, RowInvariant, PTL DEF Spec

-----------------------------------------------------------------------------
(* Purchase implements Till *)

Sale == [r \in Orders |-> SaleOf(r)]
Granted == {t \in Adjustments : pc[t] = "ok"}
Closed == {a \in Admins : account[a] = "deleted"}
TillStep == [Abstract!TillNext]_(Abstract!tillVars)

\* A step that changes neither a balance nor what became of an order is no step
\* of the till.
LEMMA TillStutters ==
  ASSUME UNCHANGED <<credit, Sale, Granted, Closed>>
  PROVE  TillStep
BY DEF TillStep, Abstract!tillVars, Sale, Granted, Closed

\* Orders that end unpaid are dropped, some of them with their goods out.
LEMMA TillDrops ==
  ASSUME UNCHANGED <<credit, Granted, Closed>>,
         NEW S \in SUBSET Orders, \A r \in S : SaleOf(r) = "open",
         \A r \in S : SaleOf(r)' \in {"void", "leaked"},
         \A r \in Orders \ S : SaleOf(r)' = SaleOf(r)
  PROVE  TillStep
<1> DEFINE L == {r \in S : SaleOf(r)' = "leaked"}
<1>1. L \in SUBSET Orders
  OBVIOUS
<1>2. \A r \in Orders : SaleOf(r)' = IF r \notin S THEN SaleOf(r)
                                     ELSE IF r \in L THEN "leaked" ELSE "void"
  OBVIOUS
<1> HIDE DEF L
<1>3. Abstract!Drop(S, L)
  BY <1>2 DEF Abstract!Drop, Granted, Closed
<1> QED BY <1>1, <1>3 DEF TillStep, Abstract!TillNext

\* What an order of a request changes is the request's own sale.
LEMMA OwnSale ==
  ASSUME NEW r \in Orders, TypeInv, NEW there, Goto(r, there),
         paid' \subseteq paid \cup {r}, paid \subseteq paid' \cup {r},
         out' \subseteq out \cup {r}, out \subseteq out' \cup {r},
         delivered' \subseteq delivered \cup {r}, delivered \subseteq delivered'
  PROVE  \A q \in Orders : q # r => SaleOf(q)' = SaleOf(q)
BY DEF SaleOf, Goto, TypeInv, TypeOK, Ops

\* The statements of a request before, between and after its movements of money.
LEMMA RequestRefines ==
  ASSUME TypeInv, SaleInv, NEW r \in Orders, Arrive(r) \/ Step(r)
  PROVE  TillStep
<1> USE ConstantsAssumption
<1> USE DEF TypeInv, TypeOK, Ops, money, history
<1>1. CASE ChargeUpdate(r)
  BY <1>1, TillStutters DEF ChargeUpdate, Covers, Sale, SaleOf, Granted, Closed
<1>2. CASE Deliver(r)
  <2>1. UNCHANGED <<credit, Granted, Closed>>
    BY <1>2 DEF Deliver, Granted, Closed, Goto
  <2>2. \A q \in Orders : q # r => SaleOf(q)' = SaleOf(q)
    BY <1>2, OwnSale DEF Deliver
  <2>3. CASE r \in paid
    <3>1. SaleOf(r) = "held" /\ SaleOf(r)' = "sold"
      BY <1>2, <2>3 DEF Deliver, SaleOf, SaleInv
    <3>2. Sale[r] = SaleOf(r) /\ Sale' = [Sale EXCEPT ![r] = "sold"]
      BY <2>2, <3>1 DEF Sale
    <3>3. Abstract!HandOver(r)
      BY <2>1, <3>1, <3>2 DEF Abstract!HandOver, Abstract!Becomes, Sale, Granted, Closed
    <3> QED BY <3>3 DEF TillStep, Abstract!TillNext
  <2>4. CASE r \notin paid
    <3>1. SaleOf(r) = "open" /\ SaleOf(r)' = "given"
      BY <1>2, <2>4 DEF Deliver, SaleOf, SaleInv, Terminal
    <3>2. Sale[r] = SaleOf(r) /\ Sale' = [Sale EXCEPT ![r] = "given"]
      BY <2>2, <3>1 DEF Sale
    <3>3. Abstract!Give(r)
      BY <2>1, <3>1, <3>2 DEF Abstract!Give, Abstract!Becomes, Sale, Granted, Closed
    <3> QED BY <3>3 DEF TillStep, Abstract!TillNext
  <2> QED BY <2>3, <2>4
<1>3. CASE ~ChargeUpdate(r) /\ ~Deliver(r)
  <2> DEFINE there == pc'[r]
  <2>1. /\ UNCHANGED <<credit, account, paid, delivered>> /\ Goto(r, there)
        /\ out' \subseteq out \cup {r} /\ out \subseteq out' \cup {r}
        /\ pc[r] \in {"abandon"} \cup Terminal => out' = out
        /\ \/ /\ pc[r] \in {"idle", "claim", "lookup", "buy", "sell", "store"}
              /\ there \in {"claim", "lookup", "buy", "sell", "store", "reverse",
                            "refused", "replayed", "abandon", "error"}
           \/ pc[r] = "abandon" /\ there = "failed"
           \/ pc[r] \in {"tag", "finish"} /\ there \in {"finish", "ok", "error"}
        /\ there = "reverse" => r \in paid
    BY <1>3 DEF Step, Arrive, Reserve, Collide, LookupMiss, Refuse, Replay,
      BuyNothing, ChargeRefused, HandsOver, SaleFails, StoreFails, GiveUp, Abandon, Tag,
      Finish, WriteFails, AfterFailure, Goto, SaleInv, Terminal
  <2>2. UNCHANGED <<credit, Granted, Closed>>
    BY <2>1 DEF Granted, Closed, Goto
  <2>3. \A q \in Orders : q # r => SaleOf(q)' = SaleOf(q)
    BY <2>1, OwnSale
  <2>4. SaleOf(r)' = SaleOf(r) \/ (SaleOf(r) = "open" /\ SaleOf(r)' \in {"void", "leaked"})
    BY <2>1 DEF SaleOf, SaleInv, Goto, Terminal
  <2>5. CASE SaleOf(r)' = SaleOf(r)
    BY <2>2, <2>3, <2>5, TillStutters DEF Sale
  <2>6. CASE SaleOf(r) = "open" /\ SaleOf(r)' \in {"void", "leaked"}
    <3>1. \A q \in Orders \ {r} : SaleOf(q)' = SaleOf(q)
      BY <2>3
    <3>2. /\ {r} \in SUBSET Orders /\ \A q \in {r} : SaleOf(q) = "open"
          /\ \A q \in {r} : SaleOf(q)' \in {"void", "leaked"}
      BY <2>6
    <3> HIDE DEF TypeInv, TypeOK, Ops, money, history
    <3> QED BY <2>2, <3>1, <3>2, TillDrops
  <2> QED BY <2>4, <2>5, <2>6
<1> QED BY <1>1, <1>2, <1>3

\* A commit is the one moment the till sees of a transaction.
LEMMA CommitRefines ==
  ASSUME MoneyInv, SaleInv, NEW op \in Ops, Commit(op)
  PROVE  TillStep
<1> USE ConstantsAssumption
<1> USE DEF MoneyInv, TypeInv, TypeOK, PlacesOK, TxIsBalanced, Ops, Terminal
<1> DEFINE a == AdminOf[op]
<1>1. /\ ~Idle /\ op = tx.op /\ a \in Admins
      /\ pc[op] \in {"buy", "reverse", "adjust"}
      /\ pc[op] = "adjust" <=> op \in Adjustments
      /\ pc[op] # "adjust" => op \in Orders
  BY DEF Commit, TxHasAnOwner, Idle, NoTx
<1>2. /\ tx.credit = IF a \in Closed THEN 0 ELSE Movement(op)
      /\ credit' = IF a \in Closed THEN credit
                   ELSE [credit EXCEPT ![a] = @ + Movement(op)]
      /\ UNCHANGED <<Closed, out, delivered, pays>>
      /\ Goto(op, AfterCommit(op))
  <2>1. a \in Closed <=> account[a] = "deleted"
    BY <1>1 DEF Closed
  <2>2. tx.credit = IF a \in Closed THEN 0 ELSE Movement(op)
    BY <1>1, <2>1
  <2>3. UNCHANGED <<Closed, out, delivered, pays>> /\ Goto(op, AfterCommit(op))
    BY DEF Commit, Closed, history
  <2>4. credit' = [credit EXCEPT ![a] = @ + tx.credit]
    BY DEF Commit
  <2>5. a \in Closed => credit' = credit
    BY <1>1, <2>2, <2>4
  <2> QED BY <2>2, <2>3, <2>4, <2>5
<1>3. CASE pc[op] = "buy"
  <2>1. paid' = paid \cup {op} /\ AfterCommit(op) = "sell" /\ Movement(op) = -Amount[op]
    BY <1>1, <1>3 DEF Commit, PaidAfterCommit, AfterCommit, Movement
  <2>2. Granted' = Granted
    BY <1>1, <1>2, <1>3, <2>1 DEF Granted, Goto
  <2>3. \A q \in Orders : q # op => SaleOf(q)' = SaleOf(q)
    BY <1>1, <1>2, <1>3, <2>1, OwnSale
  <2>4. op \in Orders /\ SaleOf(op) = "open" /\ SaleOf(op)' = "held"
    BY <1>1, <1>2, <1>3, <2>1 DEF SaleOf, SaleInv, Goto
  <2>5. Sale[op] = SaleOf(op) /\ Sale' = [Sale EXCEPT ![op] = "held"]
    BY <2>3, <2>4 DEF Sale
  <2>6. a \notin Closed /\ credit[a] >= Amount[op]
    BY <1>1, <1>3 DEF Closed
  <2>7. Abstract!Take(op)
    BY <1>2, <2>1, <2>2, <2>4, <2>5, <2>6
    DEF Abstract!Take, Abstract!Becomes, Abstract!Move, Sale, Granted, Closed
  <2> QED BY <2>4, <2>7 DEF TillStep, Abstract!TillNext
<1>4. CASE pc[op] = "reverse"
  <2>1. paid' = paid \ {op} /\ AfterCommit(op) = "abandon" /\ Movement(op) = Amount[op]
    BY <1>1, <1>4 DEF Commit, PaidAfterCommit, AfterCommit, Movement
  <2>2. Granted' = Granted
    BY <1>1, <1>2, <1>4, <2>1 DEF Granted, Goto
  <2>3. \A q \in Orders : q # op => SaleOf(q)' = SaleOf(q)
    BY <1>1, <1>2, <1>4, <2>1, OwnSale
  <2> DEFINE end == SaleOf(op)'
  <2>4. op \in Orders /\ SaleOf(op) = "held" /\ end \in {"void", "leaked"}
    BY <1>1, <1>2, <1>4, <2>1 DEF SaleOf, SaleInv, Goto
  <2>5. Sale[op] = SaleOf(op) /\ Sale' = [Sale EXCEPT ![op] = end]
    BY <2>3, <2>4 DEF Sale
  <2> HIDE DEF end
  <2>6. Abstract!GiveBack(op)
    BY <1>2, <2>1, <2>2, <2>4, <2>5
    DEF Abstract!GiveBack, Abstract!Becomes, Abstract!Move, Sale, Granted, Closed
  <2> QED BY <2>4, <2>6 DEF TillStep, Abstract!TillNext
<1>5. CASE pc[op] = "adjust"
  <2>1. paid' = paid /\ AfterCommit(op) = "ok" /\ Movement(op) = Amount[op]
    BY <1>1, <1>5 DEF Commit, PaidAfterCommit, AfterCommit, Movement
  <2>2. op \notin Granted /\ Granted' = Granted \cup {op} /\ op \in Adjustments
    BY <1>1, <1>2, <1>5, <2>1 DEF Granted, Goto
  <2>3. Sale' = Sale
    BY <1>1, <1>2, <1>5, <2>1 DEF Sale, SaleOf, Goto
  <2>4. Abstract!Grant(op)
    BY <1>2, <2>1, <2>2, <2>3 DEF Abstract!Grant, Abstract!Move, Sale, Granted, Closed
  <2> QED BY <2>2, <2>4 DEF TillStep, Abstract!TillNext
<1> QED BY <1>1, <1>3, <1>4, <1>5

\* A failed statement ends a charge before the till has seen it, and loses a
\* reversal: the till still holds the money.
LEMMA FailureRefines ==
  ASSUME TypeInv, SaleInv, NEW op \in Ops, TxFails(op)
  PROVE  TillStep
<1> USE ConstantsAssumption
<1> USE DEF TypeInv, TypeOK, PlacesOK, Ops, Terminal
<1>1. /\ pc[op] \in {"buy", "reverse", "adjust"}
      /\ pc[op] = "adjust" <=> op \in Adjustments
      /\ UNCHANGED <<credit, account, paid, out, delivered>>
      /\ Goto(op, IF pc[op] = "adjust" THEN "error" ELSE "abandon")
  BY DEF TxFails, TxHasAnOwner, Idle, NoTx, history
<1>2. UNCHANGED <<credit, Granted, Closed>>
  BY <1>1 DEF Granted, Closed, Goto
<1>3. CASE pc[op] \in {"reverse", "adjust"}
  <2>1. \A q \in Orders : SaleOf(q)' = SaleOf(q)
    BY <1>1, <1>3 DEF SaleOf, SaleInv, Goto
  <2> QED BY <1>2, <2>1, TillStutters DEF Sale
<1>4. CASE pc[op] = "buy"
  <2>1. op \in Orders /\ SaleOf(op) = "open" /\ SaleOf(op)' = "void"
    BY <1>1, <1>4 DEF SaleOf, SaleInv, Goto
  <2>2. \A q \in Orders : q # op => SaleOf(q)' = SaleOf(q)
    BY <1>1, <2>1, OwnSale
  <2>3. \A q \in Orders \ {op} : SaleOf(q)' = SaleOf(q)
    BY <2>2
  <2>4. /\ {op} \in SUBSET Orders /\ \A q \in {op} : SaleOf(q) = "open"
        /\ \A q \in {op} : SaleOf(q)' \in {"void", "leaked"}
    BY <2>1
  <2> HIDE DEF TypeInv, TypeOK, PlacesOK, Ops, Terminal
  <2> QED BY <1>2, <2>3, <2>4, TillDrops
<1> QED BY <1>1, <1>3, <1>4

\* A crash drops what was not charged yet and leaves the rest held.
LEMMA CrashRefines ==
  ASSUME TypeInv, SaleInv, NEW w \in Procs, Crash(w)
  PROVE  TillStep
<1> USE ConstantsAssumption
<1> USE DEF TypeInv, TypeOK, PlacesOK, Ops, Terminal
<1> DEFINE S == {r \in Orders : SaleOf(r) = "open" /\ Live(r) /\ HomeOf[r] = w}
<1>1. /\ UNCHANGED <<credit, account, paid, out, delivered>>
      /\ \A op \in Ops : pc'[op] = IF Live(op) /\ HomeOf[op] = w THEN "crashed" ELSE pc[op]
  BY DEF Crash, history
<1>2. UNCHANGED <<credit, Granted, Closed>>
  <2>1. \A t \in Adjustments : pc'[t] = "ok" <=> pc[t] = "ok"
    BY <1>1 DEF Live, Running
  <2> QED BY <1>1, <2>1 DEF Granted, Closed
<1>3. /\ \A q \in S : SaleOf(q)' \in {"void", "leaked"}
      /\ \A q \in Orders \ S : SaleOf(q)' = SaleOf(q)
  BY <1>1 DEF SaleOf, Live, Running
<1>4. S \in SUBSET Orders /\ \A q \in S : SaleOf(q) = "open"
  OBVIOUS
<1> HIDE DEF TypeInv, TypeOK, PlacesOK, Ops, Terminal, S
<1> QED BY <1>2, <1>3, <1>4, TillDrops

\* Every behaviour of the statements, crashes, failures and retries is one of the
\* till: a price is taken whole and covered, kept for goods or given back whole.
THEOREM PurchaseImplementsTill == Spec => SellsLikeATill
<1> USE ConstantsAssumption
<1>1. Init => Abstract!Start
  BY DEF Init, Abstract!Start, SaleOf, Ops, Terminal
<1>2. MoneyInv /\ SaleInv /\ [Next]_vars => TillStep
  <2> SUFFICES ASSUME MoneyInv, SaleInv, [Next]_vars PROVE TillStep
    OBVIOUS
  <2>1. TypeInv
    BY DEF MoneyInv
  <2>2. ASSUME NEW r \in Orders, Arrive(r) \/ Step(r) PROVE TillStep
    BY <2>1, <2>2, RequestRefines
  <2>3. ASSUME NEW op \in Ops, TxStep(op) PROVE TillStep
    <3>1. CASE CreditUpdate(op) \/ LedgerInsert(op)
      <4>1. UNCHANGED <<credit, account, pc, paid, out, delivered>>
        BY <3>1 DEF CreditUpdate, LedgerInsert, history
      <4> QED BY <4>1, TillStutters DEF Sale, SaleOf, Granted, Closed
    <3>2. CASE Commit(op) BY <3>2, CommitRefines
    <3>3. CASE TxFails(op) BY <2>1, <3>3, FailureRefines
    <3> QED BY <2>3, <3>1, <3>2, <3>3 DEF TxStep
  <2>4. ASSUME NEW t \in Adjustments, AdjustCheck(t) PROVE TillStep
    <3>1. /\ UNCHANGED <<credit, account, paid, out, delivered>>
          /\ \A r \in Orders : pc'[r] = pc[r]
          /\ \A u \in Adjustments : pc'[u] = "ok" <=> pc[u] = "ok"
      BY <2>1, <2>4 DEF AdjustCheck, Goto, TypeInv, TypeOK, Ops, money, history
    <3> QED BY <3>1, TillStutters DEF Sale, SaleOf, Granted, Closed
  <2>5. ASSUME NEW a \in Admins, SetCreditEnabled(a) PROVE TillStep
    <3>1. Closed' = Closed
      BY <2>1, <2>5 DEF SetCreditEnabled, Closed, TypeInv, TypeOK
    <3> QED BY <2>5, <3>1, TillStutters
        DEF SetCreditEnabled, Sale, SaleOf, Granted, money, history
  <2>6. ASSUME NEW a \in Admins, RemoveAdmin(a) PROVE TillStep
    <3>1. Closed' = Closed \cup {a}
      BY <2>1, <2>6 DEF RemoveAdmin, Closed, TypeInv, TypeOK
    <3>2. UNCHANGED <<credit, Sale, Granted>>
      BY <2>6 DEF RemoveAdmin, Sale, SaleOf, Granted, money, history
    <3>3. Abstract!Close(a)
      BY <3>1, <3>2 DEF Abstract!Close, Sale, Granted, Closed
    <3> QED BY <3>3 DEF TillStep, Abstract!TillNext
  <2>7. ASSUME NEW k \in Keys, Prune(k) PROVE TillStep
    BY <2>7, TillStutters DEF Prune, Sale, SaleOf, Granted, Closed, money
  <2>8. ASSUME NEW w \in Procs, Crash(w) PROVE TillStep
    BY <2>1, <2>8, CrashRefines
  <2>9. CASE UNCHANGED vars
    BY <2>9, TillStutters DEF vars, Sale, SaleOf, Granted, Closed
  <2> QED
    BY <2>2, <2>3, <2>4, <2>5, <2>6, <2>7, <2>8, <2>9 DEF Next
<1> QED
  BY <1>1, <1>2, MoneyInvariant, SaleInvariant, PTL
  DEF Spec, SellsLikeATill, Abstract!TillSpec, TillStep

-----------------------------------------------------------------------------
(* What a sum is.  No induction: a smallest counterexample is refuted. *)

\* A sum that does not depend on the order of its terms, on every subset of T.
Additive(g, T) ==
  /\ g \in [SUBSET T -> Int]
  /\ g[{}] = 0
  /\ \A S \in SUBSET T : \A op \in S : g[S] = Amount[op] + g[S \ {op}]

\* The recursion that Total stands for: always take out the same element first.
First(S) == CHOOSE op \in S : TRUE
Unfolds(g, T) ==
  g = [S \in SUBSET T |-> IF S = {} THEN 0 ELSE Amount[First(S)] + g[S \ {First(S)}]]

\* Among sets of finite sets there is always one that has no other below it: what
\* takes the place of induction.
LEMMA SmallestSet ==
  ASSUME NEW T, IsFiniteSet(T), NEW B \in SUBSET (SUBSET T), B # {}
  PROVE  \E S \in B : \A U \in B : U \subseteq S => U = S
<1>1. IsWellFoundedOn(StrictSubsetOrdering(T), FiniteSubsetsOf(T))
  BY FS_StrictSubsetOrderingWellFounded
<1>2. B \subseteq FiniteSubsetsOf(T)
  BY FS_FiniteSubsetsOfFinite
<1>3. \E S \in B : \A U \in B : <<U, S>> \notin StrictSubsetOrdering(T)
  BY <1>1, <1>2, WFMin
<1> QED BY <1>3 DEF StrictSubsetOrdering

\* One more term leaves a sum a sum.
LEMMA AdditiveExtends ==
  ASSUME NEW T \in SUBSET Ops, NEW x \in T, NEW g, Additive(g, T \ {x})
  PROVE  \E h : Additive(h, T)
<1> USE ConstantsAssumption
<1> DEFINE V == T \ {x}
<1> DEFINE h == [S \in SUBSET T |-> IF x \in S THEN Amount[x] + g[S \ {x}] ELSE g[S]]
<1>1. /\ g \in [SUBSET V -> Int] /\ g[{}] = 0
      /\ \A S \in SUBSET V : \A op \in S : g[S] = Amount[op] + g[S \ {op}]
  BY DEF Additive
<1>2. \A op \in T : Amount[op] \in Int
  OBVIOUS
<1>3. \A S \in SUBSET T : S \ {x} \in SUBSET V /\ (x \notin S => S \in SUBSET V)
  OBVIOUS
<1> HIDE DEF V
<1>4. \A S \in SUBSET T : h[S] = IF x \in S THEN Amount[x] + g[S \ {x}] ELSE g[S]
  OBVIOUS
<1>5. h \in [SUBSET T -> Int]
  <2>1. ASSUME NEW S \in SUBSET T
        PROVE  (IF x \in S THEN Amount[x] + g[S \ {x}] ELSE g[S]) \in Int
    BY <1>1, <1>2, <1>3
  <2> QED BY <2>1
<1>6. h[{}] = 0
  BY <1>1, <1>4
<1> HIDE DEF h
<1>7. ASSUME NEW S \in SUBSET T, NEW op \in S PROVE h[S] = Amount[op] + h[S \ {op}]
  <2>1. S \ {op} \in SUBSET T /\ op \in T
    OBVIOUS
  <2>2. CASE x \notin S
    <3>1. x \notin S \ {op} /\ S \in SUBSET V
      BY <1>3, <2>2
    <3> QED BY <1>1, <1>4, <2>1, <2>2, <3>1
  <2>3. CASE op = x
    <3>1. h[S] = Amount[x] + g[S \ {x}] /\ h[S \ {x}] = g[S \ {x}]
      BY <1>4, <2>1, <2>3
    <3> QED BY <2>3, <3>1
  <2>4. CASE x \in S /\ op # x
    <3>1. h[S] = Amount[x] + g[S \ {x}]
      BY <1>4, <2>4
    <3>2. h[S \ {op}] = Amount[x] + g[(S \ {op}) \ {x}]
      BY <1>4, <2>1, <2>4
    <3>3. S \ {x} \in SUBSET V /\ op \in S \ {x} /\ (S \ {x}) \ {op} \in SUBSET V
      BY <1>3, <2>4
    <3>4. (S \ {x}) \ {op} = (S \ {op}) \ {x}
      OBVIOUS
    <3>5. g[S \ {x}] = Amount[op] + g[(S \ {op}) \ {x}]
      BY <1>1, <3>3, <3>4
    <3>6. Amount[x] \in Int /\ Amount[op] \in Int /\ g[(S \ {op}) \ {x}] \in Int
      BY <1>1, <1>2, <2>1, <3>3, <3>4
    <3> QED BY <3>1, <3>2, <3>5, <3>6
  <2> QED BY <2>2, <2>3, <2>4
<1>8. Additive(h, T)
  BY <1>5, <1>6, <1>7 DEF Additive
<1> QED BY <1>8

\* Every finite set of requests has such a sum.
LEMMA AdditiveExists ==
  ASSUME NEW T \in SUBSET Ops, IsFiniteSet(T)
  PROVE  \E g : Additive(g, T)
<1> DEFINE B == {S \in SUBSET T : ~\E g : Additive(g, S)}
<1>1. SUFFICES ASSUME B # {} PROVE FALSE
  OBVIOUS
<1>2. PICK S \in B : \A U \in B : U \subseteq S => U = S
  <2>1. B \in SUBSET (SUBSET T)
    OBVIOUS
  <2> HIDE DEF B
  <2> QED BY <1>1, <2>1, SmallestSet
<1>3. CASE S = {}
  <2> DEFINE h == [U \in SUBSET {} |-> 0]
  <2>1. Additive(h, {})
    BY DEF Additive
  <2> QED BY <1>3, <2>1
<1>4. CASE S # {}
  <2>1. PICK x \in S : TRUE
    BY <1>4
  <2>2. S \ {x} \notin B
    BY <1>2
  <2>3. \E g : Additive(g, S \ {x})
    BY <2>2
  <2>4. \E g : Additive(g, S)
    BY <2>3, AdditiveExtends
  <2> QED BY <2>4
<1> QED BY <1>3, <1>4

\* The recursion has no other solution than that sum.
LEMMA UnfoldingIsTheSum ==
  ASSUME NEW T \in SUBSET Ops, IsFiniteSet(T), NEW g, Additive(g, T),
         NEW f, Unfolds(f, T)
  PROVE  f = g
<1>1. \A S \in SUBSET T : f[S] = IF S = {} THEN 0 ELSE Amount[First(S)] + f[S \ {First(S)}]
  BY DEF Unfolds
<1> DEFINE B == {S \in SUBSET T : f[S] # g[S]}
<1>2. B = {}
  <2>1. SUFFICES ASSUME B # {} PROVE FALSE
    OBVIOUS
  <2>2. PICK S \in B : \A U \in B : U \subseteq S => U = S
    <3>1. B \in SUBSET (SUBSET T)
      OBVIOUS
    <3> HIDE DEF B
    <3> QED BY <2>1, <3>1, SmallestSet
  <2>3. CASE S = {}
    BY <1>1, <2>3 DEF Additive
  <2>4. CASE S # {}
    <3>1. First(S) \in S
      BY <2>4 DEF First
    <3>2. S \ {First(S)} \in SUBSET T /\ S \ {First(S)} \notin B
      BY <2>2, <3>1
    <3>3. f[S] = Amount[First(S)] + g[S \ {First(S)}]
      BY <1>1, <2>4, <3>2
    <3>4. g[S] = Amount[First(S)] + g[S \ {First(S)}]
      BY <3>1 DEF Additive
    <3> QED BY <3>3, <3>4
  <2> QED BY <2>3, <2>4
<1>3. \A S \in SUBSET T : f[S] = g[S]
  BY <1>2
<1>4. g = [S \in SUBSET T |-> g[S]] /\ f = [S \in SUBSET T |-> f[S]]
  BY DEF Additive, Unfolds
<1> QED BY <1>3, <1>4

\* So Total is the sum, whatever larger set it is taken in.
LEMMA TotalIsTheSum ==
  ASSUME NEW T \in SUBSET Ops, IsFiniteSet(T), NEW g, Additive(g, T),
         NEW S \in SUBSET T
  PROVE  Total(S) = g[S]
<1> DEFINE h == [U \in SUBSET S |-> g[U]]
<1>1. IsFiniteSet(S)
  BY FS_Subset
<1>2. Additive(h, S)
  <2>1. h \in [SUBSET S -> Int] /\ h[{}] = 0
    BY DEF Additive
  <2>2. ASSUME NEW U \in SUBSET S, NEW op \in U PROVE h[U] = Amount[op] + h[U \ {op}]
    <3>1. U \in SUBSET T /\ U \ {op} \in SUBSET S
      OBVIOUS
    <3> QED BY <3>1 DEF Additive
  <2> HIDE DEF h
  <2> QED BY <2>1, <2>2 DEF Additive
<1>3. h[S] = g[S]
  OBVIOUS
<1> HIDE DEF h
<1>4. Unfolds(h, S)
  <2>1. ASSUME NEW U \in SUBSET S
        PROVE  h[U] = IF U = {} THEN 0 ELSE Amount[First(U)] + h[U \ {First(U)}]
    <3>1. U # {} => First(U) \in U
      BY DEF First
    <3> QED BY <1>2, <3>1 DEF Additive
  <2>2. h = [U \in SUBSET S |-> h[U]]
    BY <1>2 DEF Additive
  <2>3. [U \in SUBSET S |-> h[U]]
          = [U \in SUBSET S |-> IF U = {} THEN 0 ELSE Amount[First(U)] + h[U \ {First(U)}]]
    BY <2>1
  <2> QED BY <2>2, <2>3 DEF Unfolds
<1> DEFINE f == CHOOSE f : Unfolds(f, S)
<1>5. Total(S) = f[S]
  BY DEF Total, MapThenSumSet, MapThenFoldSet, Unfolds, First
<1>6. Unfolds(f, S)
  BY <1>4
<1> HIDE DEF f
<1>7. f = h
  BY <1>1, <1>2, <1>6, UnfoldingIsTheSum
<1> QED BY <1>3, <1>5, <1>7

\* The sum of nothing.
LEMMA TotalOfNothing == Total({}) = 0
<1>1. IsFiniteSet({})
  BY FS_EmptySet
<1>2. PICK g : Additive(g, {})
  BY <1>1, AdditiveExists
<1>3. Total({}) = g[{}]
  BY <1>1, <1>2, TotalIsTheSum
<1> QED BY <1>2, <1>3 DEF Additive

\* A sum of finitely many amounts is a number.
LEMMA TotalIsInt ==
  ASSUME NEW S \in SUBSET Ops, IsFiniteSet(S)
  PROVE  Total(S) \in Int
<1>1. PICK g : Additive(g, S)
  BY AdditiveExists
<1>2. Total(S) = g[S]
  BY <1>1, TotalIsTheSum
<1> QED BY <1>1, <1>2 DEF Additive

\* One request more, or one less, changes the sum by its amount.
LEMMA TotalWithOneMore ==
  ASSUME NEW S \in SUBSET Ops, IsFiniteSet(S), NEW x \in Ops \ S
  PROVE  /\ Total(S) \in Int
         /\ Total(S \cup {x}) = Total(S) + Amount[x]
<1> DEFINE T == S \cup {x}
<1>1. T \in SUBSET Ops /\ IsFiniteSet(T) /\ S \in SUBSET T /\ x \in T /\ T \ {x} = S
  BY FS_AddElement
<1> HIDE DEF T
<1>2. PICK g : Additive(g, T)
  BY <1>1, AdditiveExists
<1>3. Total(S) = g[S] /\ Total(T) = g[T]
  BY <1>1, <1>2, TotalIsTheSum
<1>4. g[T] = Amount[x] + g[S] /\ g[S] \in Int
  BY <1>1, <1>2 DEF Additive
<1>5. Amount[x] \in Int
  BY ConstantsAssumption
<1> QED BY <1>3, <1>4, <1>5 DEF T

LEMMA TotalWithOneLess ==
  ASSUME NEW S \in SUBSET Ops, IsFiniteSet(S), NEW x \in S
  PROVE  /\ Total(S) \in Int
         /\ Total(S \ {x}) = Total(S) - Amount[x]
<1> DEFINE U == S \ {x}
<1>1. U \in SUBSET Ops /\ IsFiniteSet(U) /\ x \in Ops \ U /\ U \cup {x} = S
  BY FS_RemoveElement
<1> HIDE DEF U
<1>2. Total(U) \in Int /\ Total(U \cup {x}) = Total(U) + Amount[x]
  BY <1>1, TotalWithOneMore
<1>3. Amount[x] \in Int
  BY ConstantsAssumption
<1>4. Total(S) = Total(U) + Amount[x]
  BY <1>1, <1>2
<1> QED BY <1>2, <1>3, <1>4 DEF U

-----------------------------------------------------------------------------
(* The ledger, entry by entry *)

\* The requests that have moved money so far are finitely many, and add up.
MovementInv ==
  /\ IsFiniteSet(paid) /\ IsFiniteSet(Granted)
  /\ EveryMovementIsExplained

\* The sums of an admin are sums of finitely many requests.
LEMMA SharesAreFinite ==
  ASSUME TypeInv, MovementInv, NEW a \in Admins
  PROVE  /\ PaidBy(a) \in SUBSET Ops /\ IsFiniteSet(PaidBy(a))
         /\ GrantedTo(a) \in SUBSET Ops /\ IsFiniteSet(GrantedTo(a))
<1>1. PaidBy(a) \in SUBSET paid /\ GrantedTo(a) \in SUBSET Granted
  BY DEF PaidBy, GrantedTo, Granted
<1>2. paid \in SUBSET Ops /\ Granted \in SUBSET Ops
  BY DEF TypeInv, TypeOK, Ops, Granted
<1> QED BY <1>1, <1>2, FS_Subset DEF MovementInv

\* The amounts are constants: a sum after a step is the sum of the set after it.
LEMMA TotalsAfter ==
  ASSUME NEW a \in Admins
  PROVE  /\ Total(PaidBy(a))' = Total(PaidBy(a)')
         /\ Total(GrantedTo(a))' = Total(GrantedTo(a)')
BY DEF Total, MapThenSumSet, MapThenFoldSet

\* A step that writes no ledger row changes no sum.
LEMMA NothingMoves ==
  ASSUME MovementInv, UNCHANGED <<ledger, paid>>,
         \A t \in Adjustments : pc'[t] = "ok" <=> pc[t] = "ok"
  PROVE  MovementInv'
<1>1. Granted' = Granted
  BY DEF Granted
<1>2. \A a \in Admins : PaidBy(a)' = PaidBy(a) /\ GrantedTo(a)' = GrantedTo(a)
  BY DEF PaidBy, GrantedTo
<1>3. \A a \in Admins : Total(PaidBy(a))' = Total(PaidBy(a)) /\ Total(GrantedTo(a))' = Total(GrantedTo(a))
  BY <1>2, TotalsAfter
<1> QED BY <1>1, <1>3 DEF MovementInv, EveryMovementIsExplained

\* The entry a commit writes is the one change of its admin's sums.
LEMMA CommitMoves ==
  ASSUME MoneyInv, SaleInv, MovementInv, NEW op \in Ops, Commit(op)
  PROVE  MovementInv'
<1> USE ConstantsAssumption
<1> DEFINE a == AdminOf[op]
<1>0. TypeInv
  BY DEF MoneyInv
<1>1. /\ op = tx.op /\ a \in Admins
      /\ pc[op] \in {"buy", "reverse", "adjust"}
      /\ pc[op] = "adjust" <=> op \in Adjustments
      /\ pc[op] # "adjust" => op \in Orders
  BY <1>0 DEF Commit, TypeInv, TypeOK, PlacesOK, TxHasAnOwner, Idle, NoTx, Ops, Terminal
<1>2. /\ \A b \in Admins : ledger'[b] = IF b = a THEN ledger[b] + Movement(op) ELSE ledger[b]
      /\ \A b \in Admins : ledger[b] \in Int
  <2>1. tx.ledger = Movement(op) /\ ledger \in [Admins -> Int]
    BY <1>0, <1>1 DEF Commit, MoneyInv, TxIsBalanced, TypeInv, TypeOK, Idle, NoTx
  <2> QED BY <1>1, <2>1 DEF Commit
<1>3. \A t \in Ops : pc'[t] = IF t = op THEN AfterCommit(op) ELSE pc[t]
  BY <1>0 DEF Commit, Goto, TypeInv, TypeOK
<1>4. Amount[op] \in Int /\ \A b \in Admins : InitialCredit[b] \in Int
  OBVIOUS
<1>5. \A b \in Admins : /\ PaidBy(b) \in SUBSET Ops /\ IsFiniteSet(PaidBy(b))
                        /\ GrantedTo(b) \in SUBSET Ops /\ IsFiniteSet(GrantedTo(b))
                        /\ Total(PaidBy(b)) \in Int /\ Total(GrantedTo(b)) \in Int
                        /\ ledger[b] = InitialCredit[b] + Total(GrantedTo(b)) - Total(PaidBy(b))
  BY <1>0, SharesAreFinite, TotalIsInt DEF MovementInv, EveryMovementIsExplained
<1>6. ledger'[a] = ledger[a] + Movement(op)
  BY <1>1, <1>2
<1>7. CASE pc[op] = "buy"
  <2>1. paid' = paid \cup {op} /\ AfterCommit(op) = "sell" /\ Movement(op) = -Amount[op]
    BY <1>7 DEF Commit, PaidAfterCommit, AfterCommit, Movement
  <2>2. op \in Orders /\ op \notin paid /\ op \notin Adjustments
    BY <1>1, <1>7 DEF SaleInv
  <2>3. Granted' = Granted /\ \A b \in Admins : GrantedTo(b)' = GrantedTo(b)
    BY <1>3, <2>2 DEF Granted, GrantedTo, Ops
  <2>4. IsFiniteSet(paid')
    BY <2>1, FS_AddElement DEF MovementInv
  <2>5. \A b \in Admins : PaidBy(b)' = IF b = a THEN PaidBy(b) \cup {op} ELSE PaidBy(b)
    BY <2>1 DEF PaidBy
  <2>6. op \in Ops \ PaidBy(a)
    BY <2>2 DEF PaidBy
  <2>7. Total(PaidBy(a) \cup {op}) = Total(PaidBy(a)) + Amount[op]
    BY <1>1, <1>5, <2>6, TotalWithOneMore
  <2>8. ledger'[a] = InitialCredit[a] + Total(GrantedTo(a)') - Total(PaidBy(a)')
    <3>1. Total(PaidBy(a)') = Total(PaidBy(a)) + Amount[op] /\ Total(GrantedTo(a)') = Total(GrantedTo(a))
      BY <1>1, <2>3, <2>5, <2>7
    <3> QED BY <1>1, <1>4, <1>5, <1>6, <2>1, <3>1
  <2>9. \A b \in Admins : b # a =>
          ledger'[b] = InitialCredit[b] + Total(GrantedTo(b)') - Total(PaidBy(b)')
    BY <1>2, <1>5, <2>3, <2>5
  <2> QED BY <2>3, <2>4, <2>8, <2>9, TotalsAfter DEF MovementInv, EveryMovementIsExplained
<1>8. CASE pc[op] = "reverse"
  <2>1. paid' = paid \ {op} /\ AfterCommit(op) = "abandon" /\ Movement(op) = Amount[op]
    BY <1>8 DEF Commit, PaidAfterCommit, AfterCommit, Movement
  <2>2. op \in Orders /\ op \in paid /\ op \notin Adjustments
    BY <1>1, <1>8 DEF SaleInv
  <2>3. Granted' = Granted /\ \A b \in Admins : GrantedTo(b)' = GrantedTo(b)
    BY <1>3, <2>2 DEF Granted, GrantedTo, Ops
  <2>4. IsFiniteSet(paid')
    BY <2>1, FS_RemoveElement DEF MovementInv
  <2>5. \A b \in Admins : PaidBy(b)' = IF b = a THEN PaidBy(b) \ {op} ELSE PaidBy(b)
    BY <2>1 DEF PaidBy
  <2>6. op \in PaidBy(a)
    BY <2>2 DEF PaidBy
  <2>7. Total(PaidBy(a) \ {op}) = Total(PaidBy(a)) - Amount[op]
    BY <1>1, <1>5, <2>6, TotalWithOneLess
  <2>8. ledger'[a] = InitialCredit[a] + Total(GrantedTo(a)') - Total(PaidBy(a)')
    <3>1. Total(PaidBy(a)') = Total(PaidBy(a)) - Amount[op] /\ Total(GrantedTo(a)') = Total(GrantedTo(a))
      BY <1>1, <2>3, <2>5, <2>7
    <3> QED BY <1>1, <1>4, <1>5, <1>6, <2>1, <3>1
  <2>9. \A b \in Admins : b # a =>
          ledger'[b] = InitialCredit[b] + Total(GrantedTo(b)') - Total(PaidBy(b)')
    BY <1>2, <1>5, <2>3, <2>5
  <2> QED BY <2>3, <2>4, <2>8, <2>9, TotalsAfter DEF MovementInv, EveryMovementIsExplained
<1>9. CASE pc[op] = "adjust"
  <2>1. paid' = paid /\ AfterCommit(op) = "ok" /\ Movement(op) = Amount[op]
    BY <1>9 DEF Commit, PaidAfterCommit, AfterCommit, Movement
  <2>2. op \in Adjustments /\ op \notin Granted
    BY <1>1, <1>9 DEF Granted
  <2>3. \A b \in Admins : PaidBy(b)' = PaidBy(b)
    BY <2>1 DEF PaidBy
  <2>4. Granted' = Granted \cup {op}
    BY <1>3, <2>1, <2>2 DEF Granted, Ops
  <2>5. \A b \in Admins : GrantedTo(b)' = IF b = a THEN GrantedTo(b) \cup {op} ELSE GrantedTo(b)
    BY <1>3, <2>1, <2>2 DEF GrantedTo, Ops
  <2>6. op \in Ops \ GrantedTo(a)
    BY <2>2 DEF GrantedTo, Granted
  <2>7. Total(GrantedTo(a) \cup {op}) = Total(GrantedTo(a)) + Amount[op]
    BY <1>1, <1>5, <2>6, TotalWithOneMore
  <2>8. ledger'[a] = InitialCredit[a] + Total(GrantedTo(a)') - Total(PaidBy(a)')
    <3>1. Total(GrantedTo(a)') = Total(GrantedTo(a)) + Amount[op] /\ Total(PaidBy(a)') = Total(PaidBy(a))
      BY <1>1, <2>3, <2>5, <2>7
    <3> QED BY <1>1, <1>4, <1>5, <1>6, <2>1, <3>1
  <2>9. \A b \in Admins : b # a =>
          ledger'[b] = InitialCredit[b] + Total(GrantedTo(b)') - Total(PaidBy(b)')
    BY <1>2, <1>5, <2>3, <2>5
  <2>10. IsFiniteSet(paid') /\ IsFiniteSet(Granted')
    BY <2>1, <2>4, FS_AddElement DEF MovementInv
  <2> QED BY <2>8, <2>9, <2>10, TotalsAfter DEF MovementInv, EveryMovementIsExplained
<1> QED BY <1>1, <1>7, <1>8, <1>9

\* The ledger explains itself at every moment: it is what an admin began with, plus
\* each adjustment granted, less the price of each order still paid for, once each,
\* however many requests, processes, crashes and failed statements there have been.
THEOREM MovementsAreExplained == Spec => []EveryMovementIsExplained
<1> USE ConstantsAssumption
<1>1. Init => MovementInv
  <2> SUFFICES ASSUME Init PROVE MovementInv
    OBVIOUS
  <2>1. paid = {} /\ Granted = {}
    BY DEF Init, Granted, Ops
  <2>2. \A a \in Admins : PaidBy(a) = {} /\ GrantedTo(a) = {} /\ InitialCredit[a] \in Int
    BY <2>1 DEF PaidBy, GrantedTo, Granted
  <2>3. ledger = InitialCredit
    BY DEF Init
  <2>4. \A a \in Admins : Total(PaidBy(a)) = 0 /\ Total(GrantedTo(a)) = 0
    BY <2>2, TotalOfNothing
  <2>5. EveryMovementIsExplained
    BY <2>2, <2>3, <2>4 DEF EveryMovementIsExplained
  <2> QED BY <2>1, <2>5, FS_EmptySet DEF MovementInv
<1>2. MoneyInv /\ SaleInv /\ MovementInv /\ [Next]_vars => MovementInv'
  <2> SUFFICES ASSUME MoneyInv, SaleInv, MovementInv, [Next]_vars PROVE MovementInv'
    OBVIOUS
  <2>1. TypeInv
    BY DEF MoneyInv
  <2> USE DEF TypeInv, TypeOK, PlacesOK, Ops, Terminal, Goto, money
  <2>2. ASSUME NEW r \in Orders, Arrive(r) \/ Step(r) PROVE MovementInv'
    <3>1. UNCHANGED <<ledger, paid>>
      BY <2>2 DEF Arrive, Step, Reserve, Collide, LookupMiss, Refuse, Replay, BuyNothing,
        ChargeUpdate, Covers, ChargeRefused, HandsOver, Deliver, StoreFails, GiveUp, SaleFails, Abandon, Tag, Finish, WriteFails, AfterFailure
    <3>2. \A t \in Ops : t # r => pc'[t] = pc[t]
      BY <2>1, <2>2 DEF Arrive, Step, Reserve, Collide, LookupMiss, Refuse, Replay, BuyNothing,
        ChargeUpdate, Covers, ChargeRefused, HandsOver, Deliver, StoreFails, GiveUp, SaleFails, Abandon, Tag, Finish, WriteFails, AfterFailure
    <3> QED BY <3>1, <3>2, NothingMoves
  <2>3. ASSUME NEW op \in Ops, CreditUpdate(op) \/ LedgerInsert(op) PROVE MovementInv'
    BY <2>3, NothingMoves DEF CreditUpdate, LedgerInsert
  <2>4. ASSUME NEW op \in Ops, Commit(op) PROVE MovementInv'
    BY <2>4, CommitMoves
  <2>5. ASSUME NEW op \in Ops, TxFails(op) PROVE MovementInv'
    <3>1. pc[op] \in {"buy", "reverse", "adjust"} /\ UNCHANGED <<ledger, paid>>
      BY <2>1, <2>5 DEF TxFails, TxHasAnOwner, Idle, NoTx
    <3>2. \A t \in Ops : pc'[t] = "ok" <=> pc[t] = "ok"
      BY <2>1, <2>5, <3>1 DEF TxFails
    <3> QED BY <3>1, <3>2, NothingMoves
  <2>6. ASSUME NEW t \in Adjustments, AdjustCheck(t) PROVE MovementInv'
    <3>1. \A u \in Ops : pc'[u] = "ok" <=> pc[u] = "ok"
      BY <2>1, <2>6 DEF AdjustCheck
    <3> QED BY <2>6, <3>1, NothingMoves DEF AdjustCheck
  <2>7. CASE \/ \E a \in Admins : SetCreditEnabled(a) \/ RemoveAdmin(a)
             \/ \E k \in Keys : Prune(k)
             \/ UNCHANGED vars
    BY <2>7, NothingMoves DEF SetCreditEnabled, RemoveAdmin, Prune, vars
  <2>8. ASSUME NEW w \in Procs, Crash(w) PROVE MovementInv'
    <3>1. \A t \in Ops : pc'[t] = "ok" <=> pc[t] = "ok"
      BY <2>8 DEF Crash, Live, Running
    <3> QED BY <2>8, <3>1, NothingMoves DEF Crash
  <2> QED
    BY <2>2, <2>3, <2>4, <2>5, <2>6, <2>7, <2>8 DEF Next, TxStep
<1> QED
  BY <1>1, <1>2, MoneyInvariant, SaleInvariant, PTL DEF Spec, MovementInv

\* What an admin who still exists can spend is what the ledger's entries come to: no
\* money is made or lost between the two tables.
THEOREM BalancesAreExplained ==
  Spec => [](\A a \in Admins : account[a] # "deleted" =>
               credit[a] = InitialCredit[a] + Total(GrantedTo(a)) - Total(PaidBy(a)))
<1> DEFINE Explained ==
      \A a \in Admins : account[a] # "deleted" =>
        credit[a] = InitialCredit[a] + Total(GrantedTo(a)) - Total(PaidBy(a))
<1>1. LedgerAgrees /\ EveryMovementIsExplained => Explained
  BY DEF LedgerAgrees, EveryMovementIsExplained
<1> HIDE DEF Explained
<1>2. Spec => []Explained
  BY <1>1, LedgerAlwaysAgrees, MovementsAreExplained, PTL
<1> QED BY <1>2 DEF Explained

\* A transaction that has written no ledger row yet adds nothing to the ledger.
BlankInv == ~tx.logged => tx.ledger = 0

\* The books agree as committed; and a reconciliation that reads its own process's open
\* transaction is wrong about one admin at most, and by the movement that is half done.
THEOREM BooksAlwaysAgree == Spec => []BooksAgree
<1>1. Init => BlankInv
  BY DEF Init, NoTx, BlankInv
<1>2. TypeInv /\ BlankInv /\ [Next]_vars => BlankInv'
  <2> SUFFICES ASSUME TypeInv, BlankInv, [Next]_vars PROVE BlankInv'
    OBVIOUS
  <2>1. ASSUME NEW op \in Ops, LedgerInsert(op) PROVE BlankInv'
    <3>1. tx'.logged = TRUE
      BY <2>1 DEF LedgerInsert, TypeInv, TypeOK
    <3> QED BY <3>1 DEF BlankInv
  <2>2. ASSUME NEW op \in Ops, ChargeUpdate(op) \/ CreditUpdate(op) PROVE BlankInv'
    <3>1. tx'.ledger = 0
      BY <2>2 DEF ChargeUpdate, CreditUpdate
    <3> QED BY <3>1 DEF BlankInv
  <2>3. CASE tx' = tx \/ tx' = NoTx
    BY <2>3 DEF BlankInv, NoTx
  <2>4. ASSUME NEW r \in Orders, Arrive(r) \/ (Step(r) /\ ~ChargeUpdate(r)) PROVE BlankInv'
    BY <2>3, <2>4, QuietStep DEF money
  <2> QED
    BY <2>1, <2>2, <2>3, <2>4 DEF Next, TxStep, Step, vars, money, Ops, Commit, TxFails,
      AdjustCheck, SetCreditEnabled, RemoveAdmin, Prune, Crash
<1>3. MoneyInv /\ BlankInv => DriftIsOneMovement
  <2> SUFFICES ASSUME MoneyInv, BlankInv, NEW w \in Procs, NEW a \in Drift(w)
               PROVE  /\ ~Idle /\ HomeOf[tx.op] = w /\ AdminOf[tx.op] = a /\ ~tx.logged
                      /\ SeenCredit(w, a) - SeenLedger(w, a) = Movement(tx.op)
    BY DEF DriftIsOneMovement
  <2>1. /\ a \in Admins /\ account[a] # "deleted" /\ SeenCredit(w, a) # SeenLedger(w, a)
        /\ credit[a] = ledger[a] /\ credit[a] \in Int /\ ledger[a] \in Int
    BY DEF Drift, MoneyInv, LedgerAgrees, TypeInv, TypeOK
  <2>2. ~Idle /\ HomeOf[tx.op] = w /\ AdminOf[tx.op] = a
    BY <2>1 DEF SeenCredit, SeenLedger
  <2>3. SeenCredit(w, a) = credit[a] + tx.credit /\ SeenLedger(w, a) = ledger[a] + tx.ledger
    BY <2>2 DEF SeenCredit, SeenLedger
  <2>4. tx.credit = Movement(tx.op) /\ (tx.logged => tx.ledger = Movement(tx.op))
    BY <2>1, <2>2 DEF MoneyInv, TxIsBalanced
  <2>5. ~tx.logged /\ tx.ledger = 0
    BY <2>1, <2>3, <2>4 DEF BlankInv
  <2>6. tx.credit \in Int
    BY DEF MoneyInv, TypeInv, TypeOK
  <2> QED BY <2>1, <2>2, <2>3, <2>4, <2>5, <2>6
<1> QED
  BY <1>1, <1>2, <1>3, TypeInvariant, MoneyInvariant, LedgerAlwaysAgrees, PTL DEF Spec, BooksAgree
=============================================================================
