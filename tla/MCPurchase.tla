------------------------------ MODULE MCPurchase ------------------------------
(***************************************************************************)
(* Small instances of Purchase: one reseller, whose credit covers only one *)
(* order at a time; an order and its retry under one key, which reach      *)
(* different workers; another tab's order, under no key or the same one.   *)
(***************************************************************************)
EXTENDS Purchase

CONSTANTS p1, p2, a1, r1, r2, r3, t1, k1

MCTwoHomes == [op \in Ops |-> IF op \in {r2, t1} THEN p2 ELSE p1]
MCOneHome == [op \in Ops |-> p1]
MCAdminOf == [op \in Ops |-> a1]
MCInitialCredit == [a \in Admins |-> 2]
MCAmount == [op \in Ops |-> IF op \in {r1, r2} THEN 2 ELSE 1]
MCTakeBack == [op \in Ops |-> IF op = t1 THEN -1 ELSE 2]
MCRetryAndTab == [r \in Orders |-> IF r = r3 THEN NoKey ELSE k1]
MCOneKey == [r \in Orders |-> k1]
MCTwoBodies == [r \in Orders |-> IF r = r3 THEN "B" ELSE "A"]
MCSameBody == [r \in Orders |-> "A"]
=============================================================================
