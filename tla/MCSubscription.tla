---------------------------- MODULE MCSubscription ----------------------------
(***************************************************************************)
(* Small instances of Subscription: two servers, two processes.            *)
(***************************************************************************)
EXTENDS Subscription

CONSTANTS a1, a2, a3, b1, b2, s1, s2, t1, t2, p1, p2, j1, j2

Of(k) == IF k \in {a1, a2, a3} THEN s1 ELSE s2
MCAt == [k \in Keys |-> Of(k)]
MCHome == [j \in Jobs |-> IF j = j1 THEN p1 ELSE p2]

State(o, b, e) == [off |-> o, begun |-> b, ends |-> e]

\* Suspended in its term. (A new customer's term has not begun and is open.)
MCStates == {State(TRUE, TRUE, TRUE)}

\* A key without a term whose date was set with extend_key: never activated.
MCDated == {State(FALSE, FALSE, TRUE)}
=============================================================================
