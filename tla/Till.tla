--------------------------------- MODULE Till ---------------------------------
(***************************************************************************)
(* What selling on credit promises, without saying how: an order takes its *)
(* whole price at once and only from a balance that covers it, and from    *)
(* then on either keeps the money for goods handed over or gives exactly   *)
(* that amount back.  An order is charged at most once, an adjustment is   *)
(* granted at most once, and nothing else moves a balance.  It is about    *)
(* money: an order that ends unpaid may have left its goods with the buyer *)
(* ("leaked"), and then stays unpaid.                                      *)
(***************************************************************************)
EXTENDS Integers

CONSTANTS Admins, Orders, Adjustments, AdminOf, Amount, InitialCredit

VARIABLES
  balance,   \* what each admin can still spend
  sale,      \* what became of each order
  granted,   \* the adjustments that have taken effect
  closed     \* the admins that no longer exist

tillVars == <<balance, sale, granted, closed>>

Sales == {"open", "held", "sold", "given", "void", "leaked"}

Start ==
  /\ balance = InitialCredit
  /\ sale = [r \in Orders |-> "open"]
  /\ granted = {}
  /\ closed = {}

Move(a, delta) ==
  balance' = IF a \in closed THEN balance ELSE [balance EXCEPT ![a] = @ + delta]

Becomes(r, from, to) == sale[r] = from /\ sale' = [sale EXCEPT ![r] = to]

Take(r) ==
  /\ Becomes(r, "open", "held")
  /\ AdminOf[r] \notin closed
  /\ balance[AdminOf[r]] >= Amount[r]
  /\ Move(AdminOf[r], -Amount[r])
  /\ UNCHANGED <<granted, closed>>

GiveBack(r) ==
  /\ \/ Becomes(r, "held", "void")
     \/ Becomes(r, "held", "leaked")
  /\ Move(AdminOf[r], Amount[r])
  /\ UNCHANGED <<granted, closed>>

HandOver(r) ==
  /\ Becomes(r, "held", "sold")
  /\ UNCHANGED <<balance, granted, closed>>

\* To an admin who is not on credit.
Give(r) ==
  /\ Becomes(r, "open", "given")
  /\ UNCHANGED <<balance, granted, closed>>

\* Orders that end without having been charged, some of them with their goods out.
Drop(S, leaks) ==
  /\ \A r \in S : sale[r] = "open"
  /\ sale' = [r \in Orders |-> IF r \notin S THEN sale[r]
                              ELSE IF r \in leaks THEN "leaked" ELSE "void"]
  /\ UNCHANGED <<balance, granted, closed>>

Grant(t) ==
  /\ t \notin granted
  /\ granted' = granted \cup {t}
  /\ Move(AdminOf[t], Amount[t])
  /\ UNCHANGED <<sale, closed>>

Close(a) ==
  /\ closed' = closed \cup {a}
  /\ UNCHANGED <<balance, sale, granted>>

TillNext ==
  \/ \E r \in Orders : Take(r) \/ GiveBack(r) \/ HandOver(r) \/ Give(r)
  \/ \E S, leaks \in SUBSET Orders : Drop(S, leaks)
  \/ \E t \in Adjustments : Grant(t)
  \/ \E a \in Admins : Close(a)

TillSpec == Start /\ [][TillNext]_tillVars
=============================================================================
