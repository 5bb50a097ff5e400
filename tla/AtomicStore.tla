------------------------------ MODULE AtomicStore ------------------------------
(***************************************************************************)
(* What the database promises those who write to it, without saying how:   *)
(* an operation replaces all the tables it is about, and no other, in one  *)
(* step, on top of what the others have made of them; or it does nothing.  *)
(* It takes effect at most once.  A table is the name of the operation     *)
(* that last replaced it.                                                  *)
(***************************************************************************)

CONSTANTS
  Operations,  \* whatever may be asked for
  Tables,
  Replaces,    \* the tables each operation is about
  Shipped      \* who made the tables before

VARIABLES
  tables,      \* by whom each is
  asked        \* the operations that may still take effect

storeVars == <<tables, asked>>

Start ==
  /\ tables = [b \in Tables |-> Shipped]
  /\ asked \in SUBSET Operations

TakeEffect(t) ==
  /\ t \in asked /\ asked' = asked \ {t}
  /\ tables' = [b \in Tables |-> IF b \in Replaces[t] THEN t ELSE tables[b]]

\* Some are refused, or lost with the process that had them.
GiveUp ==
  /\ asked' \in SUBSET asked
  /\ UNCHANGED tables

StoreNext == GiveUp \/ \E t \in Operations : TakeEffect(t)

StoreSpec == Start /\ [][StoreNext]_storeVars
=============================================================================
