-------------------------------- MODULE MCKeys --------------------------------
(***************************************************************************)
(* Small instances of KeyLifecycle: requests on one key beside the passes. *)
(***************************************************************************)
EXTENDS KeyLifecycle

CONSTANTS j1, j2, j3

Sale(l, d, q, s) == [limit |-> l, days |-> d, monthly |-> q, startNow |-> s]

\* A package that waits for its first use or starts at once, a quota with and
\* without a term, and a key without any limit.
MCSales == {Sale(2, 1, None, FALSE), Sale(2, 1, None, TRUE), Sale(None, 1, 1, TRUE),
            Sale(None, None, 1, FALSE), Sale(None, None, None, FALSE)}
MCPackages == {[gb |-> 2, days |-> 1], [gb |-> None, days |-> None]}
MCSizes == {2, None}
=============================================================================
