-------------------------------- MODULE MCAccess --------------------------------
(***************************************************************************)
(* A small instance of Access: two tabs, two places, two secrets to mint.  *)
(***************************************************************************)
EXTENDS Access, TLC

CONSTANTS t1, t2, here, there, s1, s2

MCAlike == Permutations(Tabs) \cup Permutations(Places) \cup Permutations({s1, s2})
=============================================================================
