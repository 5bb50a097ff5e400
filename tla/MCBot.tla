---------------------------------- MODULE MCBot ----------------------------------
(***************************************************************************)
(* A small instance of Bot: two messages handled at once, two servers, a   *)
(* key on one of them, and an admin who may do anything everywhere, buy    *)
(* only, on one server, or only look.                                      *)
(***************************************************************************)
EXTENDS Bot, TLC

CONSTANTS t1, t2, s1, s2, k1

MCServerOf == k1 :> s1

MCGrants ==
  { [caps |-> Caps, sees |-> {s1, s2}, credit |-> FALSE],
    [caps |-> Caps, sees |-> {s1}, credit |-> TRUE],
    [caps |-> {}, sees |-> {s1}, credit |-> FALSE] }

MCAlike == Permutations(Tasks)
=============================================================================
