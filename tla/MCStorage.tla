------------------------------- MODULE MCStorage -------------------------------
(***************************************************************************)
(* A small instance of Storage: two processes with one task of every kind  *)
(* and two snapshots.                                                      *)
(***************************************************************************)
EXTENDS Storage

CONSTANTS p1, p2, edit, removal, sale, restore, export, copy1, copy2

MCHomeOf ==
  [t \in Tasks |-> IF t \in {edit, restore, export, copy1} THEN p1 ELSE p2]
MCKind ==
  [t \in Tasks |-> CASE t = edit -> "edit" [] t = removal -> "removal"
                     [] t = sale -> "sale" [] t = restore -> "restore"
                     [] t = export -> "export" [] OTHER -> "snapshot"]
=============================================================================
