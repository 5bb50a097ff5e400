----------------------------- MODULE MCMigrations -----------------------------
(***************************************************************************)
(* Small instances of Migrations: two processes start on one file.         *)
(***************************************************************************)
EXTENDS Migrations

CONSTANTS p1, p2, c1, c2
=============================================================================
