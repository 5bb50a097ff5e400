----------------------------- MODULE MCScheduler -----------------------------
(***************************************************************************)
(* Small instances of Scheduler: two processes that come and go, two       *)
(* possible intervals, one request of the owner at a time.  The processes  *)
(* are interchangeable.                                                    *)
(***************************************************************************)
EXTENDS Scheduler, TLC

CONSTANTS p1, p2, o1

ProcSymmetry == Permutations(Procs)
=============================================================================
