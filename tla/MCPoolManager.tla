--------------------------- MODULE MCPoolManager ---------------------------
(***************************************************************************)
(* TLC instance of PoolManager: two projects whose first slices exhaust    *)
(* the budget, so that the aggressive reap and the refusal both happen, a  *)
(* quota below the minimum slice, and pool identities to spare for leaks.  *)
(***************************************************************************)
EXTENDS PoolManager
=============================================================================
