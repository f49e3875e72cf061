------------------------------- MODULE MCMfa -------------------------------
(***************************************************************************)
(* TLC instance of Mfa: two requests, two enrolments and two batches, so   *)
(* that a stale confirmation meets another secret and a batch meets the    *)
(* one before it; four steps, three of them within the window at once.     *)
(***************************************************************************)
EXTENDS Mfa, TLC

Symmetry == Permutations(Secrets) \cup Permutations(Codes) \cup Permutations(Handlers)
=============================================================================
