---------------------------- MODULE MCSessions ----------------------------
(***************************************************************************)
(* TLC instance of Sessions: one user with MFA and one who has yet to sign *)
(* up, enough rows for a rotation, its replay and a fork of the family.    *)
(***************************************************************************)
EXTENDS Sessions, TLC

Symmetry == Permutations(Sids) \cup Permutations(Handlers) \cup Permutations(Claims)
=============================================================================
