----------------------------- MODULE MCMembers -----------------------------
(***************************************************************************)
(* TLC instance of Members: a founder and one more person, enough for two  *)
(* owners to leave together and for a member to be invited again.          *)
(***************************************************************************)
EXTENDS Members, TLC

Symmetry == Permutations(Handlers) \cup Permutations(Invitations)
                \cup Permutations(Users \ {Founder})
=============================================================================
