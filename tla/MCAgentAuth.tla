---------------------------- MODULE MCAgentAuth ----------------------------
(***************************************************************************)
(* TLC instance of AgentAuth: the map reaches its capacity with two        *)
(* requests and prunes for the third, and the clock runs long enough for   *)
(* entries to outlive two windows.                                         *)
(***************************************************************************)
EXTENDS AgentAuth, TLC

Symmetry == Permutations(Nonces)
=============================================================================
