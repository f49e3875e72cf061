----------------------------- MODULE MCTerminal -----------------------------
(***************************************************************************)
(* TLC instance of Terminal: two sockets that may present one ticket, and  *)
(* timers short enough that either ends a session first.                   *)
(***************************************************************************)
EXTENDS Terminal
=============================================================================
