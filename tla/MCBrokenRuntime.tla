--------------------------- MODULE MCBrokenRuntime ---------------------------
(* A small instance of BrokenRuntime for TLC. *)
EXTENDS BrokenRuntime, TLC

CONSTANTS a1, client, dispatcher, s1, s2

=============================================================================
