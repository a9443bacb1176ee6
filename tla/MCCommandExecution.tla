------------------------- MODULE MCCommandExecution -------------------------
(* A small instance of CommandExecution for TLC. *)
EXTENDS CommandExecution

CONSTANTS i1, login, d1, d2

=============================================================================
