-------------------------- MODULE MCPlayerRegistry --------------------------
(* Small instances of PlayerRegistry for TLC. *)
EXTENDS PlayerRegistry

CONSTANTS a1, a2, c1, c2, s1, s2

=============================================================================
