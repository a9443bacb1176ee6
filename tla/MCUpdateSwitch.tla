--------------------------- MODULE MCUpdateSwitch ---------------------------
(* A small instance of UpdateSwitch for TLC. *)
EXTENDS UpdateSwitch

CONSTANTS fingerprint, executable, versions, r1, r2

Package == <<fingerprint, executable, versions>>

=============================================================================
