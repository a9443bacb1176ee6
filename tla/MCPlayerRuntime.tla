-------------------------- MODULE MCPlayerRuntime --------------------------
(* Small instances of PlayerRuntime for TLC. *)
EXTENDS PlayerRuntime, TLC

CONSTANTS i1, i2, d1, d2

\* d2's body is twice as large as d1's.
BodyBytes == [d \in Digests |-> IF d = d1 THEN 1 ELSE 2]

=============================================================================
