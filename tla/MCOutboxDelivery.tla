-------------------------- MODULE MCOutboxDelivery --------------------------
(* Small instances of OutboxDelivery for TLC. *)
EXTENDS OutboxDelivery

CONSTANTS a1, a2, e1, e2, w1, w2

TwoAccounts == <<a1, a2>>

=============================================================================
