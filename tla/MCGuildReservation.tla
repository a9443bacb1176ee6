------------------------- MODULE MCGuildReservation -------------------------
(* Small instances of GuildReservation for TLC. *)
EXTENDS GuildReservation, TLC

CONSTANTS p1, p2, p3, g1, g2, n1, n2, o1, o2, o3, o4

Symmetry == Permutations(Accounts) \cup Permutations(Guilds)
              \cup Permutations(Names) \cup Permutations(Operations)

=============================================================================
