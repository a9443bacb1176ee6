----------------------------- MODULE MCRoomPlay -----------------------------
(* Small instances of RoomPlay for TLC, each about one thing: two action      *)
(* rooms that search for members; one account whose two rooms compete for    *)
(* the queue, across a crash or a retry; two members across a crash; voyages, *)
(* of one account in two rooms and of two in one; the shutdown; lost         *)
(* connections.                                                              *)
EXTENDS RoomPlay

CONSTANTS first, second

Case(kind, who, capacity, n, crashed, failed, moves) ==
  [kind |-> kind, accounts |-> who, capacity |-> capacity, rooms |-> n,
   crashes |-> crashed, failures |-> failed, moves |-> moves]

Two == {first, second}

Cases ==
  {Case("action", Two, 2, 2, 0, 0, {"search"}),
   Case("action", {first}, 1, 2, 1, 0, {"play", "run"}),
   Case("action", {first}, 1, 2, 0, 1, {"play", "run"}),
   Case("defense", Two, 2, 1, 1, 0, {"play", "cleared", "run"}),
   Case("fishing", {first}, 1, 2, 0, 0, {"play", "run"}),
   Case("fishing", Two, 2, 1, 0, 0, {"run"}),
   Case("action", Two, 1, 2, 1, 0, {"play", "close"})}
  \cup {Case(kind, Two, 2, 1, 0, 0, {"play", "hangup", "leave", "left", "dead"})
          : kind \in {"action", "defense", "fishing"}}

=============================================================================
