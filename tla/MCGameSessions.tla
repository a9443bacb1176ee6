--------------------------- MODULE MCGameSessions ---------------------------
(* Small instances of GameSessions for TLC: an account that logs in twice,   *)
(* with a connection replaced or refused, and two accounts that compete for  *)
(* the only place in the session map.                                        *)
EXTENDS GameSessions

CONSTANTS mine, other, first, second

OneAccount == [l \in Logins |-> mine]
TwoAccounts == [l \in Logins |-> IF l = first THEN mine ELSE other]

Cases == {[account |-> OneAccount, requests |-> {}, sessions |-> 2, relays |-> 2],
          [account |-> OneAccount, requests |-> Requests, sessions |-> 2, relays |-> 1],
          [account |-> TwoAccounts, requests |-> {}, sessions |-> 1, relays |-> 2]}

=============================================================================
