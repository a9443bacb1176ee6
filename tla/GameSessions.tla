---------------------------- MODULE GameSessions ----------------------------
(***************************************************************************)
(* Who may act for an account (gateway/session, app/realtime_tickets.go,     *)
(* gateway/realtime).  A login enters the session map under the generation   *)
(* of the player runtime it ran in, and puts out the earlier session of the  *)
(* account.  Commands and relay connections act for a session; a connection  *)
(* is opened with a ticket that names one, and keeps the runtime leased.     *)
(* Meanwhile sessions expire, other logins come, and the runtime is replaced *)
(* under a new generation.                                                   *)
(*                                                                          *)
(* A login (its session and the principal copied from it) is a constant.     *)
(* ValidatePrincipal is one step, at its last look: what its first look      *)
(* refuses the last one refuses too.  The runtime and the room are models of *)
(* their own; here they accept, refuse and change generation.  Times of last *)
(* use are left out: a full map may evict any session.                       *)
(***************************************************************************)
EXTENDS Integers, FiniteSets

CONSTANTS
  Accounts, Logins, Requests, Tickets, Relays, Channels,
  Setups,             \* who logs in and commands, and the configured limits
  TicketsPerAccount,  \* pending tickets of an account
  MaxGeneration,      \* bound: generations of one runtime
  None

ASSUME SessionsAssumption ==
  /\ \A s \in Setups : /\ s.account \in [Logins -> Accounts]
                      /\ s.requests \subseteq Requests
                      /\ s.sessions \in Nat \ {0}
                      /\ s.relays \in Nat \ {0}
  /\ TicketsPerAccount \in Nat /\ MaxGeneration \in Nat
  /\ None \notin Logins
  /\ IsFiniteSet(Requests) /\ IsFiniteSet(Relays) /\ IsFiniteSet(Tickets)

VARIABLES
  setup,       \* never changes
  generation,  \* runtime.generation of each account, counted per account
  leases,      \* leases of each account's registry slot
  sessions,    \* Server.sessions: the live logins
  login,       \* stage of a login, generation of its reply
  request,     \* an HTTP command; ranIn: the generation that executed it
  ticket,      \* realtimeTickets.pending
  relay,       \* a TCP connection of the relay; open: not yet closed
  connected,   \* Server.accounts: registered connections of each account
  closed       \* Server.closed

vars == <<setup, generation, leases, sessions, login, request, ticket, relay, connected, closed>>

AccountOf == setup.account       \* the account that a login authenticates
MaxSessions == setup.sessions    \* maxSessions
RelaysPerAccount == setup.relays \* MaxConnectionsPerAccount

Fresh == [stage |-> "free", session |-> None, channel |-> None, open |-> FALSE]

Idle == [stage |-> "idle", session |-> None, ranIn |-> 0]

NoTicket == [stage |-> "none", session |-> None, channel |-> None]

\* Stages in which a connection is in Server.connections.
Registered == {"serving", "leaving"}

\* Stages in which serveConnection holds the lease of Consume.
Leasing == {"leased", "admitted", "leaving", "deregistered"} \cup Registered

TypeOK ==
  /\ setup \in Setups
  /\ generation \in [Accounts -> 1..(MaxGeneration + 1)]
  /\ leases \in [Accounts -> Nat] /\ connected \in [Accounts -> Nat]
  /\ sessions \subseteq Logins
  /\ login \in [Logins -> [stage : {"none", "replied", "over"}, generation : Nat]]
  /\ request \in [Requests ->
       [stage : {"idle", "leased", "submitted", "ran", "answered"},
        session : Logins \cup {None}, ranIn : Nat]]
  /\ ticket \in [Tickets ->
       [stage : {"none", "pending", "expired"},
        session : Logins \cup {None}, channel : Channels \cup {None}]]
  /\ relay \in [Relays ->
       [stage : {"free", "leased", "admitted", "deregistered"} \cup Registered,
        session : Logins \cup {None}, channel : Channels \cup {None}, open : BOOLEAN]]
  /\ closed \in BOOLEAN

Init ==
  /\ setup \in Setups
  /\ generation = [a \in Accounts |-> 1]
  /\ leases = [a \in Accounts |-> 0] /\ connected = [a \in Accounts |-> 0]
  /\ sessions = {}
  /\ login = [l \in Logins |-> [stage |-> "none", generation |-> 0]]
  /\ request = [r \in Requests |-> Idle]
  /\ ticket = [t \in Tickets |-> NoTicket]
  /\ relay = [c \in Relays |-> Fresh]
  /\ closed = FALSE

-----------------------------------------------------------------------------
(* The player runtimes: a recovery or a reload draws another generation.     *)

Renew(a) ==
  /\ generation[a] <= MaxGeneration
  /\ generation' = [generation EXCEPT ![a] = @ + 1]
  /\ UNCHANGED <<leases, sessions, login, request, ticket, relay, connected, closed>>

Lease(a) == leases' = [leases EXCEPT ![a] = @ + 1]
Release(a) == leases' = [leases EXCEPT ![a] = @ - 1]

\* owner.Generation() of the principal's account is the one of its session.
InGeneration(l) == generation[AccountOf[l]] = login[l].generation

\* ValidatePrincipal, and the generation compared by Consume.
Current(l) == l \in sessions /\ InGeneration(l)

-----------------------------------------------------------------------------
(* Sessions.                                                                *)

OfAccount(a) == {l \in sessions : AccountOf[l] = a}

\* What makeSessionRoom may leave of s: a map that is not full.
Rooms(s) == IF Cardinality(s) < MaxSessions THEN {s}
            ELSE {kept \in SUBSET s : Cardinality(kept) = MaxSessions - 1}

\* The command of a login expects no generation; it is in no lock of the map
\* while it runs, so that two logins may enter in the other order.
LoginRuns(l) ==
  /\ login[l].stage = "none"
  /\ login' = [login EXCEPT ![l] = [stage |-> "replied",
                                    generation |-> generation[AccountOf[l]]]]
  /\ UNCHANGED <<generation, leases, sessions, request, ticket, relay, connected, closed>>

LoginFails(l) ==
  /\ login[l].stage = "none"
  /\ login' = [login EXCEPT ![l].stage = "over"]
  /\ UNCHANGED <<generation, leases, sessions, request, ticket, relay, connected, closed>>

\* A plausible slip: the earlier session of the account is left to its expiry.
LoginAdds(l) ==
  /\ login[l].stage = "replied"
  /\ login' = [login EXCEPT ![l].stage = "over"]
  /\ \E kept \in Rooms(sessions) : sessions' = kept \cup {l}
  /\ UNCHANGED <<generation, leases, request, ticket, relay, connected, closed>>

LoginEnters(l) ==
  /\ login[l].stage = "replied"
  /\ login' = [login EXCEPT ![l].stage = "over"]
  /\ \E kept \in Rooms(sessions \ OfAccount(AccountOf[l])) : sessions' = kept \cup {l}
  /\ UNCHANGED <<generation, leases, request, ticket, relay, connected, closed>>

\* From its expiry on no look at the map finds a session.
Expire(l) ==
  /\ l \in sessions
  /\ sessions' = sessions \ {l}
  /\ UNCHANGED <<generation, leases, login, request, ticket, relay, connected, closed>>

-----------------------------------------------------------------------------
(* HTTP commands.                                                           *)

Authorize(r, l) ==
  /\ request[r].stage \in {"idle", "answered"}
  /\ Current(l)
  /\ Lease(AccountOf[l])
  /\ request' = [request EXCEPT ![r] = [stage |-> "leased", session |-> l, ranIn |-> 0]]
  /\ UNCHANGED <<generation, sessions, login, ticket, relay, connected, closed>>

\* Submit compares the generation a second time; it may also refuse or fail.
Submit(r) ==
  LET l == request[r].session IN
  /\ request[r].stage = "leased"
  /\ \/ InGeneration(l) /\ request' = [request EXCEPT ![r].stage = "submitted"]
     \/ request' = [request EXCEPT ![r].stage = "ran"]
  /\ UNCHANGED <<generation, leases, sessions, login, ticket, relay, connected, closed>>

\* The command was queued under a generation that Submit read once more, after
\* its comparison: the owner runs it in that one, or the command fails.
Runs(r) ==
  /\ request[r].stage = "submitted"
  /\ \E g \in {generation[AccountOf[request[r].session]], 0} :
       request' = [request EXCEPT ![r].stage = "ran", ![r].ranIn = g]
  /\ UNCHANGED <<generation, leases, sessions, login, ticket, relay, connected, closed>>

\* A plausible slip: what Submit accepted is answered as it comes.
AnswerAll(r) ==
  /\ request[r].stage = "ran"
  /\ Release(AccountOf[request[r].session])
  /\ request' = [request EXCEPT
       ![r] = IF request[r].ranIn # 0 THEN [@ EXCEPT !.stage = "answered"] ELSE Idle]
  /\ UNCHANGED <<generation, sessions, login, ticket, relay, connected, closed>>

\* ranIn = 0: the command failed.  A success of a generation that is over
\* is answered with ErrGameSessionExpired.
Answer(r) ==
  LET l == request[r].session IN
  /\ request[r].stage = "ran"
  /\ Release(AccountOf[l])
  /\ request' = [request EXCEPT
       ![r] = IF request[r].ranIn # 0 /\ InGeneration(l)
              THEN [@ EXCEPT !.stage = "answered"] ELSE Idle]
  /\ UNCHANGED <<generation, sessions, login, ticket, relay, connected, closed>>

-----------------------------------------------------------------------------
(* Tickets.                                                                 *)

\* Without the tickets whose time is over.
Swept == [t \in Tickets |-> IF ticket[t].stage = "expired" THEN NoTicket ELSE ticket[t]]

PendingOf(a) == {t \in Tickets : Swept[t].stage = "pending" /\ AccountOf[Swept[t].session] = a}

\* Server.Principal for the cookie of a live session, then a place among the
\* pending tickets.
Issue(t, l, ch) ==
  /\ ticket[t].stage \in {"none", "expired"}
  /\ Current(l)
  /\ ticket' = IF Cardinality(PendingOf(AccountOf[l])) < TicketsPerAccount
               THEN [Swept EXCEPT ![t] = [stage |-> "pending", session |-> l, channel |-> ch]]
               ELSE Swept
  /\ UNCHANGED <<generation, leases, sessions, login, request, relay, connected, closed>>

TimeOut(t) ==
  /\ ticket[t].stage = "pending"
  /\ ticket' = [ticket EXCEPT ![t].stage = "expired"]
  /\ UNCHANGED <<generation, leases, sessions, login, request, relay, connected, closed>>

-----------------------------------------------------------------------------
(* Relay connections.                                                       *)

Account(c) == AccountOf[relay[c].session]

\* Consume takes the ticket whatever follows, and leases the runtime; a
\* handshake may still be under way when the gateway closes.
Consume(c, t) ==
  /\ relay[c].stage = "free"
  /\ ticket[t].stage \in {"pending", "expired"}
  /\ ticket' = [ticket EXCEPT ![t] = NoTicket]
  /\ UNCHANGED <<generation, sessions, login, request, connected, closed>>
  /\ \/ /\ ticket[t].stage = "pending"
        /\ Lease(AccountOf[ticket[t].session])
        /\ relay' = [relay EXCEPT ![c] = [stage |-> "leased", session |-> ticket[t].session,
                                          channel |-> ticket[t].channel, open |-> FALSE]]
     \/ UNCHANGED <<leases, relay>>      \* expired, another room, Acquire fails

Drop(c) == relay' = [relay EXCEPT ![c] = Fresh] /\ Release(Account(c))

\* A plausible slip: only success releases what Consume acquired.
AdmitLeaks(c) ==
  /\ relay[c].stage = "leased"
  /\ UNCHANGED <<generation, sessions, login, request, ticket, connected, closed>>
  /\ \/ /\ Current(relay[c].session)
        /\ relay' = [relay EXCEPT ![c].stage = "admitted"]
        /\ UNCHANGED leases
     \/ relay' = [relay EXCEPT ![c] = Fresh] /\ UNCHANGED leases

\* The rest of Consume; the room may have changed since the ticket.
Admit(c) ==
  /\ relay[c].stage = "leased"
  /\ UNCHANGED <<generation, sessions, login, request, ticket, connected, closed>>
  /\ \/ /\ Current(relay[c].session)
        /\ relay' = [relay EXCEPT ![c].stage = "admitted"]
        /\ UNCHANGED leases
     \/ Drop(c)

Same(c, d) ==
  /\ relay[d].stage \in Registered
  /\ Account(c) = Account(d) /\ relay[c].channel = relay[d].channel

\* A plausible slip: the connection is added beside the one it replaces.
RegisterBeside(c) ==
  /\ relay[c].stage = "admitted"
  /\ ~closed /\ connected[Account(c)] < RelaysPerAccount
  /\ relay' = [relay EXCEPT ![c].stage = "serving", ![c].open = TRUE]
  /\ connected' = [connected EXCEPT ![Account(c)] = @ + 1]
  /\ UNCHANGED <<generation, leases, sessions, login, request, ticket, closed>>

\* The new connection closes its predecessors; they leave in their own time.
Register(c) ==
  /\ relay[c].stage = "admitted"
  /\ ~closed /\ connected[Account(c)] < RelaysPerAccount
  /\ relay' = [d \in Relays |->
       CASE d = c      -> [relay[c] EXCEPT !.stage = "serving", !.open = TRUE]
         [] Same(c, d) -> [relay[d] EXCEPT !.open = FALSE]
         [] OTHER      -> relay[d]]
  /\ connected' = [connected EXCEPT ![Account(c)] = @ + 1]
  /\ UNCHANGED <<generation, leases, sessions, login, request, ticket, closed>>

\* A plausible slip: the counter is given back although it was not taken.
RefuseCounts(c) ==
  /\ relay[c].stage = "admitted"
  /\ closed \/ connected[Account(c)] >= RelaysPerAccount
  /\ connected' = [connected EXCEPT ![Account(c)] = @ - 1]
  /\ Drop(c)
  /\ UNCHANGED <<generation, sessions, login, request, ticket, closed>>

Refuse(c) ==
  /\ relay[c].stage = "admitted"
  /\ closed \/ connected[Account(c)] >= RelaysPerAccount
  /\ Drop(c)
  /\ UNCHANGED <<generation, sessions, login, request, ticket, connected, closed>>

\* The reader returns: its socket is closed, idle or broken, the frame is
\* refused by Validate or by the room.  It waits for the write loop.
Return(c) ==
  /\ relay[c].stage = "serving"
  /\ relay' = [relay EXCEPT ![c].stage = "leaving", ![c].open = FALSE]
  /\ UNCHANGED <<generation, leases, sessions, login, request, ticket, connected, closed>>

\* A plausible slip: the ticker compares generations only.
RevalidateGeneration(c) ==
  /\ relay[c].stage \in Registered /\ relay[c].open
  /\ ~InGeneration(relay[c].session)
  /\ relay' = [relay EXCEPT ![c].open = FALSE]
  /\ UNCHANGED <<generation, leases, sessions, login, request, ticket, connected, closed>>

\* The ticker of the write loop found the principal out of date.
Revalidate(c) ==
  /\ relay[c].stage \in Registered /\ relay[c].open
  /\ ~Current(relay[c].session)
  /\ relay' = [relay EXCEPT ![c].open = FALSE]
  /\ UNCHANGED <<generation, leases, sessions, login, request, ticket, connected, closed>>

\* A full queue, a failed write or a failed Acquire of the ticker.
CloseSlow(c) ==
  /\ relay[c].stage \in Registered /\ relay[c].open
  /\ relay' = [relay EXCEPT ![c].open = FALSE]
  /\ UNCHANGED <<generation, leases, sessions, login, request, ticket, connected, closed>>

Deregister(c) ==
  /\ relay[c].stage = "leaving"
  /\ relay' = [relay EXCEPT ![c].stage = "deregistered"]
  /\ connected' = [connected EXCEPT ![Account(c)] = @ - 1]
  /\ UNCHANGED <<generation, leases, sessions, login, request, ticket, closed>>

\* rooms.Disconnect, then the deferred release.
Disconnect(c) ==
  /\ relay[c].stage = "deregistered"
  /\ Drop(c)
  /\ UNCHANGED <<generation, sessions, login, request, ticket, connected, closed>>

Shutdown ==
  /\ ~closed
  /\ closed' = TRUE
  /\ relay' = [c \in Relays |-> IF relay[c].stage \in Registered
                                THEN [relay[c] EXCEPT !.open = FALSE] ELSE relay[c]]
  /\ UNCHANGED <<generation, leases, sessions, login, request, ticket, connected>>

-----------------------------------------------------------------------------
Sessions ==
  \E l \in Logins : LoginRuns(l) \/ LoginFails(l) \/ LoginEnters(l) \/ Expire(l)

Commands ==
  \E r \in setup.requests : (\E l \in Logins : Authorize(r, l)) \/ Submit(r) \/ Runs(r) \/ Answer(r)

Ticketing ==
  \E t \in Tickets :
    \/ \E l \in Logins, ch \in Channels : Issue(t, l, ch)
    \/ TimeOut(t)

Relaying ==
  \E c \in Relays :
    \/ \E t \in Tickets : Consume(c, t)
    \/ Admit(c) \/ Register(c) \/ Refuse(c)
    \/ Return(c) \/ Revalidate(c) \/ CloseSlow(c)
    \/ Deregister(c) \/ Disconnect(c)

Next ==
  /\ UNCHANGED setup
  /\ \/ \E l \in Logins : Renew(AccountOf[l])
     \/ Sessions \/ Commands \/ Ticketing \/ Relaying \/ Shutdown

Spec == Init /\ [][Next]_vars

\* What serveConnection does without its client: answers of the session map,
\* of the room and of a closed socket always come, and the ticker ticks.
Served(c) ==
  /\ UNCHANGED setup
  /\ \/ Admit(c) \/ Register(c) \/ Refuse(c)
     \/ ~relay[c].open /\ Return(c)
     \/ Deregister(c) \/ Disconnect(c)

Ticks(c) == UNCHANGED setup /\ Revalidate(c)

Fairness == \A c \in Relays : WF_vars(Served(c)) /\ WF_vars(Ticks(c))

FairSpec == Spec /\ Fairness

-----------------------------------------------------------------------------
(* Properties.                                                              *)

\* An account has one live session at most, and the map never exceeds its
\* capacity, whatever order logins execute and enter in (login).
OneSession ==
  /\ Cardinality(sessions) <= MaxSessions
  /\ \A l, m \in sessions : AccountOf[l] = AccountOf[m] => l = m

\* Every way out of a command, of Consume and of serveConnection gives its
\* lease back exactly once: a slot is leased by those who hold it.
LeasesBalance ==
  \A a \in Accounts : leases[a] =
      Cardinality({r \in Requests : request[r].stage \in {"leased", "submitted", "ran"}
                                    /\ AccountOf[request[r].session] = a})
    + Cardinality({c \in Relays : relay[c].stage \in Leasing /\ Account(c) = a})

\* The counter of an account counts its registered connections, so that the
\* limit holds while replaced connections still leave; one connection of an
\* account and channel is open at most, and none after the shutdown.
OneRelay ==
  /\ \A a \in Accounts :
       /\ connected[a] = Cardinality({c \in Relays : relay[c].stage \in Registered /\ Account(c) = a})
       /\ connected[a] <= RelaysPerAccount
  /\ \A c, d \in Relays :
       relay[c].open /\ relay[d].open /\ Same(c, d) => c = d
  /\ closed => \A c \in Relays : ~relay[c].open

\* A command answered with success ran in the generation of its session, even
\* where the runtime was renewed between the comparisons and the execution.
AnsweredInSession ==
  \A r \in Requests : request[r].stage = "answered" =>
    request[r].ranIn = login[request[r].session].generation

\* Sessions, leases and connections stay consistent across logins that race,
\* recoveries, expiries, replaced connections and the shutdown.
AccessIsCoherent == OneSession /\ LeasesBalance /\ OneRelay /\ AnsweredInSession

\* A connection whose session was replaced, expired or left behind by a new
\* generation of the runtime, and every connection once the gateway closes,
\* ends and gives its lease back, even if its client never sends again
\* (writeLoop, shutdown).
StaleRelaysEnd ==
  \A c \in Relays :
    relay[c].stage # "free" /\ (closed \/ ~Current(relay[c].session)) ~> relay[c].stage = "free"

=============================================================================
