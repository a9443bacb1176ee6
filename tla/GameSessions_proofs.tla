------------------------ MODULE GameSessions_proofs ------------------------
(* Proofs about GameSessions: one session for each account, success only in  *)
(* the generation of the session, leases and connection counters that        *)
(* balance, one open connection for each account and channel.                *)
EXTENDS GameSessions, FiniteSetTheorems, TLAPS

-----------------------------------------------------------------------------
(* The inductive invariant *)

\* Who holds a lease of account a.
Callers(a) ==
  {r \in Requests : request[r].stage \in {"leased", "submitted", "ran"}
                    /\ AccountOf[request[r].session] = a}

Connections(a) == {c \in Relays : relay[c].stage \in Leasing /\ Account(c) = a}

Counted(a) == {c \in Relays : relay[c].stage \in Registered /\ Account(c) = a}

\* A session enters the map after its login, whose generation is final then.
LoginsAreOver ==
  /\ IsFiniteSet(sessions)
  /\ \A l \in sessions : login[l].stage = "over"
  /\ \A r \in Requests : request[r].stage # "idle" =>
       request[r].session \in Logins /\ login[request[r].session].stage = "over"

\* Generations only grow: a command that has run and not failed ran between the
\* generation of its session and the present one.
RanSince(r) ==
  /\ login[request[r].session].generation <= request[r].ranIn
  /\ request[r].ranIn <= generation[AccountOf[request[r].session]]

RunsKnown ==
  /\ \A l \in Logins : login[l].generation <= generation[AccountOf[l]]
  /\ \A r \in Requests :
       /\ request[r].stage \in {"leased", "submitted"} => request[r].ranIn = 0
       /\ request[r].stage = "ran" /\ request[r].ranIn # 0 => RanSince(r)

\* Tickets and connections name a login; a socket in use is served.
RelaysKnown ==
  /\ \A t \in Tickets : ticket[t].stage # "none" => ticket[t].session \in Logins
  /\ \A c \in Relays : /\ relay[c].stage # "free" => relay[c].session \in Logins
                       /\ relay[c].open => relay[c].stage = "serving"

AccessOK ==
  /\ TypeOK /\ LoginsAreOver /\ RunsKnown /\ RelaysKnown
  /\ OneSession /\ LeasesBalance /\ OneRelay /\ AnsweredInSession

LEMMA Configured ==
  ASSUME TypeOK
  PROVE  /\ AccountOf \in [Logins -> Accounts]
         /\ setup.requests \subseteq Requests
         /\ MaxSessions \in Nat \ {0} /\ RelaysPerAccount \in Nat \ {0}
BY SessionsAssumption DEF TypeOK, AccountOf, MaxSessions, RelaysPerAccount

-----------------------------------------------------------------------------
(* Counting *)

In(x, F) == IF x \in F THEN 1 ELSE 0

\* Two sets that differ in one element at most.
LEMMA CountMoves ==
  ASSUME NEW S, IsFiniteSet(S), NEW F \in SUBSET S, NEW G \in SUBSET S, NEW x \in S,
         G \ {x} = F \ {x}
  PROVE  /\ Cardinality(F) \in Nat /\ Cardinality(G) \in Nat
         /\ Cardinality(G) = Cardinality(F) + In(x, G) - In(x, F)
<1>1. IsFiniteSet(F) /\ IsFiniteSet(G)
  <2>1. \A T \in SUBSET S : IsFiniteSet(T)
    BY FS_Subset
  <2> QED
    BY <2>1
<1>2. Cardinality(F) \in Nat /\ Cardinality(G) \in Nat
  <2>1. \A T : IsFiniteSet(T) => Cardinality(T) \in Nat
    BY FS_CardinalityType
  <2> QED
    BY <1>1, <2>1
<1>3. ASSUME NEW T, IsFiniteSet(T)
      PROVE  Cardinality(T \ {x}) = IF x \in T THEN Cardinality(T) - 1 ELSE Cardinality(T)
  BY <1>3, FS_RemoveElement
<1>4. /\ Cardinality(F \ {x}) = IF x \in F THEN Cardinality(F) - 1 ELSE Cardinality(F)
      /\ Cardinality(G \ {x}) = IF x \in G THEN Cardinality(G) - 1 ELSE Cardinality(G)
  BY <1>1, <1>3
<1>5. Cardinality(F \ {x}) = Cardinality(G \ {x})
  OBVIOUS
<1>6. CASE x \in F /\ x \in G
  BY <1>2, <1>4, <1>5, <1>6 DEF In
<1>7. CASE x \in F /\ x \notin G
  BY <1>2, <1>4, <1>5, <1>7 DEF In
<1>8. CASE x \notin F /\ x \in G
  BY <1>2, <1>4, <1>5, <1>8 DEF In
<1>9. CASE x \notin F /\ x \notin G
  BY <1>2, <1>4, <1>5, <1>9 DEF In
<1> QED
  BY <1>6, <1>7, <1>8, <1>9

\* Balanced leases are natural numbers.
LEMMA LeasesAreNat ==
  ASSUME LeasesBalance', NEW T, leases' \in [Accounts -> T]
  PROVE  leases' \in [Accounts -> Nat]
<1>1. ASSUME NEW a \in Accounts
      PROVE  leases'[a] \in Nat
  <2>1. leases'[a] = Cardinality(Callers(a)') + Cardinality(Connections(a)')
    BY DEF LeasesBalance, Callers, Connections
  <2>2. Callers(a)' \in SUBSET Requests /\ Connections(a)' \in SUBSET Relays
    BY DEF Callers, Connections
  <2>3. Cardinality(Callers(a)') \in Nat /\ Cardinality(Connections(a)') \in Nat
    BY <2>2, SessionsAssumption, FS_Subset, FS_CardinalityType
  <2> QED
    BY <2>1, <2>3
<1> QED
  BY <1>1

-----------------------------------------------------------------------------
(* What does not move *)

\* The sessions, and what commands know of them.
SessionsOK == LoginsAreOver /\ RunsKnown /\ OneSession /\ AnsweredInSession

LEMMA SessionsStay ==
  ASSUME AccessOK, UNCHANGED <<setup, generation, sessions, login, request>>
  PROVE  SessionsOK'
BY DEF AccessOK, SessionsOK, LoginsAreOver, RunsKnown, RanSince, OneSession,
       AnsweredInSession, AccountOf, MaxSessions

LEMMA RelaysStay ==
  ASSUME AccessOK, UNCHANGED <<setup, relay, connected, closed>>
  PROVE  OneRelay'
BY DEF AccessOK, OneRelay, Account, AccountOf, RelaysPerAccount, Same

LEMMA LeasesStay ==
  ASSUME AccessOK, UNCHANGED <<setup, leases, request, relay>>
  PROVE  LeasesBalance'
BY DEF AccessOK, LeasesBalance, Account, AccountOf

-----------------------------------------------------------------------------
(* Runtimes, logins and tickets *)

LEMMA RenewOK ==
  ASSUME AccessOK, UNCHANGED setup, NEW l \in Logins, Renew(AccountOf[l])
  PROVE  AccessOK'
<1>1. AccountOf[l] \in Accounts
  BY Configured DEF AccessOK
<1>2. TypeOK'
  BY <1>1, SessionsAssumption DEF AccessOK, TypeOK, Renew
<1>3. RelaysKnown'
  BY DEF AccessOK, RelaysKnown, Renew
<1>4. LoginsAreOver' /\ OneSession' /\ AnsweredInSession'
  BY DEF AccessOK, LoginsAreOver, OneSession, AnsweredInSession, AccountOf, MaxSessions, Renew
<1>5. RunsKnown'
  <2>1. \A a \in Accounts : /\ generation[a] \in Nat /\ generation'[a] \in Nat
                            /\ generation[a] <= generation'[a]
    BY <1>1, SessionsAssumption DEF AccessOK, TypeOK, Renew
  <2>2. \A m \in Logins : AccountOf[m] \in Accounts /\ login[m].generation \in Nat
    BY Configured DEF AccessOK, TypeOK
  <2>3. UNCHANGED <<setup, login, request>>
    BY DEF Renew
  <2>4. \A m \in Logins : login'[m].generation <= generation'[AccountOf'[m]]
    BY <2>1, <2>2, <2>3 DEF AccessOK, RunsKnown, AccountOf
  <2>5. ASSUME NEW r \in Requests, request[r].stage = "ran", request[r].ranIn # 0
        PROVE  RanSince(r)'
    <3>1. request[r].session \in Logins /\ request[r].ranIn \in Nat
      BY <2>5 DEF AccessOK, TypeOK, LoginsAreOver
    <3>2. RanSince(r)
      BY <2>5 DEF AccessOK, RunsKnown
    <3> QED
      BY <2>1, <2>2, <2>3, <3>1, <3>2 DEF RanSince, AccountOf
  <2> QED
    BY <2>3, <2>4, <2>5 DEF AccessOK, RunsKnown
<1> QED
  BY <1>2, <1>3, <1>4, <1>5, RelaysStay, LeasesStay DEF AccessOK, Renew

\* The stage of a login that is not over yet is the business of nobody else.
LEMMA LoginOK ==
  ASSUME AccessOK, UNCHANGED setup, NEW l \in Logins,
         LoginRuns(l) \/ LoginFails(l)
  PROVE  AccessOK'
<1>1. generation[AccountOf[l]] \in Nat
  BY Configured DEF AccessOK, TypeOK
<1>2. TypeOK'
  <2>1. login' \in [Logins -> [stage : {"none", "replied", "over"}, generation : Nat]]
    <3>1. CASE LoginRuns(l)
      BY <1>1, <3>1 DEF AccessOK, TypeOK, LoginRuns
    <3>2. CASE LoginFails(l)
      BY <3>2 DEF AccessOK, TypeOK, LoginFails
    <3> QED
      BY <3>1, <3>2
  <2> QED
    BY <2>1 DEF AccessOK, TypeOK, LoginRuns, LoginFails
<1>3. /\ login[l].stage = "none" /\ UNCHANGED <<generation, sessions, request>>
      /\ \A m \in Logins \ {l} : login'[m] = login[m]
      /\ login'[l].generation \in {login[l].generation, generation[AccountOf[l]]}
  BY DEF AccessOK, TypeOK, LoginRuns, LoginFails
<1>4. SessionsOK'
  <2>1. sessions \subseteq Logins /\ l \notin sessions
    BY <1>3 DEF AccessOK, TypeOK, LoginsAreOver
  <2>2. \A r \in Requests : request[r].stage # "idle" => request[r].session \in Logins \ {l}
    BY <1>3 DEF AccessOK, LoginsAreOver
  <2>3. LoginsAreOver' /\ OneSession'
    BY <1>3, <2>1, <2>2 DEF AccessOK, LoginsAreOver, OneSession, AccountOf, MaxSessions
  <2>4. AnsweredInSession'
    BY <1>3, <2>2 DEF AccessOK, AnsweredInSession
  <2>5. RunsKnown'
    <3>1. \A m \in Logins : login'[m].generation <= generation[AccountOf[m]]
      BY <1>1, <1>3 DEF AccessOK, RunsKnown
    <3> QED
      BY <1>3, <2>2, <3>1 DEF AccessOK, RunsKnown, RanSince, AccountOf
  <2> QED
    BY <2>3, <2>4, <2>5 DEF SessionsOK
<1>5. RelaysKnown'
  BY DEF AccessOK, RelaysKnown, LoginRuns, LoginFails
<1> QED
  BY <1>2, <1>4, <1>5, RelaysStay, LeasesStay
     DEF AccessOK, SessionsOK, LoginRuns, LoginFails

LEMMA LoginEntersOK ==
  ASSUME AccessOK, UNCHANGED setup, NEW l \in Logins, LoginEnters(l)
  PROVE  AccessOK'
<1> DEFINE others == sessions \ OfAccount(AccountOf[l])
<1>1. PICK kept \in Rooms(others) : sessions' = kept \cup {l}
  BY DEF LoginEnters
<1>2. others \subseteq sessions /\ IsFiniteSet(others)
  BY FS_Subset DEF AccessOK, LoginsAreOver
<1>3. /\ kept \subseteq others /\ IsFiniteSet(kept)
      /\ Cardinality(kept) <= MaxSessions - 1 /\ Cardinality(kept) \in Nat
  <2>1. Cardinality(others) \in Nat /\ MaxSessions \in Nat
    BY <1>2, FS_CardinalityType, Configured DEF AccessOK
  <2>2. kept \subseteq others
    BY <1>1 DEF Rooms
  <2>3. IsFiniteSet(kept) /\ Cardinality(kept) \in Nat
    BY <1>2, <2>2, FS_Subset, FS_CardinalityType
  <2>4. Cardinality(kept) <= MaxSessions - 1
    <3>1. Cardinality(others) < MaxSessions => kept = others
      BY DEF Rooms
    <3>2. ~(Cardinality(others) < MaxSessions) => Cardinality(kept) = MaxSessions - 1
      BY DEF Rooms
    <3> QED
      BY <2>1, <3>1, <3>2
  <2> QED
    BY <2>2, <2>3, <2>4
<1>4. TypeOK'
  <2>1. login' \in [Logins -> [stage : {"none", "replied", "over"}, generation : Nat]]
    BY DEF AccessOK, TypeOK, LoginEnters
  <2>2. sessions' \subseteq Logins
    BY <1>1, <1>2, <1>3 DEF AccessOK, TypeOK
  <2> QED
    BY <2>1, <2>2 DEF AccessOK, TypeOK, LoginEnters
<1>5. /\ \A m \in Logins : login[m].stage = "over" => login'[m].stage = "over"
      /\ \A m \in Logins : login'[m].generation = login[m].generation
      /\ login'[l].stage = "over" /\ UNCHANGED <<generation, request>>
  BY DEF AccessOK, TypeOK, LoginEnters
<1>6. LoginsAreOver'
  <2>1. IsFiniteSet(sessions')
    BY <1>1, <1>3, FS_AddElement
  <2>2. \A m \in sessions' : login'[m].stage = "over"
    BY <1>1, <1>2, <1>3, <1>5 DEF AccessOK, TypeOK, LoginsAreOver
  <2> QED
    BY <1>5, <2>1, <2>2 DEF AccessOK, LoginsAreOver
<1>7. OneSession'
  <2>1. Cardinality(sessions') <= MaxSessions
    <3>1. Cardinality(kept \cup {l}) =
            IF l \in kept THEN Cardinality(kept) ELSE Cardinality(kept) + 1
      BY <1>3, FS_AddElement
    <3>2. MaxSessions \in Nat
      BY Configured DEF AccessOK
    <3> QED
      BY <1>1, <1>3, <3>1, <3>2
  <2>2. ASSUME NEW m \in sessions', NEW n \in sessions', AccountOf[m] = AccountOf[n]
        PROVE  m = n
    <3>1. \A k \in kept : k \in sessions /\ AccountOf[k] # AccountOf[l]
      BY <1>2, <1>3 DEF OfAccount
    <3> QED
      BY <1>1, <2>2, <3>1 DEF AccessOK, OneSession
  <2> QED
    BY <2>1, <2>2 DEF OneSession, AccountOf, MaxSessions
<1>8. RunsKnown' /\ AnsweredInSession'
  BY <1>5 DEF AccessOK, RunsKnown, RanSince, AnsweredInSession, LoginsAreOver, AccountOf
<1>9. RelaysKnown'
  BY DEF AccessOK, RelaysKnown, LoginEnters
<1> QED
  BY <1>4, <1>6, <1>7, <1>8, <1>9, RelaysStay, LeasesStay DEF AccessOK, LoginEnters

LEMMA ExpireOK ==
  ASSUME AccessOK, UNCHANGED setup, NEW l \in Logins, Expire(l)
  PROVE  AccessOK'
<1>1. TypeOK'
  BY DEF AccessOK, TypeOK, Expire
<1>2. IsFiniteSet(sessions') /\ Cardinality(sessions') <= MaxSessions
  <2>1. /\ IsFiniteSet(sessions') /\ Cardinality(sessions') <= Cardinality(sessions)
        /\ Cardinality(sessions') \in Nat /\ Cardinality(sessions) \in Nat
    <3>1. sessions' \in SUBSET sessions /\ IsFiniteSet(sessions)
      BY DEF AccessOK, LoginsAreOver, Expire
    <3> QED
      BY <3>1, FS_Subset, FS_CardinalityType
  <2> QED
    BY <2>1, Configured DEF AccessOK, OneSession
<1>3. LoginsAreOver' /\ OneSession' /\ RunsKnown' /\ AnsweredInSession'
  BY <1>2 DEF AccessOK, LoginsAreOver, OneSession, RunsKnown, RanSince, AnsweredInSession,
     AccountOf, MaxSessions, Expire
<1>4. RelaysKnown'
  BY DEF AccessOK, RelaysKnown, Expire
<1> QED
  BY <1>1, <1>3, <1>4, RelaysStay, LeasesStay DEF AccessOK, Expire

TicketType == [stage : {"none", "pending", "expired"},
               session : Logins \cup {None}, channel : Channels \cup {None}]

LEMMA SweptType ==
  ASSUME AccessOK
  PROVE  /\ Swept \in [Tickets -> TicketType]
         /\ \A t \in Tickets : Swept[t].stage # "none" => Swept[t].session \in Logins
BY DEF AccessOK, TypeOK, TicketType, RelaysKnown, Swept, NoTicket

LEMMA TicketOK ==
  ASSUME AccessOK, UNCHANGED setup, NEW t \in Tickets,
         \/ \E l \in Logins, ch \in Channels : Issue(t, l, ch)
         \/ TimeOut(t)
  PROVE  AccessOK'
<1>1. UNCHANGED <<generation, leases, sessions, login, request, relay, connected, closed>>
  BY DEF Issue, TimeOut
<1>2. /\ ticket' \in [Tickets -> TicketType]
      /\ \A u \in Tickets : ticket'[u].stage # "none" => ticket'[u].session \in Logins
  <2>1. CASE TimeOut(t)
    <3>1. /\ ticket \in [Tickets -> TicketType]
          /\ \A u \in Tickets : ticket[u].stage # "none" => ticket[u].session \in Logins
      BY DEF AccessOK, TypeOK, TicketType, RelaysKnown
    <3> QED
      BY <2>1, <3>1 DEF TimeOut, TicketType
  <2>2. ASSUME NEW l \in Logins, NEW ch \in Channels, Issue(t, l, ch)
        PROVE  /\ ticket' \in [Tickets -> TicketType]
               /\ \A u \in Tickets : ticket'[u].stage # "none" => ticket'[u].session \in Logins
    <3>1. CASE ticket' = Swept
      BY <3>1, SweptType
    <3>2. CASE ticket' = [Swept EXCEPT
                            ![t] = [stage |-> "pending", session |-> l, channel |-> ch]]
      BY <3>2, SweptType DEF TicketType
    <3> QED
      BY <2>2, <3>1, <3>2 DEF Issue
  <2> QED
    BY <2>1, <2>2
<1>3. TypeOK' /\ RelaysKnown'
  BY <1>1, <1>2 DEF AccessOK, TypeOK, TicketType, RelaysKnown
<1> QED
  BY <1>1, <1>3, SessionsStay, RelaysStay, LeasesStay DEF AccessOK, SessionsOK

-----------------------------------------------------------------------------
(* Commands *)

RequestType == [stage : {"idle", "leased", "submitted", "ran", "answered"},
                session : Logins \cup {None}, ranIn : Nat]

\* The leases balance again if they follow the one command that moved.
LEMMA RequestLeases ==
  ASSUME AccessOK, UNCHANGED <<setup, relay>>, NEW r \in Requests,
         \A q \in Requests \ {r} : request'[q] = request[q],
         \A a \in Accounts :
           leases'[a] = leases[a] + In(r, Callers(a)') - In(r, Callers(a))
  PROVE  LeasesBalance'
<1> SUFFICES ASSUME NEW a \in Accounts
             PROVE  leases'[a] = Cardinality(Callers(a)') + Cardinality(Connections(a)')
  BY DEF LeasesBalance, Callers, Connections
<1>1. leases[a] = Cardinality(Callers(a)) + Cardinality(Connections(a))
  BY DEF AccessOK, LeasesBalance, Callers, Connections
<1>2. Connections(a)' = Connections(a) /\ Cardinality(Connections(a)) \in Nat
  <2>1. Connections(a)' = Connections(a)
    BY DEF Connections, Account, AccountOf
  <2>2. Connections(a) \in SUBSET Relays
    BY DEF Connections
  <2> QED
    BY <2>1, <2>2, SessionsAssumption, FS_Subset, FS_CardinalityType
<1>3. /\ Callers(a) \in SUBSET Requests /\ Callers(a)' \in SUBSET Requests
      /\ Callers(a)' \ {r} = Callers(a) \ {r}
  BY DEF Callers, AccountOf
<1>4. /\ Cardinality(Callers(a)) \in Nat
      /\ Cardinality(Callers(a)') = Cardinality(Callers(a)) + In(r, Callers(a)') - In(r, Callers(a))
  BY <1>3, SessionsAssumption, CountMoves
<1> QED
  BY <1>1, <1>2, <1>4 DEF In

LEMMA AuthorizeOK ==
  ASSUME AccessOK, UNCHANGED setup, NEW r \in Requests, NEW l \in Logins, Authorize(r, l)
  PROVE  AccessOK'
<1>1. /\ leases \in [Accounts -> Nat] /\ AccountOf[l] \in Accounts
      /\ request \in [Requests -> RequestType]
      /\ leases' = [leases EXCEPT ![AccountOf[l]] = @ + 1]
      /\ request' = [request EXCEPT ![r] = [stage |-> "leased", session |-> l, ranIn |-> 0]]
      /\ request[r].stage \in {"idle", "answered"} /\ l \in sessions
      /\ UNCHANGED <<generation, sessions, login, ticket, relay, connected, closed>>
  BY Configured DEF AccessOK, TypeOK, RequestType, Authorize, Lease, Current
<1>2. /\ request' \in [Requests -> RequestType]
      /\ request'[r] = [stage |-> "leased", session |-> l, ranIn |-> 0]
      /\ \A q \in Requests \ {r} : request'[q] = request[q]
  BY <1>1 DEF RequestType
<1>3. LeasesBalance'
  <2> SUFFICES ASSUME NEW a \in Accounts
               PROVE  leases'[a] = leases[a] + In(r, Callers(a)') - In(r, Callers(a))
    BY <1>1, <1>2, RequestLeases
  <2>1. r \notin Callers(a)
    BY <1>1 DEF Callers
  <2>2. r \in Callers(a)' <=> AccountOf[l] = a
    BY <1>2 DEF Callers, AccountOf
  <2>3. leases'[a] = IF AccountOf[l] = a THEN leases[a] + 1 ELSE leases[a]
    BY <1>1
  <2>4. leases[a] \in Nat
    BY <1>1
  <2> QED
    BY <2>1, <2>2, <2>3, <2>4 DEF In
<1>4. leases' \in [Accounts -> Nat]
  <2>1. leases' \in [Accounts -> Int]
    BY <1>1
  <2> QED
    BY <1>3, <2>1, LeasesAreNat
<1>5. TypeOK'
  BY <1>1, <1>2, <1>4 DEF AccessOK, TypeOK, RequestType
<1>6. SessionsOK'
  <2>1. login[l].stage = "over"
    BY <1>1 DEF AccessOK, LoginsAreOver
  <2>2. LoginsAreOver' /\ OneSession'
    BY <1>1, <1>2, <2>1 DEF AccessOK, LoginsAreOver, OneSession, AccountOf, MaxSessions
  <2>3. RunsKnown' /\ AnsweredInSession'
    BY <1>1, <1>2 DEF AccessOK, RunsKnown, RanSince, AnsweredInSession, AccountOf
  <2> QED
    BY <2>2, <2>3 DEF SessionsOK
<1>7. RelaysKnown' /\ OneRelay'
  BY <1>1, RelaysStay DEF AccessOK, RelaysKnown
<1> QED
  BY <1>3, <1>5, <1>6, <1>7 DEF AccessOK, SessionsOK

\* The command goes on with the lease of Authorize.
LEMMA CommandMoves ==
  ASSUME AccessOK, UNCHANGED setup, NEW r \in Requests,
         request[r].stage \in {"leased", "submitted"},
         request' \in [Requests -> RequestType],
         request'[r].session = request[r].session,
         \/ request'[r].stage = "submitted" /\ request'[r].ranIn = 0
         \/ /\ request'[r].stage = "ran"
            /\ request'[r].ranIn \in {0, generation[AccountOf[request[r].session]]},
         \A q \in Requests \ {r} : request'[q] = request[q],
         UNCHANGED <<generation, leases, sessions, login, ticket, relay, connected, closed>>
  PROVE  AccessOK'
<1> DEFINE l == request[r].session
<1>1. l \in Logins /\ AccountOf[l] \in Accounts /\ login[l].stage = "over"
  BY Configured DEF AccessOK, LoginsAreOver
<1>2. LeasesBalance'
  <2> SUFFICES ASSUME NEW a \in Accounts
               PROVE  leases'[a] = leases[a] + In(r, Callers(a)') - In(r, Callers(a))
    BY RequestLeases
  <2>1. r \in Callers(a)' <=> r \in Callers(a)
    BY DEF Callers, AccountOf
  <2>2. leases[a] \in Nat /\ leases'[a] = leases[a]
    BY DEF AccessOK, TypeOK
  <2> QED
    BY <2>1, <2>2 DEF In
<1>3. TypeOK'
  BY DEF AccessOK, TypeOK, RequestType
<1>4. LoginsAreOver' /\ OneSession'
  BY <1>1 DEF AccessOK, LoginsAreOver, OneSession, AccountOf, MaxSessions
<1>5. AnsweredInSession'
  BY DEF AccessOK, AnsweredInSession
<1>6. RunsKnown'
  <2>1. request'[r].stage = "ran" /\ request'[r].ranIn # 0 => RanSince(r)'
    <3>1. login[l].generation <= generation[AccountOf[l]] /\ generation[AccountOf[l]] \in Nat
      BY <1>1, SessionsAssumption DEF AccessOK, TypeOK, RunsKnown
    <3> QED
      BY <3>1 DEF RanSince, AccountOf
  <2>2. \A q \in Requests \ {r} : RanSince(q)' <=> RanSince(q)
    BY DEF RanSince, AccountOf
  <2>3. \A m \in Logins : login'[m].generation <= generation'[AccountOf'[m]]
    BY DEF AccessOK, RunsKnown, AccountOf
  <2> QED
    BY <2>1, <2>2, <2>3 DEF AccessOK, RunsKnown
<1>7. RelaysKnown' /\ OneRelay'
  BY RelaysStay DEF AccessOK, RelaysKnown
<1> QED
  BY <1>2, <1>3, <1>4, <1>5, <1>6, <1>7 DEF AccessOK

LEMMA SubmitOK ==
  ASSUME AccessOK, UNCHANGED setup, NEW r \in Requests, Submit(r)
  PROVE  AccessOK'
<1>1. /\ request \in [Requests -> RequestType] /\ request[r].stage = "leased"
      /\ request[r].ranIn = 0
      /\ UNCHANGED <<generation, leases, sessions, login, ticket, relay, connected, closed>>
  BY DEF AccessOK, TypeOK, RequestType, RunsKnown, Submit
<1>2. \E stage \in {"submitted", "ran"} : request' = [request EXCEPT ![r].stage = stage]
  BY DEF Submit
<1>3. /\ request' \in [Requests -> RequestType]
      /\ request'[r].session = request[r].session /\ request'[r].ranIn = 0
      /\ request'[r].stage \in {"submitted", "ran"}
      /\ \A q \in Requests \ {r} : request'[q] = request[q]
  BY <1>1, <1>2 DEF RequestType
<1> QED
  BY <1>1, <1>3, CommandMoves

LEMMA RunsOK ==
  ASSUME AccessOK, UNCHANGED setup, NEW r \in Requests, Runs(r)
  PROVE  AccessOK'
<1>1. /\ request \in [Requests -> RequestType] /\ request[r].stage = "submitted"
      /\ UNCHANGED <<generation, leases, sessions, login, ticket, relay, connected, closed>>
  BY DEF AccessOK, TypeOK, RequestType, Runs
<1>2. generation[AccountOf[request[r].session]] \in Nat
  BY <1>1, SessionsAssumption, Configured DEF AccessOK, TypeOK, LoginsAreOver
<1>3. PICK g \in {generation[AccountOf[request[r].session]], 0} :
        request' = [request EXCEPT ![r].stage = "ran", ![r].ranIn = g]
  BY DEF Runs
<1>4. /\ request' \in [Requests -> RequestType]
      /\ request'[r].session = request[r].session /\ request'[r].stage = "ran"
      /\ request'[r].ranIn = g
      /\ \A q \in Requests \ {r} : request'[q] = request[q]
  <2> DEFINE v == [request[r] EXCEPT !.stage = "ran", !.ranIn = g]
  <2>1. g \in Nat /\ request[r] \in RequestType
    BY <1>1, <1>2
  <2>2. /\ v \in RequestType /\ v.session = request[r].session
        /\ v.stage = "ran" /\ v.ranIn = g
    BY <2>1 DEF RequestType
  <2>3. request' = [request EXCEPT ![r] = v]
    BY <1>1, <1>3, <2>1 DEF RequestType
  <2> HIDE DEF v
  <2> QED
    BY <1>1, <2>2, <2>3
<1> QED
  BY <1>1, <1>3, <1>4, CommandMoves

LEMMA AnswerOK ==
  ASSUME AccessOK, UNCHANGED setup, NEW r \in Requests, Answer(r)
  PROVE  AccessOK'
<1> DEFINE l == request[r].session
<1>1. /\ request \in [Requests -> RequestType] /\ request[r].stage = "ran"
      /\ l \in Logins /\ login[l].stage = "over"
      /\ AccountOf[l] \in Accounts /\ leases \in [Accounts -> Nat]
      /\ leases' = [leases EXCEPT ![AccountOf[l]] = @ - 1]
      /\ UNCHANGED <<generation, sessions, login, ticket, relay, connected, closed>>
  BY Configured DEF AccessOK, TypeOK, RequestType, LoginsAreOver, Answer, Release
<1>2. /\ request' \in [Requests -> RequestType]
      /\ \/ request'[r].stage = "idle"
         \/ /\ request'[r].stage = "answered" /\ request'[r].session = l
            /\ request[r].ranIn # 0 /\ request'[r].ranIn = request[r].ranIn
            /\ InGeneration(l)
      /\ \A q \in Requests \ {r} : request'[q] = request[q]
  <2>1. CASE /\ request[r].ranIn # 0 /\ InGeneration(l)
             /\ request' = [request EXCEPT ![r] = [@ EXCEPT !.stage = "answered"]]
    BY <1>1, <2>1 DEF RequestType
  <2>2. CASE request' = [request EXCEPT ![r] = Idle]
    BY <1>1, <2>2 DEF RequestType, Idle
  <2> QED
    BY <2>1, <2>2 DEF Answer
<1>3. LeasesBalance'
  <2> SUFFICES ASSUME NEW a \in Accounts
               PROVE  leases'[a] = leases[a] + In(r, Callers(a)') - In(r, Callers(a))
    BY <1>1, <1>2, RequestLeases
  <2>1. r \notin Callers(a)'
    BY <1>2 DEF Callers
  <2>2. r \in Callers(a) <=> AccountOf[l] = a
    BY <1>1 DEF Callers
  <2>3. leases'[a] = IF AccountOf[l] = a THEN leases[a] - 1 ELSE leases[a]
    BY <1>1
  <2>4. leases[a] \in Nat
    BY <1>1
  <2> QED
    BY <2>1, <2>2, <2>3, <2>4 DEF In
<1>4. leases' \in [Accounts -> Nat]
  <2>1. leases' \in [Accounts -> Int]
    BY <1>1
  <2> QED
    BY <1>3, <2>1, LeasesAreNat
<1>5. TypeOK'
  BY <1>1, <1>2, <1>4 DEF AccessOK, TypeOK, RequestType
<1>6. SessionsOK'
  <2>1. LoginsAreOver' /\ OneSession'
    BY <1>1, <1>2 DEF AccessOK, LoginsAreOver, OneSession, AccountOf, MaxSessions
  <2>2. RunsKnown'
    BY <1>1, <1>2 DEF AccessOK, RunsKnown, RanSince, AccountOf
  <2>3. InGeneration(l) /\ request[r].ranIn # 0 => request[r].ranIn = login[l].generation
    <3>1. request[r].ranIn # 0 => RanSince(r)
      BY <1>1 DEF AccessOK, RunsKnown
    <3>2. request[r].ranIn \in Nat /\ login[l].generation \in Nat
      BY <1>1 DEF AccessOK, TypeOK, RequestType
    <3> QED
      BY <3>1, <3>2 DEF RanSince, InGeneration
  <2>4. AnsweredInSession'
    BY <1>1, <1>2, <2>3 DEF AccessOK, AnsweredInSession
  <2> QED
    BY <2>1, <2>2, <2>4 DEF SessionsOK
<1>7. RelaysKnown' /\ OneRelay'
  BY <1>1, RelaysStay DEF AccessOK, RelaysKnown
<1> QED
  BY <1>3, <1>5, <1>6, <1>7 DEF AccessOK, SessionsOK

-----------------------------------------------------------------------------
(* Connections *)

RelayType == [stage : {"free", "leased", "admitted", "deregistered"} \cup Registered,
              session : Logins \cup {None}, channel : Channels \cup {None}, open : BOOLEAN]

\* Connection c has moved and nothing else of the relay.
OneMoved(c) ==
  /\ relay' \in [Relays -> RelayType]
  /\ \A d \in Relays \ {c} : /\ relay'[d].stage = relay[d].stage
                             /\ relay'[d].session = relay[d].session
                             /\ relay'[d].channel = relay[d].channel
                             /\ relay'[d].open => relay[d].open
  /\ relay'[c].stage # "free" => relay'[c].session \in Logins

\* A socket is used by the connection it serves, alone on its channel.
OpenAlone(c) ==
  relay'[c].open =>
    /\ relay'[c].stage = "serving"
    /\ ~closed'
    /\ \A d \in Relays \ {c} :
         relay'[d].open => \/ AccountOf[relay'[d].session] # AccountOf[relay'[c].session]
                           \/ relay'[d].channel # relay'[c].channel

\* The counters follow the connection.
LeasesFollow(c) ==
  \A a \in Accounts : leases'[a] = leases[a] + In(c, Connections(a)') - In(c, Connections(a))

CountersFollow(c) ==
  \A a \in Accounts :
    /\ connected'[a] = connected[a] + In(c, Counted(a)') - In(c, Counted(a))
    /\ connected'[a] <= RelaysPerAccount

LEMMA RelayMoves ==
  ASSUME AccessOK, NEW c \in Relays, OneMoved(c), OpenAlone(c), LeasesFollow(c), CountersFollow(c),
         UNCHANGED <<setup, generation, sessions, login, request, closed>>,
         NEW T, leases' \in [Accounts -> T], connected' \in [Accounts -> T],
         ticket' \in [Tickets -> TicketType],
         \A t \in Tickets : ticket'[t].stage # "none" => ticket'[t].session \in Logins
  PROVE  AccessOK'
<1>1. ASSUME NEW a \in Accounts
      PROVE  /\ leases'[a] = Cardinality(Callers(a)') + Cardinality(Connections(a)')
             /\ connected'[a] = Cardinality(Counted(a)') /\ connected'[a] \in Nat
  <2>1. /\ leases[a] = Cardinality(Callers(a)) + Cardinality(Connections(a))
        /\ connected[a] = Cardinality(Counted(a))
    BY DEF AccessOK, LeasesBalance, OneRelay, Callers, Connections, Counted
  <2>2. Callers(a)' = Callers(a) /\ Cardinality(Callers(a)) \in Nat
    <3>1. Callers(a)' = Callers(a)
      BY DEF Callers, AccountOf
    <3>2. Callers(a) \in SUBSET Requests
      BY DEF Callers
    <3> QED
      BY <3>1, <3>2, SessionsAssumption, FS_Subset, FS_CardinalityType
  <2>3. /\ Connections(a) \in SUBSET Relays /\ Connections(a)' \in SUBSET Relays
        /\ Connections(a)' \ {c} = Connections(a) \ {c}
    BY DEF Connections, Account, AccountOf, OneMoved
  <2>4. /\ Counted(a) \in SUBSET Relays /\ Counted(a)' \in SUBSET Relays
        /\ Counted(a)' \ {c} = Counted(a) \ {c}
    BY DEF Counted, Account, AccountOf, OneMoved
  <2>5. /\ Cardinality(Connections(a)) \in Nat
        /\ Cardinality(Connections(a)')
             = Cardinality(Connections(a)) + In(c, Connections(a)') - In(c, Connections(a))
    BY <2>3, SessionsAssumption, CountMoves
  <2>6. /\ Cardinality(Counted(a)) \in Nat /\ Cardinality(Counted(a)') \in Nat
        /\ Cardinality(Counted(a)')
             = Cardinality(Counted(a)) + In(c, Counted(a)') - In(c, Counted(a))
    BY <2>4, SessionsAssumption, CountMoves
  <2>7. leases'[a] = Cardinality(Callers(a)') + Cardinality(Connections(a)')
    BY <2>1, <2>2, <2>5 DEF LeasesFollow, In
  <2>8. connected'[a] = Cardinality(Counted(a)')
    BY <2>1, <2>6 DEF CountersFollow
  <2> QED
    BY <2>6, <2>7, <2>8
<1>2. LeasesBalance'
  BY <1>1 DEF LeasesBalance, Callers, Connections
<1>3. OneRelay'
  <2>1. \A a \in Accounts :
          connected'[a] = Cardinality(Counted(a)') /\ connected'[a] <= RelaysPerAccount'
    BY <1>1 DEF CountersFollow, RelaysPerAccount
  <2>2. ASSUME NEW d \in Relays, NEW e \in Relays, relay'[d].open, relay'[e].open,
               relay'[d].channel = relay'[e].channel,
               AccountOf[relay'[d].session] = AccountOf[relay'[e].session]
        PROVE  d = e
    <3>1. CASE d = c \/ e = c
      BY <2>2, <3>1 DEF OpenAlone
    <3>2. CASE d # c /\ e # c
      <4>1. /\ relay[d].open /\ relay[e].open /\ Account(d) = Account(e)
            /\ relay[d].channel = relay[e].channel
        BY <2>2, <3>2 DEF OneMoved, Account
      <4> QED
        BY <4>1 DEF AccessOK, OneRelay, Same, RelaysKnown, Registered
    <3> QED
      BY <3>1, <3>2
  <2>3. ASSUME closed', NEW d \in Relays PROVE ~relay'[d].open
    BY <2>3 DEF OneMoved, OpenAlone, AccessOK, OneRelay
  <2> QED
    BY <2>1, <2>2, <2>3 DEF OneRelay, Counted, Same, Account, AccountOf
<1>4. TypeOK'
  <2>1. leases' \in [Accounts -> Nat]
    BY <1>2, LeasesAreNat
  <2>2. connected' \in [Accounts -> Nat]
    BY <1>1
  <2> QED
    BY <2>1, <2>2 DEF AccessOK, TypeOK, OneMoved, RelayType, TicketType
<1>5. RelaysKnown'
  BY DEF AccessOK, RelaysKnown, OneMoved, OpenAlone
<1> QED
  BY <1>2, <1>3, <1>4, <1>5, SessionsStay DEF AccessOK, SessionsOK

LEMMA RelayTypes ==
  ASSUME AccessOK
  PROVE  /\ relay \in [Relays -> RelayType]
         /\ leases \in [Accounts -> Int] /\ connected \in [Accounts -> Int]
         /\ ticket \in [Tickets -> TicketType]
         /\ \A t \in Tickets : ticket[t].stage # "none" => ticket[t].session \in Logins
         /\ \A c \in Relays : relay[c].stage # "free" => /\ relay[c].session \in Logins
                                                        /\ Account(c) \in Accounts
         /\ \A c \in Relays : relay[c].open => relay[c].stage \in Registered
<1>1. AccountOf \in [Logins -> Accounts]
  BY Configured DEF AccessOK
<1>2. \A c \in Relays : relay[c].stage # "free" => relay[c].session \in Logins
  BY DEF AccessOK, RelaysKnown
<1>3. leases \in [Accounts -> Int] /\ connected \in [Accounts -> Int]
  BY DEF AccessOK, TypeOK
<1> QED
  BY <1>1, <1>2, <1>3
     DEF AccessOK, TypeOK, RelaysKnown, RelayType, TicketType, Account, Registered

\* Counters of a connection that is counted as before.
LEMMA LeasesUnmoved ==
  ASSUME AccessOK, UNCHANGED <<setup, leases>>, NEW c \in Relays,
         relay'[c].stage \in Leasing <=> relay[c].stage \in Leasing,
         relay'[c].session = relay[c].session
  PROVE  LeasesFollow(c)
<1>1. \A a \in Accounts : c \in Connections(a)' <=> c \in Connections(a)
  BY DEF Connections, Account, AccountOf
<1>2. \A a \in Accounts : leases[a] \in Nat
  BY DEF AccessOK, TypeOK
<1> QED
  BY <1>1, <1>2 DEF LeasesFollow, In

LEMMA CountersUnmoved ==
  ASSUME AccessOK, UNCHANGED <<setup, connected>>, NEW c \in Relays,
         \/ relay'[c].stage \notin Registered /\ relay[c].stage \notin Registered
         \/ /\ relay'[c].stage \in Registered <=> relay[c].stage \in Registered
            /\ relay'[c].session = relay[c].session
  PROVE  CountersFollow(c)
<1>1. \A a \in Accounts : c \in Counted(a)' <=> c \in Counted(a)
  BY DEF Counted, Account, AccountOf
<1>2. \A a \in Accounts : connected[a] \in Nat /\ connected[a] <= RelaysPerAccount
  BY DEF AccessOK, TypeOK, OneRelay
<1> QED
  BY <1>1, <1>2 DEF CountersFollow, In

\* Connection c goes on to another stage or closes its socket.
LEMMA MovesOn ==
  ASSUME AccessOK, NEW c \in Relays, NEW v \in RelayType,
         relay' = [relay EXCEPT ![c] = v],
         v.session = relay[c].session, v.channel = relay[c].channel,
         v.open => relay[c].open /\ v.stage = "serving",
         relay[c].stage # "free", v.stage # "free",
         v.stage \in Registered <=> relay[c].stage \in Registered,
         v.stage \in Leasing, relay[c].stage \in Leasing,
         UNCHANGED <<setup, generation, leases, sessions, login, request, ticket, connected, closed>>
  PROVE  AccessOK'
<1>1. /\ relay' \in [Relays -> RelayType] /\ relay'[c] = v
      /\ \A d \in Relays \ {c} : relay'[d] = relay[d]
  BY RelayTypes
<1>2. OneMoved(c)
  BY <1>1, RelayTypes DEF OneMoved
<1>3. OpenAlone(c)
  <2> SUFFICES ASSUME v.open PROVE OpenAlone(c)
    BY <1>1 DEF OpenAlone
  <2>1. relay[c].open /\ relay[c].stage \in Registered /\ ~closed
    <3>1. \A d \in Relays : closed => ~relay[d].open
      BY DEF AccessOK, OneRelay
    <3> QED
      BY <3>1, RelayTypes
  <2>2. ASSUME NEW d \in Relays \ {c}, relay[d].open,
               AccountOf[relay[d].session] = AccountOf[v.session], relay[d].channel = v.channel
        PROVE  FALSE
    <3>1. Same(d, c)
      BY <2>1, <2>2 DEF Same, Account
    <3> QED
      BY <2>1, <2>2, <3>1 DEF AccessOK, OneRelay
  <2> QED
    BY <1>1, <2>1, <2>2 DEF OpenAlone
<1>4. LeasesFollow(c) /\ CountersFollow(c)
  BY <1>1, LeasesUnmoved, CountersUnmoved
<1> QED
  BY <1>2, <1>3, <1>4, RelayTypes, RelayMoves

\* Connection c is over and gives its lease back.
LEMMA DropOK ==
  ASSUME AccessOK, NEW c \in Relays, Drop(c), relay[c].stage \in Leasing \ Registered,
         UNCHANGED <<setup, generation, sessions, login, request, ticket, connected, closed>>
  PROVE  AccessOK'
<1>1. /\ relay' \in [Relays -> RelayType] /\ relay'[c] = Fresh
      /\ \A d \in Relays \ {c} : relay'[d] = relay[d]
  BY RelayTypes DEF Drop, RelayType, Fresh
<1>2. OneMoved(c) /\ OpenAlone(c)
  BY <1>1 DEF OneMoved, OpenAlone, Fresh
<1>3. relay[c].stage # "free" /\ relay[c].stage \in Leasing /\ relay[c].stage \notin Registered
  BY DEF Leasing, Registered
<1>4. LeasesFollow(c)
  <2> SUFFICES ASSUME NEW a \in Accounts
               PROVE  leases'[a] = leases[a] + In(c, Connections(a)') - In(c, Connections(a))
    BY DEF LeasesFollow
  <2>1. c \notin Connections(a)'
    BY <1>1 DEF Connections, Fresh, Leasing, Registered
  <2>2. c \in Connections(a) <=> Account(c) = a
    BY <1>3 DEF Connections
  <2>3. leases'[a] = IF Account(c) = a THEN leases[a] - 1 ELSE leases[a]
    BY <1>3, RelayTypes DEF Drop, Release
  <2>4. leases[a] \in Int
    BY RelayTypes
  <2> QED
    BY <2>1, <2>2, <2>3, <2>4 DEF In
<1>5. CountersFollow(c)
  <2>1. relay'[c].stage \notin Registered
    BY <1>1 DEF Fresh, Registered
  <2> QED
    BY <1>3, <2>1, CountersUnmoved
<1>6. leases' \in [Accounts -> Int]
  <2>1. leases \in [Accounts -> Int] /\ Account(c) \in Accounts
    BY <1>3, RelayTypes
  <2> QED
    BY <2>1 DEF Drop, Release
<1> QED
  BY <1>2, <1>4, <1>5, <1>6, RelayTypes, RelayMoves

LEMMA ConsumeOK ==
  ASSUME AccessOK, UNCHANGED setup, NEW c \in Relays, NEW t \in Tickets, Consume(c, t)
  PROVE  AccessOK'
<1>1. /\ ticket' \in [Tickets -> TicketType]
      /\ \A u \in Tickets : ticket'[u].stage # "none" => ticket'[u].session \in Logins
      /\ relay[c].stage = "free"
      /\ UNCHANGED <<generation, sessions, login, request, connected, closed>>
  BY RelayTypes DEF Consume, NoTicket, TicketType
<1>2. CASE UNCHANGED <<leases, relay>>
  <2>1. TypeOK' /\ RelaysKnown'
    BY <1>1, <1>2 DEF AccessOK, TypeOK, TicketType, RelaysKnown
  <2> QED
    BY <1>1, <1>2, <2>1, SessionsStay, RelaysStay, LeasesStay DEF AccessOK, SessionsOK
<1>3. CASE ~UNCHANGED <<leases, relay>>
  <2> DEFINE l == ticket[t].session
             v == [stage |-> "leased", session |-> l, channel |-> ticket[t].channel,
                   open |-> FALSE]
  <2>1. /\ relay' = [relay EXCEPT ![c] = v]
        /\ leases' = [leases EXCEPT ![AccountOf[l]] = @ + 1]
        /\ ticket[t].stage = "pending"
    BY <1>3 DEF Consume, Lease
  <2>2. l \in Logins /\ AccountOf[l] \in Accounts /\ v \in RelayType
    BY <2>1, RelayTypes, Configured DEF AccessOK, RelayType, TicketType
  <2>3. /\ relay' \in [Relays -> RelayType] /\ relay'[c] = v
        /\ \A d \in Relays \ {c} : relay'[d] = relay[d]
    BY <2>1, <2>2, RelayTypes
  <2>4. OneMoved(c) /\ OpenAlone(c)
    BY <2>2, <2>3 DEF OneMoved, OpenAlone
  <2>5. LeasesFollow(c)
    <3> SUFFICES ASSUME NEW a \in Accounts
                 PROVE  leases'[a] = leases[a] + In(c, Connections(a)') - In(c, Connections(a))
      BY DEF LeasesFollow
    <3>1. c \in Connections(a)' <=> AccountOf[l] = a
      BY <2>3 DEF Connections, Account, AccountOf, Leasing
    <3>2. c \notin Connections(a)
      BY <1>1 DEF Connections, Leasing, Registered
    <3>3. leases'[a] = IF AccountOf[l] = a THEN leases[a] + 1 ELSE leases[a]
      BY <2>1, <2>2, RelayTypes
    <3>4. leases[a] \in Int
      BY RelayTypes
    <3> QED
      BY <3>1, <3>2, <3>3, <3>4 DEF In
  <2>6. CountersFollow(c)
    <3>1. relay'[c].stage \notin Registered /\ relay[c].stage \notin Registered
      BY <1>1, <2>3 DEF Registered
    <3> QED
      BY <1>1, <3>1, CountersUnmoved
  <2>7. leases' \in [Accounts -> Int] /\ connected' \in [Accounts -> Int]
    <3>1. leases \in [Accounts -> Int] /\ connected \in [Accounts -> Int]
      BY RelayTypes
    <3> QED
      BY <1>1, <2>1, <2>2, <3>1
  <2> QED
    BY <1>1, <2>4, <2>5, <2>6, <2>7, RelayMoves
<1> QED
  BY <1>2, <1>3

LEMMA AdmitOK ==
  ASSUME AccessOK, UNCHANGED setup, NEW c \in Relays, Admit(c)
  PROVE  AccessOK'
<1>1. /\ relay[c].stage = "leased"
      /\ UNCHANGED <<generation, sessions, login, request, ticket, connected, closed>>
  BY DEF Admit
<1>2. CASE Drop(c)
  BY <1>1, <1>2, DropOK DEF Leasing, Registered
<1>3. CASE relay' = [relay EXCEPT ![c].stage = "admitted"] /\ UNCHANGED leases
  <2> DEFINE v == [relay[c] EXCEPT !.stage = "admitted"]
  <2>1. relay' = [relay EXCEPT ![c] = v] /\ v \in RelayType /\ ~relay[c].open
    BY <1>1, <1>3, RelayTypes DEF RelayType, Registered
  <2>2. /\ v.session = relay[c].session /\ v.channel = relay[c].channel
        /\ v.open = relay[c].open /\ v.stage = "admitted"
    BY RelayTypes DEF RelayType
  <2> QED
    BY <1>1, <1>3, <2>1, <2>2, MovesOn DEF Leasing, Registered
<1> QED
  BY <1>2, <1>3 DEF Admit

LEMMA RegisterOK ==
  ASSUME AccessOK, UNCHANGED setup, NEW c \in Relays, Register(c)
  PROVE  AccessOK'
<1>1. /\ relay[c].stage = "admitted" /\ ~closed /\ connected[Account(c)] < RelaysPerAccount
      /\ connected' = [connected EXCEPT ![Account(c)] = @ + 1]
      /\ UNCHANGED <<generation, leases, sessions, login, request, ticket, closed>>
  BY DEF Register
<1>2. /\ relay \in [Relays -> RelayType] /\ connected \in [Accounts -> Int]
      /\ relay[c].session \in Logins /\ Account(c) \in Accounts
  BY <1>1, RelayTypes
<1>3. ASSUME NEW d \in Relays
      PROVE  relay'[d] = IF d = c THEN [relay[c] EXCEPT !.stage = "serving", !.open = TRUE]
                         ELSE IF Same(c, d) THEN [relay[d] EXCEPT !.open = FALSE] ELSE relay[d]
  <2>1. ~Same(c, c)
    BY <1>1 DEF Same, Registered
  <2>2. CASE d = c
    BY <2>1, <2>2 DEF Register
  <2>3. CASE d # c /\ Same(c, d)
    BY <2>3 DEF Register
  <2>4. CASE d # c /\ ~Same(c, d)
    BY <2>4 DEF Register
  <2> QED
    BY <2>2, <2>3, <2>4
<1>4. /\ relay' \in [Relays -> RelayType]
      /\ relay'[c].stage = "serving" /\ relay'[c].session = relay[c].session
      /\ relay'[c].channel = relay[c].channel
      /\ \A d \in Relays \ {c} :
           /\ relay'[d].stage = relay[d].stage /\ relay'[d].session = relay[d].session
           /\ relay'[d].channel = relay[d].channel
           /\ relay'[d].open => relay[d].open /\ ~Same(c, d)
  <2>1. \A d \in Relays : relay[d] \in RelayType
    BY <1>2
  <2>2. ASSUME NEW d \in Relays
        PROVE  relay'[d] \in RelayType
    <3>1. /\ [relay[d] EXCEPT !.stage = "serving", !.open = TRUE] \in RelayType
          /\ [relay[d] EXCEPT !.open = FALSE] \in RelayType
      BY <2>1 DEF RelayType, Registered
    <3> QED
      BY <1>3, <2>1, <3>1
  <2>3. relay' \in [Relays -> RelayType]
    BY <2>2 DEF Register
  <2> QED
    BY <1>3, <2>1, <2>3 DEF RelayType
<1>5. OneMoved(c)
  BY <1>2, <1>4 DEF OneMoved
<1>6. OpenAlone(c)
  <2>1. ASSUME NEW d \in Relays \ {c}, relay'[d].open,
               AccountOf[relay'[d].session] = AccountOf[relay'[c].session],
               relay'[d].channel = relay'[c].channel
        PROVE  FALSE
    <3>1. relay[d].open /\ ~Same(c, d) /\ relay[d].stage \in Registered
      BY <1>4, <2>1, RelayTypes
    <3> QED
      BY <1>4, <2>1, <3>1 DEF Same, Account
  <2> QED
    BY <1>1, <1>4, <2>1 DEF OpenAlone, Registered
<1>7. LeasesFollow(c)
  BY <1>1, <1>4, LeasesUnmoved DEF Leasing, Registered
<1>8. CountersFollow(c)
  <2> SUFFICES ASSUME NEW a \in Accounts
               PROVE  /\ connected'[a] = connected[a] + In(c, Counted(a)') - In(c, Counted(a))
                      /\ connected'[a] <= RelaysPerAccount
    BY DEF CountersFollow
  <2>1. c \in Counted(a)' <=> Account(c) = a
    BY <1>4 DEF Counted, Account, AccountOf, Registered
  <2>2. c \notin Counted(a)
    BY <1>1 DEF Counted, Registered
  <2>3. connected'[a] = IF Account(c) = a THEN connected[a] + 1 ELSE connected[a]
    BY <1>1, <1>2
  <2>4. /\ connected[a] \in Int /\ connected[a] <= RelaysPerAccount
        /\ RelaysPerAccount \in Nat
    BY <1>2, Configured DEF AccessOK, OneRelay
  <2> QED
    BY <1>1, <2>1, <2>2, <2>3, <2>4 DEF In
<1>9. leases' \in [Accounts -> Int] /\ connected' \in [Accounts -> Int]
  <2>1. leases \in [Accounts -> Int]
    BY RelayTypes
  <2> QED
    BY <1>1, <1>2, <2>1
<1> QED
  BY <1>1, <1>5, <1>6, <1>7, <1>8, <1>9, RelayTypes, RelayMoves

LEMMA RefuseOK ==
  ASSUME AccessOK, UNCHANGED setup, NEW c \in Relays, Refuse(c)
  PROVE  AccessOK'
BY DropOK DEF Refuse, Leasing, Registered

\* The reader returns, or the socket is closed.
LEMMA SocketOK ==
  ASSUME AccessOK, UNCHANGED setup, NEW c \in Relays,
         Return(c) \/ Revalidate(c) \/ CloseSlow(c)
  PROVE  AccessOK'
<1>1. /\ relay[c].stage \in Registered
      /\ UNCHANGED <<generation, leases, sessions, login, request, ticket, connected, closed>>
  BY DEF Return, Revalidate, CloseSlow, Registered
<1>2. relay[c] \in RelayType
  BY RelayTypes
<1>3. ASSUME NEW v \in RelayType, relay' = [relay EXCEPT ![c] = v], ~v.open,
             v.session = relay[c].session, v.channel = relay[c].channel, v.stage \in Registered
      PROVE  AccessOK'
  BY <1>1, <1>3, MovesOn DEF Leasing, Registered
<1>4. CASE Return(c)
  <2> DEFINE v == [relay[c] EXCEPT !.stage = "leaving", !.open = FALSE]
  <2>1. /\ v \in RelayType /\ ~v.open /\ v.stage \in Registered
        /\ v.session = relay[c].session /\ v.channel = relay[c].channel
    BY <1>2 DEF RelayType, Registered
  <2>2. relay' = [relay EXCEPT ![c] = v]
    BY <1>4, RelayTypes DEF Return
  <2> QED
    BY <1>3, <2>1, <2>2
<1>5. CASE Revalidate(c) \/ CloseSlow(c)
  <2> DEFINE v == [relay[c] EXCEPT !.open = FALSE]
  <2>1. /\ v \in RelayType /\ ~v.open /\ v.stage \in Registered
        /\ v.session = relay[c].session /\ v.channel = relay[c].channel
    BY <1>1, <1>2 DEF RelayType
  <2>2. relay' = [relay EXCEPT ![c] = v]
    BY <1>5, RelayTypes DEF Revalidate, CloseSlow
  <2> QED
    BY <1>3, <2>1, <2>2
<1> QED
  BY <1>4, <1>5

LEMMA DeregisterOK ==
  ASSUME AccessOK, UNCHANGED setup, NEW c \in Relays, Deregister(c)
  PROVE  AccessOK'
<1>1. /\ relay[c].stage = "leaving"
      /\ relay' = [relay EXCEPT ![c].stage = "deregistered"]
      /\ connected' = [connected EXCEPT ![Account(c)] = @ - 1]
      /\ UNCHANGED <<generation, leases, sessions, login, request, ticket, closed>>
  BY DEF Deregister
<1>2. /\ relay \in [Relays -> RelayType] /\ connected \in [Accounts -> Int]
      /\ relay[c].session \in Logins /\ Account(c) \in Accounts
  BY <1>1, RelayTypes
<1>3. /\ relay' \in [Relays -> RelayType]
      /\ relay'[c].stage = "deregistered" /\ relay'[c].session = relay[c].session
      /\ relay'[c].channel = relay[c].channel /\ relay'[c].open = relay[c].open
      /\ \A d \in Relays \ {c} : relay'[d] = relay[d]
  BY <1>1, <1>2 DEF RelayType
<1>4. OneMoved(c)
  BY <1>2, <1>3 DEF OneMoved
<1>5. ~relay[c].open
  BY <1>1 DEF AccessOK, RelaysKnown
<1>6. OpenAlone(c)
  BY <1>3, <1>5 DEF OpenAlone
<1>7. LeasesFollow(c)
  BY <1>1, <1>3, LeasesUnmoved DEF Leasing, Registered
<1>8. CountersFollow(c)
  <2> SUFFICES ASSUME NEW a \in Accounts
               PROVE  /\ connected'[a] = connected[a] + In(c, Counted(a)') - In(c, Counted(a))
                      /\ connected'[a] <= RelaysPerAccount
    BY DEF CountersFollow
  <2>1. c \notin Counted(a)'
    BY <1>3 DEF Counted, Registered
  <2>2. c \in Counted(a) <=> Account(c) = a
    BY <1>1 DEF Counted, Registered
  <2>3. connected'[a] = IF Account(c) = a THEN connected[a] - 1 ELSE connected[a]
    BY <1>1, <1>2
  <2>4. /\ connected[a] \in Int /\ connected[a] <= RelaysPerAccount
        /\ RelaysPerAccount \in Nat
    BY <1>2, Configured DEF AccessOK, OneRelay
  <2> QED
    BY <2>1, <2>2, <2>3, <2>4 DEF In
<1>9. leases' \in [Accounts -> Int] /\ connected' \in [Accounts -> Int]
  <2>1. leases \in [Accounts -> Int]
    BY RelayTypes
  <2> QED
    BY <1>1, <1>2, <2>1
<1> QED
  BY <1>1, <1>4, <1>6, <1>7, <1>8, <1>9, RelayTypes, RelayMoves

LEMMA DisconnectOK ==
  ASSUME AccessOK, UNCHANGED setup, NEW c \in Relays, Disconnect(c)
  PROVE  AccessOK'
BY DropOK DEF Disconnect, Leasing, Registered

LEMMA ShutdownOK ==
  ASSUME AccessOK, UNCHANGED setup, Shutdown
  PROVE  AccessOK'
<1>1. UNCHANGED <<generation, leases, sessions, login, request, ticket, connected>> /\ closed'
  BY DEF Shutdown
<1>2. ASSUME NEW c \in Relays
      PROVE  /\ relay'[c] \in RelayType
             /\ relay'[c].stage = relay[c].stage /\ relay'[c].session = relay[c].session
             /\ ~relay'[c].open
  <2>1. relay[c] \in RelayType /\ (relay[c].open => relay[c].stage \in Registered)
    BY RelayTypes
  <2> QED
    BY <2>1 DEF Shutdown, RelayType
<1>3. TypeOK'
  <2>1. relay' \in [Relays -> RelayType]
    BY <1>2 DEF Shutdown
  <2> QED
    BY <1>1, <2>1 DEF AccessOK, TypeOK, RelayType
<1>4. RelaysKnown'
  BY <1>1, <1>2 DEF AccessOK, RelaysKnown
<1>5. \A a \in Accounts : /\ Connections(a)' = Connections(a) /\ Counted(a)' = Counted(a)
                          /\ Callers(a)' = Callers(a)
  BY <1>1, <1>2 DEF Connections, Counted, Callers, Account, AccountOf
<1>6. LeasesBalance'
  BY <1>1, <1>5 DEF AccessOK, LeasesBalance, Callers, Connections
<1>7. OneRelay'
  <2>1. \A a \in Accounts :
          connected'[a] = Cardinality(Counted(a)') /\ connected'[a] <= RelaysPerAccount'
    BY <1>1, <1>5 DEF AccessOK, OneRelay, Counted, RelaysPerAccount
  <2> QED
    BY <1>2, <2>1 DEF OneRelay, Counted
<1> QED
  BY <1>1, <1>3, <1>4, <1>6, <1>7, SessionsStay DEF AccessOK, SessionsOK

-----------------------------------------------------------------------------
(* The theorems *)

LEMMA InitAccess == Init => AccessOK
<1> SUFFICES ASSUME Init PROVE AccessOK
  OBVIOUS
<1>1. TypeOK
  <2>1. generation \in [Accounts -> 1..(MaxGeneration + 1)]
    BY SessionsAssumption DEF Init
  <2>2. /\ leases \in [Accounts -> Nat] /\ connected \in [Accounts -> Nat]
        /\ login \in [Logins -> [stage : {"none", "replied", "over"}, generation : Nat]]
    BY DEF Init
  <2>3. request \in [Requests -> RequestType] /\ relay \in [Relays -> RelayType]
    BY DEF Init, RequestType, RelayType, Idle, Fresh
  <2>4. ticket \in [Tickets -> TicketType]
    BY DEF Init, NoTicket, TicketType
  <2>5. setup \in Setups /\ sessions \subseteq Logins /\ closed \in BOOLEAN
    BY DEF Init
  <2> QED
    BY <2>1, <2>2, <2>3, <2>4, <2>5 DEF TypeOK, RequestType, RelayType, TicketType
<1>2. IsFiniteSet(sessions) /\ Cardinality(sessions) = 0
  BY FS_EmptySet DEF Init
<1>3. LoginsAreOver /\ RunsKnown /\ RelaysKnown /\ AnsweredInSession
  <2>1. \A l \in Logins : login[l].generation = 0 /\ generation[AccountOf[l]] = 1
    BY <1>1, Configured DEF Init
  <2> QED
    BY <1>2, <2>1
       DEF Init, LoginsAreOver, RunsKnown, RelaysKnown, AnsweredInSession, Idle, NoTicket, Fresh
<1>4. OneSession
  BY <1>1, <1>2, Configured DEF Init, OneSession
<1>5. ASSUME NEW a \in Accounts
      PROVE  Callers(a) = {} /\ Connections(a) = {} /\ Counted(a) = {}
  BY DEF Init, Callers, Connections, Counted, Idle, Fresh, Leasing, Registered
<1>6. Cardinality({}) = 0
  BY FS_EmptySet
<1>7. LeasesBalance
  <2> SUFFICES ASSUME NEW a \in Accounts
               PROVE  leases[a] = Cardinality(Callers(a)) + Cardinality(Connections(a))
    BY DEF LeasesBalance, Callers, Connections
  <2>1. leases[a] = 0
    BY DEF Init
  <2> QED
    BY <1>5, <1>6, <2>1
<1>8. OneRelay
  <2>1. ASSUME NEW a \in Accounts
        PROVE  connected[a] = Cardinality(Counted(a)) /\ connected[a] <= RelaysPerAccount
    <3>1. connected[a] = 0
      BY DEF Init
    <3>2. 0 <= RelaysPerAccount
      BY <1>1, Configured
    <3> QED
      BY <1>5, <1>6, <3>1, <3>2
  <2> QED
    BY <2>1 DEF Init, OneRelay, Counted, Fresh
<1> QED
  BY <1>1, <1>3, <1>4, <1>7, <1>8 DEF AccessOK

LEMMA NextAccess == AccessOK /\ [Next]_vars => AccessOK'
<1> SUFFICES ASSUME AccessOK, [Next]_vars PROVE AccessOK'
  OBVIOUS
<1>1. CASE UNCHANGED vars
  <2>1. TypeOK' /\ RelaysKnown'
    BY <1>1 DEF AccessOK, TypeOK, RelaysKnown, vars
  <2> QED
    BY <1>1, <2>1, SessionsStay, RelaysStay, LeasesStay DEF AccessOK, SessionsOK, vars
<1>2. ASSUME UNCHANGED setup, NEW l \in Logins, Renew(AccountOf[l]) PROVE AccessOK'
  BY <1>2, RenewOK
<1>3. ASSUME UNCHANGED setup, Sessions PROVE AccessOK'
  BY <1>3, LoginOK, LoginEntersOK, ExpireOK DEF Sessions
<1>4. ASSUME UNCHANGED setup, Commands PROVE AccessOK'
  <2>1. setup.requests \subseteq Requests
    BY Configured DEF AccessOK
  <2> QED
    BY <1>4, <2>1, AuthorizeOK, SubmitOK, RunsOK, AnswerOK DEF Commands
<1>5. ASSUME UNCHANGED setup, Ticketing PROVE AccessOK'
  BY <1>5, TicketOK DEF Ticketing
<1>6. ASSUME UNCHANGED setup, Relaying PROVE AccessOK'
  BY <1>6, ConsumeOK, AdmitOK, RegisterOK, RefuseOK, SocketOK, DeregisterOK, DisconnectOK
     DEF Relaying
<1>7. ASSUME UNCHANGED setup, Shutdown PROVE AccessOK'
  BY <1>7, ShutdownOK
<1> QED
  BY <1>1, <1>2, <1>3, <1>4, <1>5, <1>6, <1>7 DEF Next

\* Every variable of sessions, tickets and connections keeps its type.
THEOREM TypeCorrect == Spec => []TypeOK
<1>1. AccessOK => TypeOK
  BY DEF AccessOK
<1> QED
  BY <1>1, InitAccess, NextAccess, PTL DEF Spec

\* For any number of accounts, logins, commands, tickets and connections: one
\* session for each account, leases and counters that balance, one open
\* connection for each account and channel, success only in the generation of
\* the session.
THEOREM AccessAlwaysCoherent == Spec => []AccessIsCoherent
<1>1. AccessOK => AccessIsCoherent
  BY DEF AccessOK, AccessIsCoherent
<1> QED
  BY <1>1, InitAccess, NextAccess, PTL DEF Spec

=============================================================================
