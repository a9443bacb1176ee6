---------------------- MODULE GuildReservation_proofs ----------------------
(***************************************************************************)
(* Proofs about GuildReservation, for every value of its constants.         *)
(***************************************************************************)
EXTENDS GuildReservation, TLAPS, FiniteSetTheorems

-----------------------------------------------------------------------------
(* Type correctness *)

\* What Service.Prepare plans is an operation of the account that asks.
LEMMA PlanIsOperation ==
  ASSUME TypeOK, NEW a \in Accounts, NEW k \in Kinds, NEW s \in Accounts,
         NEW g \in Guilds \cup {None}, NEW v \in ValuesOf(k)
  PROVE  Plan(a, k, s, g, v) \in Operation /\ Plan(a, k, s, g, v).actor = a
BY DEF TypeOK, Plan, ValuesOf, Operation, Kinds

\* With the identity that it draws, the guild of an eligible operation exists
\* or is about to.
LEMMA WithGuildIsOperation ==
  ASSUME TypeOK, NEW q \in Operation, NEW p \in WithGuild(q), Eligible(p)
  PROVE  p \in Operation /\ p.guild \in Guilds /\ p.actor = q.actor
<1>1. CASE q.kind = "create"
  BY <1>1 DEF WithGuild, Operation
<1>2. CASE q.kind # "create"
  <2>1. p = q
    BY <1>2 DEF WithGuild
  <2>2. p.guild \in founded
    BY <1>2, <2>1 DEF Eligible, GuildFree
  <2> QED
    BY <2>1, <2>2 DEF TypeOK
<1> QED
  BY <1>1, <1>2

\* A reservation keeps the types of the shared file.
LEMMA ReserveType ==
  ASSUME TypeOK, NEW o \in Operations, NEW p \in Operation, p.guild \in Guilds, Reserve(o, p)
  PROVE  /\ status' \in [Operations -> Statuses]
         /\ operation' \in [Operations -> {None} \cup Operation]
         /\ pendingOf' \in [Accounts -> Operations \cup {None}]
         /\ founded' \subseteq Guilds
         /\ reserved' \in [Guilds -> SUBSET Operations]
         /\ lockOf' \in [Guilds -> Operations \cup {None}]
         /\ nameOf' \in [Guilds -> Names \cup {None}]
         /\ nameBucket' \in [Names -> Guilds \cup {None}]
         /\ UNCHANGED <<guildOf, epochOf, members, deleting, applications>>
<1>1. p.subject \in Accounts /\ (p.kind \in {"create", "rename"} => p.value \in Names)
  BY DEF Operation
<1>2. reserved' \in [Guilds -> SUBSET Operations]
  BY DEF TypeOK, Reserve
<1>3. nameOf' \in [Guilds -> Names \cup {None}] /\ nameBucket' \in [Names -> Guilds \cup {None}]
  BY <1>1 DEF TypeOK, Reserve
<1> QED
  BY <1>1, <1>2, <1>3 DEF TypeOK, Reserve, Statuses

\* The members of a guild after an operation are accounts with roles.
LEMMA MembersAfterType ==
  ASSUME TypeOK, NEW p \in Operation, p.guild \in Guilds
  PROVE  MembersAfter(p) \in Memberships
<1> DEFINE S == DOMAIN members[p.guild]
<1>1. S \subseteq Accounts /\ members[p.guild] \in [S -> Roles] /\ p.subject \in Accounts
  BY DEF TypeOK, Memberships, Operation
<1>2. \A T \in SUBSET Accounts : \A f \in [T -> Roles] : f \in Memberships
  BY DEF Memberships
<1>3. CASE Enters(p)
  <2>1. MembersAfter(p) \in [S \cup {p.subject} -> Roles]
    BY <1>1, <1>3 DEF MembersAfter, Roles
  <2> QED
    BY <1>1, <1>2, <2>1
<1>4. CASE ~Enters(p) /\ Departs(p)
  <2>1. MembersAfter(p) \in [S \ {p.subject} -> Roles]
    BY <1>1, <1>4 DEF MembersAfter, Roles
  <2> QED
    BY <1>1, <1>2, <2>1
<1>5. CASE ~Enters(p) /\ ~Departs(p) /\ p.kind = "role"
  <2>1. p.value \in Roles
    BY <1>5 DEF Operation
  <2>2. RolesAfter(p) \in [S -> Roles]
    BY <1>1, <2>1 DEF RolesAfter, Roles
  <2> QED
    BY <1>1, <1>2, <1>5, <2>2 DEF MembersAfter
<1>6. CASE ~Enters(p) /\ ~Departs(p) /\ p.kind # "role"
  BY <1>6 DEF TypeOK, MembersAfter
<1> QED
  BY <1>3, <1>4, <1>5, <1>6

\* Releasing an operation's locks keeps their types.
LEMMA UnlockedType ==
  ASSUME TypeOK, NEW o \in Operations, Unlocked(o)
  PROVE  /\ pendingOf' \in [Accounts -> Operations \cup {None}]
         /\ lockOf' \in [Guilds -> Operations \cup {None}]
         /\ reserved' \in [Guilds -> SUBSET Operations]
BY DEF TypeOK, Unlocked

\* A reservation records its operation.
Recorded == \A o \in Operations : status[o] # "none" => operation[o] \in Operation

SharedTypes ==
  /\ status \in [Operations -> Statuses]
  /\ operation \in [Operations -> {None} \cup Operation]
  /\ guildOf \in [Accounts -> Guilds \cup {None}]
  /\ epochOf \in [Accounts -> Nat]
  /\ pendingOf \in [Accounts -> Operations \cup {None}]
  /\ founded \subseteq Guilds
  /\ members \in [Guilds -> Memberships]
  /\ reserved \in [Guilds -> SUBSET Operations]
  /\ lockOf \in [Guilds -> Operations \cup {None}]
  /\ deleting \subseteq Guilds
  /\ nameOf \in [Guilds -> Names \cup {None}]
  /\ nameBucket \in [Names -> Guilds \cup {None}]
  /\ applications \subseteq Guilds \X Accounts

\* An operation that is confirmed has a founded guild.
LEMMA ConfirmType ==
  ASSUME TypeOK, Recorded, NEW o \in Operations, Confirm(o)
  PROVE  SharedTypes'
<1>1. CASE ~Applicable(o)
  BY <1>1 DEF TypeOK, SharedTypes, Confirm, shared, accountVars, guildVars
<1>2. CASE Applicable(o)
  <2> DEFINE p == operation[o]
  <2>1. p \in Operation /\ p.guild \in Guilds /\ p.subject \in Accounts
    BY <1>2 DEF TypeOK, Recorded, Applicable, Operation
  <2>2. ConfirmEffect(o)
    BY <1>2 DEF Confirm
  <2>3. members' \in [Guilds -> Memberships]
    BY <2>1, <2>2, MembersAfterType DEF TypeOK, ConfirmEffect
  <2>4. applications' \subseteq Guilds \X Accounts
    BY <2>1, <2>2 DEF TypeOK, ConfirmEffect, ApplicationsAfter
  <2>5. nameOf' \in [Guilds -> Names \cup {None}]
    BY <2>1, <2>2 DEF TypeOK, ConfirmEffect, Operation
  <2>6. nameBucket' \in [Names -> Guilds \cup {None}]
    BY <2>2 DEF TypeOK, ConfirmEffect
  <2>7. guildOf' \in [Accounts -> Guilds \cup {None}] /\ epochOf' \in [Accounts -> Nat]
    BY <2>1, <2>2 DEF TypeOK, ConfirmEffect
  <2>8. status' \in [Operations -> Statuses] /\ deleting' \subseteq Guilds
    BY <2>1, <2>2 DEF TypeOK, ConfirmEffect, Statuses
  <2>9. Unlocked(o) /\ UNCHANGED <<operation, founded>>
    BY <2>2 DEF ConfirmEffect
  <2> QED
    BY <2>3, <2>4, <2>5, <2>6, <2>7, <2>8, <2>9, UnlockedType DEF TypeOK, SharedTypes
<1> QED
  BY <1>1, <1>2

LEMMA CancelType ==
  ASSUME TypeOK, NEW o \in Operations, Cancel(o)
  PROVE  SharedTypes'
<1> DEFINE p == operation[o]
<1>1. CASE status[o] = "prepared" /\ pendingOf[p.subject] = o
  <2>1. nameBucket' \in [Names -> Guilds \cup {None}]
    BY <1>1 DEF TypeOK, Cancel, NamesAfterCancel
  <2>2. status' \in [Operations -> Statuses] /\ founded' \subseteq Guilds
    BY <1>1 DEF TypeOK, Cancel, Statuses
  <2>3. nameOf' \in [Guilds -> Names \cup {None}]
    BY <1>1 DEF TypeOK, Cancel
  <2>4. Unlocked(o) /\ UNCHANGED <<operation, guildOf, epochOf, members, deleting, applications>>
    BY <1>1 DEF Cancel
  <2> QED
    BY <2>1, <2>2, <2>3, <2>4, UnlockedType DEF TypeOK, SharedTypes
<1>2. CASE ~(status[o] = "prepared" /\ pendingOf[p.subject] = o)
  <2>1. UNCHANGED shared
    BY <1>2 DEF Cancel
  <2> QED
    BY <2>1 DEF TypeOK, SharedTypes, shared, accountVars, guildVars
<1> QED
  BY <1>1, <1>2

-----------------------------------------------------------------------------
(* The inductive invariant *)

\* What an account executes is its own operation.  Until the reservation is
\* made there is no record of it, and while its command runs nobody cancels it:
\* settlement decides an operation in a turn of the account that asked for it.
TurnsKnown ==
  \A a \in Accounts : turn[a] # Idle =>
    /\ turn[a].stage = "requesting" =>
         status[turn[a].id] = "none" /\ turn[a].plan.actor = a
    /\ turn[a].stage # "requesting" =>
         status[turn[a].id] \in {"prepared", "confirmed"} /\ operation[turn[a].id].actor = a

\* No two accounts execute the same operation.
OneTurn ==
  \A a, b \in Accounts :
    turn[a] # Idle /\ turn[b] # Idle /\ turn[a].id = turn[b].id => a = b

IInv == TypeOK /\ Recorded /\ TurnsKnown /\ OneTurn /\ CancelledHasNoProof

\* The fields of a turn that is not idle.
LEMMA TurnFields ==
  ASSUME TypeOK, NEW a \in Accounts, turn[a].stage \in Stages
  PROVE  /\ turn[a] \in [stage : Stages, id : Operations, plan : Operation, status : Statuses]
         /\ turn[a] # Idle
BY DEF TypeOK, Turns, Idle, Stages

\* Confirm decides at most its own operation, and only one that is prepared.
LEMMA ConfirmStatus ==
  ASSUME TypeOK, NEW o \in Operations, Confirm(o)
  PROVE  /\ operation' = operation
         /\ \/ status' = status
            \/ status[o] = "prepared" /\ status' = [status EXCEPT ![o] = "confirmed"]
BY DEF Confirm, ConfirmEffect, Applicable, shared

LEMMA CancelStatus ==
  ASSUME TypeOK, NEW o \in Operations, Cancel(o)
  PROVE  /\ operation' = operation
         /\ \/ status' = status
            \/ status[o] = "prepared" /\ status' = [status EXCEPT ![o] = "cancelled"]
BY DEF Cancel, shared

LEMMA InitIInv == Init => IInv
<1> SUFFICES ASSUME Init PROVE IInv
  OBVIOUS
<1>1. members \in [Guilds -> Memberships]
  <2>1. NoMembers \in [{} -> Roles]
    BY Zenon DEF NoMembers
  <2>2. NoMembers \in Memberships
    BY <2>1 DEF Memberships
  <2> QED
    BY <2>2 DEF Init
<1>2. TypeOK
  BY <1>1, ReservationAssumption DEF Init, TypeOK, Statuses, Turns
<1>3. Recorded /\ CancelledHasNoProof
  BY DEF Init, Recorded, CancelledHasNoProof
<1>4. TurnsKnown /\ OneTurn
  BY DEF Init, TurnsKnown, OneTurn
<1> QED
  BY <1>2, <1>3, <1>4 DEF IInv

\* A step of the account a that changes neither file and goes on with its
\* operation, or ends, keeps the invariant.
LEMMA TurnStep ==
  ASSUME IInv, NEW a \in Accounts, NEW t \in Turns, NEW f \in 0..MaxFaults,
         turn' = [turn EXCEPT ![a] = t], faults' = f,
         UNCHANGED <<shared, settling>>,
         \/ t = Idle
         \/ /\ turn[a].stage \in Stages \ {"requesting"}
            /\ t.stage \in Stages \ {"requesting"} /\ t.id = turn[a].id,
         \/ UNCHANGED local
         \/ turn[a].stage \in Stages \ {"requesting"} /\ Proven(a)
  PROVE  IInv'
<1>1. TypeOK'
  <2>1. turn' \in [Accounts -> Turns]
    BY DEF IInv, TypeOK
  <2>2. proofs' \subseteq Operations /\ outbox' \subseteq proofs'
    BY TurnFields DEF IInv, TypeOK, Proven, local
  <2> QED
    BY <2>1, <2>2 DEF IInv, TypeOK, shared, accountVars, guildVars
<1>2. Recorded'
  BY DEF IInv, Recorded, shared
<1>3. TurnsKnown'
  <2> SUFFICES ASSUME NEW b \in Accounts, turn'[b] # Idle
               PROVE  /\ turn'[b].stage = "requesting" =>
                           status'[turn'[b].id] = "none" /\ turn'[b].plan.actor = b
                      /\ turn'[b].stage # "requesting" =>
                           /\ status'[turn'[b].id] \in {"prepared", "confirmed"}
                           /\ operation'[turn'[b].id].actor = b
    BY DEF TurnsKnown
  <2>1. CASE b # a
    BY <2>1 DEF IInv, TypeOK, TurnsKnown, shared
  <2>2. CASE b = a
    BY <2>2, TurnFields DEF IInv, TypeOK, TurnsKnown, shared
  <2> QED
    BY <2>1, <2>2
<1>4. OneTurn'
  BY TurnFields DEF IInv, TypeOK, OneTurn
<1>5. CancelledHasNoProof'
  <2>1. CASE UNCHANGED local
    BY <2>1 DEF IInv, CancelledHasNoProof, shared, local
  <2>2. CASE turn[a].stage \in Stages \ {"requesting"} /\ Proven(a)
    <3>1. status[turn[a].id] # "cancelled"
      BY <2>2, TurnFields DEF IInv, TurnsKnown
    <3> QED
      BY <2>2, <3>1 DEF IInv, CancelledHasNoProof, Proven, shared
  <2> QED
    BY <2>1, <2>2
<1> QED
  BY <1>1, <1>2, <1>3, <1>4, <1>5 DEF IInv

\* An operation that is decided as the receipt says, with nobody's turn changed
\* but for one that ends, keeps the invariant.
LEMMA DecisionStep ==
  ASSUME IInv, NEW o \in Operations,
         \/ Confirm(o)
         \/ Cancel(o) /\ o \notin proofs /\ \A b \in Accounts : turn[b] # Idle => turn[b].id # o,
         \/ UNCHANGED turn
         \/ \E a \in Accounts : turn' = [turn EXCEPT ![a] = Idle],
         proofs' = proofs, outbox' \subseteq outbox,
         settling' \subseteq settling, faults' \in 0..MaxFaults
  PROVE  IInv'
<1>1. TypeOK /\ Recorded
  BY DEF IInv
<1>2. SharedTypes'
  BY <1>1, ConfirmType, CancelType
<1>3. /\ operation' = operation
      /\ \/ status' = status
         \/ status[o] = "prepared" /\ status' = [status EXCEPT ![o] = "confirmed"]
         \/ /\ status[o] = "prepared" /\ status' = [status EXCEPT ![o] = "cancelled"]
            /\ o \notin proofs /\ \A b \in Accounts : turn[b] # Idle => turn[b].id # o
  BY <1>1, ConfirmStatus, CancelStatus
<1>4. /\ turn' \in [Accounts -> Turns]
      /\ \A b \in Accounts : turn'[b] # Idle => turn'[b] = turn[b]
  BY <1>1 DEF TypeOK, Turns
<1>5. TypeOK'
  BY <1>1, <1>2, <1>4 DEF TypeOK, SharedTypes
<1>6. Recorded'
  BY <1>1, <1>3 DEF TypeOK, Recorded
<1>7. TurnsKnown'
  <2> SUFFICES ASSUME NEW b \in Accounts, turn'[b] # Idle
               PROVE  /\ turn'[b].stage = "requesting" =>
                           status'[turn'[b].id] = "none" /\ turn'[b].plan.actor = b
                      /\ turn'[b].stage # "requesting" =>
                           /\ status'[turn'[b].id] \in {"prepared", "confirmed"}
                           /\ operation'[turn'[b].id].actor = b
    BY DEF TurnsKnown
  <2>1. turn'[b] = turn[b]
    BY <1>4
  <2>2. turn[b].id \in Operations
    BY <1>1, <2>1 DEF TypeOK, Turns
  <2>3. \/ status'[turn[b].id] = status[turn[b].id]
        \/ status[turn[b].id] = "prepared" /\ status'[turn[b].id] = "confirmed"
    BY <1>1, <1>3, <2>1, <2>2 DEF TypeOK
  <2> QED
    BY <1>3, <2>1, <2>3 DEF IInv, TurnsKnown
<1>8. OneTurn'
  BY <1>4 DEF IInv, OneTurn
<1>9. CancelledHasNoProof'
  BY <1>1, <1>3 DEF IInv, TypeOK, CancelledHasNoProof
<1> QED
  BY <1>5, <1>6, <1>7, <1>8, <1>9 DEF IInv

\* A new request has an identity that nothing has used.
LEMMA RequestStep ==
  ASSUME IInv, NEW a \in Accounts, NEW o \in Operations, Request(a, o)
  PROVE  IInv'
<1>1. PICK p \in Operation : /\ p.actor = a
                             /\ turn' = [turn EXCEPT ![a] = Turn("requesting", o, p, "none")]
  <2>1. PICK k \in Kinds, s \in Accounts, g \in Guilds \cup {None} :
          \E v \in ValuesOf(k) :
            turn' = [turn EXCEPT ![a] = Turn("requesting", o, Plan(a, k, s, g, v), "none")]
    BY DEF Request
  <2>2. PICK v \in ValuesOf(k) :
          turn' = [turn EXCEPT ![a] = Turn("requesting", o, Plan(a, k, s, g, v), "none")]
    BY <2>1
  <2>3. Plan(a, k, s, g, v) \in Operation /\ Plan(a, k, s, g, v).actor = a
    BY PlanIsOperation DEF IInv
  <2> QED
    BY <2>2, <2>3
<1>2. status[o] = "none" /\ \A b \in Accounts : turn[b] # Idle => turn[b].id # o
  BY DEF IInv, TypeOK, Statuses, Request, Used
<1> DEFINE t == Turn("requesting", o, p, "none")
<1>3. t \in Turns /\ t.id = o /\ t.stage = "requesting" /\ t.plan = p
  BY DEF Turns, Turn, Stages, Statuses
<1> HIDE DEF t
<1>4. turn' = [turn EXCEPT ![a] = t] /\ UNCHANGED <<shared, local, settling, faults>>
  BY <1>1 DEF t, Request
<1>5. TypeOK' /\ Recorded' /\ CancelledHasNoProof'
  BY <1>3, <1>4
     DEF IInv, TypeOK, Recorded, CancelledHasNoProof, shared, accountVars, guildVars, local
<1>6. TurnsKnown'
  BY <1>1, <1>2, <1>3, <1>4 DEF IInv, TypeOK, TurnsKnown, shared
<1>7. OneTurn'
  BY <1>2, <1>3, <1>4 DEF IInv, TypeOK, OneTurn
<1> QED
  BY <1>5, <1>6, <1>7 DEF IInv

\* A repeated request takes up an operation that was its own.
LEMMA RepeatStep ==
  ASSUME IInv, NEW a \in Accounts, NEW o \in Operations, Repeat(a, o)
  PROVE  IInv'
<1> DEFINE t == Turn("reserved", o, operation[o], status[o])
<1>1. t \in Turns /\ t.id = o /\ t.stage = "reserved"
  BY DEF IInv, TypeOK, Recorded, Repeat, Turns, Turn, Stages, Statuses
<1> HIDE DEF t
<1>2. turn' = [turn EXCEPT ![a] = t] /\ UNCHANGED <<shared, local, settling, faults>>
  BY DEF t, Repeat
<1>3. status[o] \in {"prepared", "confirmed"} /\ operation[o].actor = a /\ turn[a] = Idle
  BY DEF Repeat
<1>4. TypeOK' /\ Recorded' /\ CancelledHasNoProof'
  BY <1>1, <1>2
     DEF IInv, TypeOK, Recorded, CancelledHasNoProof, shared, accountVars, guildVars, local
<1>5. TurnsKnown'
  BY <1>1, <1>2, <1>3 DEF IInv, TypeOK, TurnsKnown, shared
<1>6. \A b \in Accounts \ {a} : turn[b] # Idle => turn[b].id # o
  BY <1>3 DEF IInv, TurnsKnown
<1>7. OneTurn'
  BY <1>1, <1>2, <1>6 DEF IInv, TypeOK, OneTurn
<1> QED
  BY <1>4, <1>5, <1>7 DEF IInv

\* The reservation of a request whose turn goes on, or ends with an error.
LEMMA PrepareStep ==
  ASSUME IInv, NEW a \in Accounts, turn[a].stage = "requesting",
         NEW p \in WithGuild(turn[a].plan), Reserve(turn[a].id, p),
         \/ turn' = [turn EXCEPT ![a] = Turn("reserved", turn[a].id, p, "prepared")]
         \/ turn' = [turn EXCEPT ![a] = Idle],
         faults' \in 0..MaxFaults,
         UNCHANGED <<local, settling>>
  PROVE  IInv'
<1> DEFINE o == turn[a].id
<1>1. /\ o \in Operations /\ turn[a].plan \in Operation /\ turn[a] # Idle
      /\ status[o] = "none" /\ turn[a].plan.actor = a
  BY TurnFields DEF IInv, TurnsKnown, Stages
<1>2. p \in Operation /\ p.guild \in Guilds /\ p.actor = a
  BY <1>1, WithGuildIsOperation DEF IInv, Reserve
<1> HIDE DEF o
<1>3. /\ Reserve(o, p)
      /\ status' = [status EXCEPT ![o] = "prepared"]
      /\ operation' = [operation EXCEPT ![o] = p]
  BY DEF o, Reserve
<1>4. \/ turn' = [turn EXCEPT ![a] = Turn("reserved", o, p, "prepared")]
      \/ turn' = [turn EXCEPT ![a] = Idle]
  BY DEF o
<1>5. /\ Turn("reserved", o, p, "prepared") \in Turns
      /\ Turn("reserved", o, p, "prepared").id = o
      /\ Turn("reserved", o, p, "prepared").stage = "reserved"
  BY <1>1, <1>2 DEF Turn, Turns, Stages, Statuses
<1>6. turn' \in [Accounts -> Turns]
  BY <1>4, <1>5 DEF IInv, TypeOK, Turns
<1>7. TypeOK'
  BY <1>1, <1>2, <1>3, <1>6, ReserveType DEF IInv, TypeOK, local
<1>8. Recorded'
  BY <1>1, <1>2, <1>3 DEF IInv, TypeOK, Recorded
<1>9. \A b \in Accounts \ {a} : turn[b] # Idle => turn[b].id # o
  BY <1>1 DEF o, IInv, OneTurn
<1>10. TurnsKnown'
  <2> SUFFICES ASSUME NEW b \in Accounts, turn'[b] # Idle
               PROVE  /\ turn'[b].stage = "requesting" =>
                           status'[turn'[b].id] = "none" /\ turn'[b].plan.actor = b
                      /\ turn'[b].stage # "requesting" =>
                           /\ status'[turn'[b].id] \in {"prepared", "confirmed"}
                           /\ operation'[turn'[b].id].actor = b
    BY DEF TurnsKnown
  <2>1. CASE b = a
    BY <1>1, <1>2, <1>3, <1>4, <1>5, <2>1 DEF IInv, TypeOK
  <2>2. CASE b # a
    <3>1. turn'[b] = turn[b]
      BY <1>4, <2>2 DEF IInv, TypeOK
    <3>2. turn[b].id \in Operations /\ turn[b].id # o
      BY <1>9, <2>2, <3>1 DEF IInv, TypeOK, Turns
    <3>3. status'[turn[b].id] = status[turn[b].id] /\ operation'[turn[b].id] = operation[turn[b].id]
      BY <1>3, <3>2 DEF IInv, TypeOK
    <3> QED
      BY <3>1, <3>3 DEF IInv, TurnsKnown
  <2> QED
    BY <2>1, <2>2
<1>11. OneTurn'
  BY <1>4, <1>5, <1>9 DEF IInv, TypeOK, OneTurn
<1>12. CancelledHasNoProof'
  BY <1>1, <1>3 DEF IInv, TypeOK, CancelledHasNoProof, local
<1> QED
  BY <1>7, <1>8, <1>10, <1>11, <1>12 DEF IInv

\* The deletion of a guild touches no reservation.
LEMMA FinalizeStep ==
  ASSUME IInv, NEW g \in Guilds, FinalizeDeletion(g)
  PROVE  IInv'
<1>1. NoMembers \in Memberships
  <2>1. NoMembers \in [{} -> Roles]
    BY Zenon DEF NoMembers
  <2> QED
    BY <2>1 DEF Memberships
<1>2. members' \in [Guilds -> Memberships]
  BY <1>1 DEF IInv, TypeOK, FinalizeDeletion
<1>3. guildOf' \in [Accounts -> Guilds \cup {None}] /\ epochOf' \in [Accounts -> Nat]
  BY DEF IInv, TypeOK, FinalizeDeletion
<1>4. /\ nameBucket' \in [Names -> Guilds \cup {None}]
      /\ nameOf' \in [Guilds -> Names \cup {None}]
      /\ applications' \subseteq Guilds \X Accounts
      /\ founded' \subseteq Guilds /\ deleting' \subseteq Guilds
  BY DEF IInv, TypeOK, FinalizeDeletion
<1>5. TypeOK'
  BY <1>2, <1>3, <1>4 DEF IInv, TypeOK, FinalizeDeletion, local
<1> QED
  BY <1>5
     DEF IInv, Recorded, TurnsKnown, OneTurn, CancelledHasNoProof, FinalizeDeletion, local

\* No step of an account, of the dispatcher or of the settlement, and no crash,
\* breaks the invariant.
LEMMA NextIInv == IInv /\ [Next]_vars => IInv'
<1> SUFFICES ASSUME IInv, [Next]_vars PROVE IInv'
  OBVIOUS
<1> USE DEF Fault
<1>a. TypeOK
  BY DEF IInv
<1>b. Idle \in Turns /\ faults \in 0..MaxFaults /\ faults + 1 \in Nat
  BY <1>a, ReservationAssumption DEF TypeOK, Turns
<1>1. ASSUME NEW a \in Accounts, NEW o \in Operations, Request(a, o) \/ Repeat(a, o) PROVE IInv'
  BY <1>1, RequestStep, RepeatStep
<1>2. ASSUME NEW a \in Accounts, Prepare(a) PROVE IInv'
  BY <1>2, <1>b, PrepareStep DEF Prepare
<1>3. ASSUME NEW a \in Accounts, PrepareUnreported(a) PROVE IInv'
  <2>1. faults' \in 0..MaxFaults
    BY <1>3, <1>b, ReservationAssumption DEF PrepareUnreported
  <2> QED
    BY <1>3, <2>1, PrepareStep DEF PrepareUnreported
<1>4. ASSUME NEW a \in Accounts, PrepareRefused(a) PROVE IInv'
  BY <1>4, <1>b, TurnStep DEF PrepareRefused, shared, local
<1>5. ASSUME NEW a \in Accounts, ApplyKnown(a) \/ ApplyPanics(a) PROVE IInv'
  <2> DEFINE t == [turn[a] EXCEPT !.stage = "replying"]
  <2>1. turn[a].stage \in Stages \ {"requesting"} /\ turn' = [turn EXCEPT ![a] = t]
    BY <1>5, <1>a DEF ApplyKnown, ApplyPanics, Stages, TypeOK
  <2>2. t \in Turns /\ t.id = turn[a].id /\ t.stage = "replying"
    BY <2>1, <1>a, TurnFields DEF Turns, Stages
  <2>3. UNCHANGED <<shared, local, settling, faults>>
    BY <1>5 DEF ApplyKnown, ApplyPanics
  <2> QED
    BY <1>b, <2>1, <2>2, <2>3, TurnStep DEF Stages
<1>6. ASSUME NEW a \in Accounts, Apply(a) PROVE IInv'
  <2> DEFINE t == [turn[a] EXCEPT !.stage = "applied"]
  <2>1. turn[a].stage \in Stages \ {"requesting"} /\ turn' = [turn EXCEPT ![a] = t]
    BY <1>6, <1>a DEF Apply, Stages, TypeOK
  <2>2. t \in Turns /\ t.id = turn[a].id /\ t.stage = "applied"
    BY <2>1, <1>a, TurnFields DEF Turns, Stages
  <2> QED
    BY <1>6, <1>b, <2>1, <2>2, TurnStep DEF Apply, Stages
<1>7. ASSUME NEW a \in Accounts, ApplyFails(a) PROVE IInv'
  BY <1>7, <1>b, TurnStep DEF ApplyFails
<1>8. ASSUME NEW a \in Accounts, CommitLocal(a) PROVE IInv'
  <2> DEFINE t == [turn[a] EXCEPT !.stage = "replying"]
  <2>1. turn[a].stage \in Stages \ {"requesting"} /\ turn' = [turn EXCEPT ![a] = t]
    BY <1>8, <1>a DEF CommitLocal, Stages, TypeOK
  <2>2. t \in Turns /\ t.id = turn[a].id /\ t.stage = "replying"
    BY <2>1, <1>a, TurnFields DEF Turns, Stages
  <2> QED
    BY <1>8, <1>b, <2>1, <2>2, TurnStep DEF CommitLocal, Stages
<1>9. ASSUME NEW a \in Accounts, CommitUnreported(a) PROVE IInv'
  <2>1. faults' \in 0..MaxFaults /\ turn[a].stage \in Stages \ {"requesting"}
    BY <1>9, <1>b, ReservationAssumption DEF CommitUnreported, Stages
  <2> QED
    BY <1>9, <1>b, <2>1, TurnStep DEF CommitUnreported
<1>10. ASSUME NEW a \in Accounts, ConfirmDeferred(a) PROVE IInv'
  <2>1. turn[a].id \in Operations
    BY <1>10, <1>a, TurnFields DEF ConfirmDeferred, Stages
  <2> QED
    BY <1>10, <1>b, <2>1, DecisionStep DEF ConfirmDeferred, local
<1>11. ASSUME NEW a \in Accounts, ConfirmFails(a) PROVE IInv'
  <2>1. faults' \in 0..MaxFaults
    BY <1>11, <1>b, ReservationAssumption DEF ConfirmFails
  <2> QED
    BY <1>11, <1>b, <2>1, TurnStep DEF ConfirmFails
<1>12. ASSUME NEW o \in Operations, Deliver(o) PROVE IInv'
  BY <1>12, <1>b, DecisionStep DEF Deliver
<1>13. ASSUME NEW o \in Operations, DeliverUnacknowledged(o) PROVE IInv'
  <2>1. faults' \in 0..MaxFaults
    BY <1>13, <1>b, ReservationAssumption DEF DeliverUnacknowledged
  <2> QED
    BY <1>13, <2>1, DecisionStep DEF DeliverUnacknowledged, local
<1>14. ASSUME NEW o \in Operations, Reconcile(o) PROVE IInv'
  <2>1. CASE o \in proofs
    BY <1>14, <1>b, <2>1, DecisionStep DEF Reconcile, Decide, local
  <2>2. CASE o \notin proofs /\ status[o] # "prepared"
    <3>1. Confirm(o)
      BY <1>14, <2>2 DEF Reconcile, Decide, Cancel, Confirm, Applicable
    <3> QED
      BY <1>14, <1>b, <3>1, DecisionStep DEF Reconcile, local
  <2>3. CASE o \notin proofs /\ status[o] = "prepared"
    <3>1. \A b \in Accounts : turn[b] # Idle => turn[b].id # o
      BY <1>14, <2>3 DEF Reconcile, OwnerFree, IInv, TurnsKnown
    <3>2. Cancel(o)
      BY <1>14, <2>3 DEF Reconcile, Decide
    <3> QED
      BY <1>14, <1>b, <2>3, <3>1, <3>2, DecisionStep DEF Reconcile, local
  <2> QED
    BY <2>1, <2>2, <2>3
<1>15. CASE SettleStarts
  BY <1>15, <1>a
     DEF SettleStarts, IInv, TypeOK, Recorded, TurnsKnown, OneTurn, CancelledHasNoProof,
         shared, accountVars, guildVars, local
<1>16. CASE SettleFails
  BY <1>16, <1>a, <1>b, ReservationAssumption
     DEF SettleFails, IInv, TypeOK, Recorded, TurnsKnown, OneTurn, CancelledHasNoProof,
         shared, accountVars, guildVars, local
<1>17. ASSUME NEW g \in Guilds, FinalizeDeletion(g) PROVE IInv'
  BY <1>17, FinalizeStep
<1>18. CASE Crash
  <2>1. turn' \in [Accounts -> Turns] /\ \A b \in Accounts : turn'[b] = Idle
    BY <1>18, <1>b DEF Crash
  <2>2. faults' \in 0..MaxFaults
    BY <1>18, <1>b, ReservationAssumption DEF Crash
  <2>3. TypeOK'
    BY <1>18, <1>a, <2>1, <2>2 DEF Crash, TypeOK, shared, accountVars, guildVars, local
  <2> QED
    BY <1>18, <2>1, <2>3
       DEF Crash, IInv, Recorded, TurnsKnown, OneTurn, CancelledHasNoProof, shared, local
<1>19. CASE UNCHANGED vars
  BY <1>19, <1>a
     DEF vars, IInv, TypeOK, Recorded, TurnsKnown, OneTurn, CancelledHasNoProof,
         shared, accountVars, guildVars, local
<1> QED
  BY <1>1, <1>2, <1>3, <1>4, <1>5, <1>6, <1>7, <1>8, <1>9, <1>10, <1>11, <1>12, <1>13,
     <1>14, <1>15, <1>16, <1>17, <1>18, <1>19 DEF Next

\* Every variable keeps its type.
THEOREM TypeCorrect == Spec => []TypeOK
<1>1. IInv => TypeOK
  BY DEF IInv
<1> QED
  BY <1>1, InitIInv, NextIInv, PTL DEF Spec

\* What settlement cancels was not committed by its account, and never will be.
THEOREM CancelledNeverCommitted == Spec => []CancelledHasNoProof
<1>1. IInv => CancelledHasNoProof
  BY DEF IInv
<1> QED
  BY <1>1, InitIInv, NextIInv, PTL DEF Spec

-----------------------------------------------------------------------------
(* Without panics, only what is committed is confirmed *)

\* The deferred Confirm runs only for a command that committed its receipt.
RepliesProven == \A a \in Accounts : turn[a].stage = "replying" => turn[a].id \in proofs

\* A step that proves what it confirms keeps the agreement of the two files.
LEMMA AgreementStep ==
  ASSUME TypeOK, RepliesProven, ConfirmedHasProof,
         proofs \subseteq proofs',
         \/ status' = status
         \/ \E o \in Operations, s \in {"prepared", "cancelled"} : status' = [status EXCEPT ![o] = s]
         \/ \E o \in proofs : status' = [status EXCEPT ![o] = "confirmed"],
         \A a \in Accounts : \/ turn'[a] = turn[a]
                             \/ turn'[a].stage = "replying" => turn'[a].id \in proofs'
  PROVE  RepliesProven' /\ ConfirmedHasProof'
BY DEF TypeOK, RepliesProven, ConfirmedHasProof

\* An operation that is decided as its receipt says.
LEMMA DecidedStatus ==
  ASSUME TypeOK, NEW o \in Operations,
         \/ o \in proofs /\ Confirm(o)
         \/ Cancel(o)
  PROVE  \/ status' = status
         \/ \E s \in {"prepared", "cancelled"} : status' = [status EXCEPT ![o] = s]
         \/ \E u \in proofs : status' = [status EXCEPT ![u] = "confirmed"]
BY ConfirmStatus, CancelStatus

\* A handler that panics is the only step that can break the agreement.
LEMMA NextAgreement ==
  ASSUME ~PanicsHappen, IInv, RepliesProven, ConfirmedHasProof, [Next]_vars
  PROVE  RepliesProven' /\ ConfirmedHasProof'
<1>a. TypeOK
  BY DEF IInv
<1>b. Idle.stage # "replying" /\ outbox \subseteq proofs /\ proofs \subseteq Operations
  BY <1>a DEF Idle, TypeOK
<1>1. ASSUME NEW a \in Accounts, NEW t \in Turns, turn' = [turn EXCEPT ![a] = t],
             t.stage = "replying" => t.id \in proofs', proofs \subseteq proofs',
             \/ status' = status
             \/ \E o \in Operations, s \in {"prepared", "cancelled"} : status' = [status EXCEPT ![o] = s]
             \/ \E o \in proofs : status' = [status EXCEPT ![o] = "confirmed"]
      PROVE  RepliesProven' /\ ConfirmedHasProof'
  <2>1. \A b \in Accounts : turn'[b] = turn[b] \/ turn'[b] = t
    BY <1>1, <1>a DEF TypeOK
  <2> QED
    BY <1>1, <1>a, <2>1, AgreementStep
<1>2. ASSUME NEW a \in Accounts, NEW o \in Operations, Request(a, o) \/ Repeat(a, o)
      PROVE  RepliesProven' /\ ConfirmedHasProof'
  <2>1. \A p, s : Turn("requesting", o, p, s).stage # "replying"
                  /\ Turn("reserved", o, p, s).stage # "replying"
    BY DEF Turn
  <2>2. \A b \in Accounts : turn'[b] = turn[b] \/ turn'[b].stage # "replying"
    BY <1>2, <1>a, <2>1 DEF Request, Repeat, TypeOK
  <2> QED
    BY <1>2, <1>a, <2>2, AgreementStep DEF Request, Repeat, shared, local
<1>3. ASSUME NEW a \in Accounts, Prepare(a) \/ PrepareUnreported(a)
      PROVE  RepliesProven' /\ ConfirmedHasProof'
  <2>1. turn[a].id \in Operations
    BY <1>3, <1>a, TurnFields DEF Prepare, PrepareUnreported, Stages
  <2>2. status' = [status EXCEPT ![turn[a].id] = "prepared"]
    BY <1>3 DEF Prepare, PrepareUnreported, Reserve
  <2>3. \A p : Turn("reserved", turn[a].id, p, "prepared").stage # "replying"
    BY DEF Turn
  <2>4. \A b \in Accounts : turn'[b] = turn[b] \/ turn'[b].stage # "replying"
    BY <1>3, <1>a, <1>b, <2>3 DEF Prepare, PrepareUnreported, TypeOK
  <2> QED
    BY <1>3, <1>a, <2>1, <2>2, <2>4, AgreementStep DEF Prepare, PrepareUnreported, local
<1>4. ASSUME NEW a \in Accounts, PrepareRefused(a) \/ ApplyFails(a) \/ ConfirmFails(a)
      PROVE  RepliesProven' /\ ConfirmedHasProof'
  <2>1. turn' = [turn EXCEPT ![a] = Idle] /\ status' = status /\ proofs' = proofs
    BY <1>4 DEF PrepareRefused, ApplyFails, ConfirmFails, shared, local
  <2> QED
    BY <1>1, <1>b, <2>1 DEF Turns
<1>5. ASSUME NEW a \in Accounts, ApplyKnown(a) \/ Apply(a)
      PROVE  RepliesProven' /\ ConfirmedHasProof'
  <2>1. turn[a].stage \in Stages
    BY <1>5 DEF ApplyKnown, Apply, Stages
  <2>2. \A b \in Accounts : \/ turn'[b] = turn[b]
                            \/ turn'[b].stage = "replying" => turn'[b].id \in proofs'
    BY <1>5, <1>a, <2>1, TurnFields DEF ApplyKnown, Apply, TypeOK, local
  <2> QED
    BY <1>5, <1>a, <2>2, AgreementStep DEF ApplyKnown, Apply, shared, local
<1>6. ASSUME NEW a \in Accounts, CommitLocal(a) \/ CommitUnreported(a)
      PROVE  RepliesProven' /\ ConfirmedHasProof'
  <2>1. turn[a].stage \in Stages
    BY <1>6 DEF CommitLocal, CommitUnreported, Stages
  <2>2. \A b \in Accounts : \/ turn'[b] = turn[b]
                            \/ turn'[b].stage = "replying" => turn'[b].id \in proofs'
    BY <1>6, <1>a, <1>b, <2>1, TurnFields DEF CommitLocal, CommitUnreported, Proven, TypeOK
  <2> QED
    BY <1>6, <1>a, <2>2, AgreementStep DEF CommitLocal, CommitUnreported, Proven, shared
<1>7. ASSUME NEW a \in Accounts, ConfirmDeferred(a) PROVE RepliesProven' /\ ConfirmedHasProof'
  <2>1. turn[a].id \in Operations /\ turn[a].id \in proofs /\ Confirm(turn[a].id)
    BY <1>7, <1>a, TurnFields DEF ConfirmDeferred, RepliesProven, Stages
  <2> QED
    BY <1>1, <1>7, <1>a, <1>b, <2>1, DecidedStatus DEF ConfirmDeferred, local, Turns
<1>8. ASSUME NEW o \in Operations, Deliver(o) \/ DeliverUnacknowledged(o) \/ Reconcile(o)
      PROVE  RepliesProven' /\ ConfirmedHasProof'
  <2>1. (o \in proofs /\ Confirm(o)) \/ Cancel(o)
    BY <1>8, <1>b DEF Deliver, DeliverUnacknowledged, Reconcile, Decide
  <2>2. turn' = turn /\ proofs' = proofs
    BY <1>8 DEF Deliver, DeliverUnacknowledged, Reconcile, local
  <2> QED
    BY <1>a, <2>1, <2>2, DecidedStatus, AgreementStep
<1>9. CASE SettleStarts \/ SettleFails \/ \E g \in Guilds : FinalizeDeletion(g)
  BY <1>9, <1>a, AgreementStep DEF SettleStarts, SettleFails, FinalizeDeletion, shared, local
<1>10. CASE Crash
  <2>1. \A b \in Accounts : turn'[b] = Idle
    BY <1>10 DEF Crash
  <2> QED
    BY <1>10, <1>a, <1>b, <2>1, AgreementStep DEF Crash, shared, local
<1>11. CASE UNCHANGED vars
  BY <1>11, <1>a, AgreementStep DEF vars, shared, local
<1>12. \A a \in Accounts : ~ApplyPanics(a)
  BY DEF ApplyPanics
<1> QED
  BY <1>2, <1>3, <1>4, <1>5, <1>6, <1>7, <1>8, <1>9, <1>10, <1>11, <1>12 DEF Next

\* Where no handler panics, the shared file confirms only what the file of the
\* account has committed.
THEOREM ConfirmedWasCommitted ==
  ASSUME ~PanicsHappen
  PROVE  Spec => []ConfirmedHasProof
<1> DEFINE Agreement == IInv /\ RepliesProven /\ ConfirmedHasProof
<1>1. Init => RepliesProven /\ ConfirmedHasProof
  BY DEF Init, RepliesProven, ConfirmedHasProof, Idle
<1>2. Init => Agreement
  BY <1>1, InitIInv
<1>3. Agreement /\ [Next]_vars => Agreement'
  BY NextIInv, NextAgreement
<1>4. Agreement => ConfirmedHasProof
  OBVIOUS
<1> HIDE DEF Agreement
<1> QED
  BY <1>2, <1>3, <1>4, PTL DEF Spec

-----------------------------------------------------------------------------
(***************************************************************************)
(* More proofs about GuildReservation: no reservation leaks its locks, the   *)
(* buckets of the shared file agree with each other, and every guild has one *)
(* master.                                                                   *)
(***************************************************************************)

-----------------------------------------------------------------------------
(* The inductive invariant *)

\* What was true when operation o was prepared stays true while its locks hold.
Fits(o) ==
  LET p == operation[o]
      g == p.guild
  IN  /\ p.kind = "apply" => guildOf[p.subject] = None
      /\ p.kind \in {"leave", "ban", "role"} => guildOf[p.subject] = g
      /\ p.kind = "ban" => RoleIn(g, p.subject) # "admin"
      /\ p.kind = "leave" /\ RoleIn(g, p.subject) = "admin" =>
           DOMAIN members[g] = {p.subject} /\ reserved[g] = {}
      /\ p.kind = "role" => /\ p.actor # p.subject
                            /\ RoleIn(g, p.actor) = "admin" /\ RoleIn(g, p.subject) # "admin"
      /\ p.kind = "create" => /\ members[g] = NoMembers /\ nameOf[g] = p.value
                              /\ \A a \in Accounts : <<g, a>> \notin applications
      /\ g \in deleting => p.kind = "cancelDelete"

\* A prepared operation holds the locks of its account and of its guild.
PreparedKnown ==
  \A o \in Operations : status[o] = "prepared" =>
    /\ pendingOf[operation[o].subject] = o
    /\ lockOf[operation[o].guild] = o
    /\ operation[o].guild \in founded
    /\ Fits(o)

\* Whatever is locked, is locked by a prepared operation on it.
HoldersKnown ==
  /\ \A a \in Accounts : pendingOf[a] # None =>
       status[pendingOf[a]] = "prepared" /\ operation[pendingOf[a]].subject = a
  /\ \A g \in Guilds : lockOf[g] # None =>
       status[lockOf[g]] = "prepared" /\ operation[lockOf[g]].guild = g
  /\ \A g \in Guilds : \A o \in reserved[g] :
       status[o] = "prepared" /\ operation[o].guild = g

\* A guild that is not founded has nobody and nothing.
Unfounded ==
  \A g \in Guilds \ founded : members[g] = NoMembers /\ reserved[g] = {}

Countable ==
  \A g \in Guilds : IsFiniteSet(DOMAIN members[g]) /\ IsFiniteSet(reserved[g])

\* OneMaster without counting.
AdminsIn(m) == {a \in DOMAIN m : m[a] = "admin"}

Masters(g) == AdminsIn(members[g])

MastersKnown ==
  /\ \A g \in founded :
       \/ \E a \in Accounts : Masters(g) = {a}
       \/ members[g] = NoMembers /\ lockOf[g] # None /\ operation[lockOf[g]].kind = "create"
  /\ deleting \subseteq founded
  /\ \A g \in deleting : reserved[g] = {} /\ \E a \in Accounts : DOMAIN members[g] = {a}

SharedOK ==
  /\ PreparedKnown /\ HoldersKnown /\ Unfounded /\ Countable
  /\ OneMembership /\ SeatsBounded /\ NamesAreOwned /\ ApplicantsAreFree
  /\ MastersKnown

GInv == IInv /\ SharedOK

-----------------------------------------------------------------------------
(* What the parts of the invariant say of one operation and of two *)

LEMMA OperationFields ==
  ASSUME NEW p \in Operation
  PROVE  /\ p.kind \in Kinds /\ p.actor \in Accounts /\ p.subject \in Accounts
         /\ p.guild \in Guilds \cup {None}
         /\ p.kind \in {"create", "rename"} => p.value \in Names
         /\ p.kind = "role" => p.value \in Roles
BY DEF Operation

LEMMA PreparedFields ==
  ASSUME GInv, NEW o \in Operations, status[o] = "prepared"
  PROVE  /\ operation[o] \in Operation /\ operation[o].kind \in Kinds
         /\ operation[o].actor \in Accounts /\ operation[o].subject \in Accounts
         /\ operation[o].guild \in Guilds /\ operation[o].guild \in founded
         /\ pendingOf[operation[o].subject] = o /\ lockOf[operation[o].guild] = o
         /\ Fits(o) /\ o # None
<1>1. operation[o] \in Operation
  BY DEF GInv, IInv, Recorded
<1>2. founded \subseteq Guilds
  BY DEF GInv, IInv, TypeOK
<1> QED
  BY <1>1, <1>2, OperationFields, ReservationAssumption DEF GInv, SharedOK, PreparedKnown

\* Two prepared operations have two subjects and two guilds.
LEMMA PreparedApart ==
  ASSUME GInv, NEW o \in Operations, NEW u \in Operations, u # o,
         status[o] = "prepared", status[u] = "prepared"
  PROVE  /\ operation[u].subject # operation[o].subject
         /\ operation[u].guild # operation[o].guild
BY PreparedFields

\* A guild that nothing locks has no seat reserved, and nothing prepared.
LEMMA UnlockedGuild ==
  ASSUME GInv, NEW g \in Guilds, lockOf[g] = None
  PROVE  /\ reserved[g] = {}
         /\ \A o \in Operations : status[o] = "prepared" => operation[o].guild # g
<1>1. \A o \in Operations : status[o] = "prepared" => operation[o].guild # g
  BY PreparedFields
<1>2. reserved[g] \subseteq Operations
  BY DEF GInv, IInv, TypeOK
<1> QED
  BY <1>1, <1>2 DEF GInv, SharedOK, HoldersKnown

\* What was prepared stays so if its account and its guild are left alone.
LEMMA FitsStays ==
  ASSUME NEW o \in Operations, operation'[o] = operation[o], Fits(o),
         guildOf'[operation[o].subject] = guildOf[operation[o].subject],
         members'[operation[o].guild] = members[operation[o].guild],
         reserved'[operation[o].guild] = reserved[operation[o].guild],
         nameOf'[operation[o].guild] = nameOf[operation[o].guild],
         operation[o].guild \in deleting' => operation[o].guild \in deleting,
         \A a \in Accounts : <<operation[o].guild, a>> \in applications' =>
           <<operation[o].guild, a>> \in applications
  PROVE  Fits(o)'
BY DEF Fits, RoleIn

LEMMA NoMembersDomain == DOMAIN NoMembers = {}
BY DEF NoMembers

-----------------------------------------------------------------------------
(* A reservation *)

\* Operation p is prepared under the new identity o.
Reserves(o, p) ==
  /\ status[o] = "none"
  /\ p.guild \in Guilds
  /\ p.kind = "create" => p.guild \notin founded
  /\ Reserve(o, p)

LEMMA ReservesWhat ==
  ASSUME GInv, NEW o \in Operations, NEW p \in Operation, Reserves(o, p)
  PROVE  /\ pendingOf[p.subject] = None /\ lockOf[p.guild] = None /\ reserved[p.guild] = {}
         /\ p.kind # "create" => p.guild \in founded
         /\ p.guild \in deleting => p.kind = "cancelDelete"
         /\ p.kind \in {"create", "join", "apply", "accept"} => guildOf[p.subject] = None
         /\ Enters(p) /\ p.kind # "create" => SeatFree(p.guild)
         /\ p.kind = "create" => nameBucket[p.value] = None
         /\ p.kind = "rename" => NameFree(p)
         /\ p.kind = "leave" => MayLeave(p)
         /\ p.kind = "ban" => MayBan(p)
         /\ p.kind = "role" => MayChangeRole(p)
<1>1. Eligible(p) /\ SubjectFree(p)
  BY DEF Reserves, Reserve
<1>2. CASE p.kind = "create"
  <2>1. p.guild \in Guilds \ founded /\ p.guild \notin deleting
    BY <1>2 DEF Reserves, GInv, SharedOK, MastersKnown
  <2>2. lockOf[p.guild] = None
    <3>1. lockOf[p.guild] \in Operations \cup {None}
      BY <2>1 DEF GInv, IInv, TypeOK
    <3> QED
      BY <2>1, <3>1, PreparedFields DEF GInv, SharedOK, HoldersKnown
  <2>3. MayEnter(p) /\ nameBucket[p.value] = None
    BY <1>1, <1>2 DEF Eligible, GuildFree, Reserves
  <2> QED
    BY <1>1, <1>2, <2>1, <2>2, <2>3, UnlockedGuild DEF SubjectFree, MayEnter
<1>3. CASE p.kind # "create"
  <2>1. GuildFree(p)
    BY <1>1, <1>3 DEF Eligible
  <2>2. reserved[p.guild] = {}
    BY <2>1, UnlockedGuild DEF GuildFree, Reserves
  <2> QED
    BY <1>1, <1>3, <2>1, <2>2 DEF Eligible, GuildFree, SubjectFree, MayEnter, Enters
<1> QED
  BY <1>2, <1>3

-----------------------------------------------------------------------------
(* What a decision leaves *)

\* A guild has at most the seat of the operation that locks it.
LEMMA OwnSeat ==
  ASSUME GInv, NEW o \in Operations, status[o] = "prepared"
  PROVE  reserved[operation[o].guild] \subseteq {o}
<1>1. reserved[operation[o].guild] \subseteq Operations
  BY PreparedFields DEF GInv, IInv, TypeOK
<1>2. \A u \in reserved[operation[o].guild] : status[u] = "prepared" /\ operation[u].guild = operation[o].guild
  BY PreparedFields DEF GInv, SharedOK, HoldersKnown
<1> QED
  BY <1>1, <1>2, PreparedApart

\* The locks of a decided operation are released, and no others.
LEMMA UnlockedEffect ==
  ASSUME GInv, NEW o \in Operations, status[o] = "prepared", Unlocked(o)
  PROVE  /\ pendingOf'[operation[o].subject] = None
         /\ \A a \in Accounts \ {operation[o].subject} : pendingOf'[a] = pendingOf[a]
         /\ lockOf'[operation[o].guild] = None /\ reserved'[operation[o].guild] = {}
         /\ \A h \in Guilds \ {operation[o].guild} :
              lockOf'[h] = lockOf[h] /\ reserved'[h] = reserved[h]
<1> DEFINE s == operation[o].subject
           g == operation[o].guild
<1>1. s \in Accounts /\ g \in Guilds /\ lockOf[g] = o /\ o # None
  BY PreparedFields
<1>2. ASSUME NEW h \in Guilds \ {g}
      PROVE  lockOf[h] # o /\ o \notin reserved[h]
  BY <1>1 DEF GInv, SharedOK, HoldersKnown
<1> HIDE DEF s, g
<1>3. pendingOf' = [pendingOf EXCEPT ![s] = None]
  BY DEF Unlocked, s
<1>4. \A h \in Guilds : /\ lockOf'[h] = IF lockOf[h] = o THEN None ELSE lockOf[h]
                        /\ reserved'[h] = reserved[h] \ {o}
  BY DEF Unlocked
<1>5. pendingOf'[s] = None /\ \A a \in Accounts \ {s} : pendingOf'[a] = pendingOf[a]
  BY <1>1, <1>3 DEF GInv, IInv, TypeOK
<1>6. lockOf'[g] = None /\ reserved'[g] = {}
  BY <1>1, <1>4, OwnSeat DEF g
<1>7. \A h \in Guilds \ {g} : lockOf'[h] = lockOf[h] /\ reserved'[h] = reserved[h]
  BY <1>2, <1>4
<1> QED
  BY <1>5, <1>6, <1>7 DEF s, g

\* Whatever else it does, a decision leaves each lock to its operation.
LEMMA DecisionLocks ==
  ASSUME GInv, NEW o \in Operations, status[o] = "prepared", Unlocked(o),
         NEW d \in {"confirmed", "cancelled"},
         status' = [status EXCEPT ![o] = d], operation' = operation,
         founded \ {operation[o].guild} \subseteq founded',
         \A u \in Operations \ {o} : status[u] = "prepared" => Fits(u)'
  PROVE  PreparedKnown' /\ HoldersKnown'
<1> DEFINE s == operation[o].subject
           g == operation[o].guild
<1>1. /\ pendingOf'[s] = None
      /\ \A a \in Accounts \ {s} : pendingOf'[a] = pendingOf[a]
      /\ lockOf'[g] = None /\ reserved'[g] = {}
      /\ \A h \in Guilds \ {g} : lockOf'[h] = lockOf[h] /\ reserved'[h] = reserved[h]
  BY UnlockedEffect
<1>2. /\ d # "prepared" /\ status'[o] = d
      /\ \A u \in Operations \ {o} : status'[u] = status[u]
  BY DEF GInv, IInv, TypeOK
<1>3. s \in Accounts /\ g \in Guilds /\ pendingOf[s] = o /\ lockOf[g] = o
  BY PreparedFields
<1>4. PreparedKnown'
  <2> SUFFICES ASSUME NEW u \in Operations, status'[u] = "prepared"
               PROVE  /\ pendingOf'[operation[u].subject] = u
                      /\ lockOf'[operation[u].guild] = u
                      /\ operation[u].guild \in founded'
                      /\ Fits(u)'
    BY DEF PreparedKnown
  <2>1. u # o /\ status[u] = "prepared"
    BY <1>2
  <2>2. /\ operation[u].subject \in Accounts \ {s} /\ operation[u].guild \in Guilds \ {g}
        /\ pendingOf[operation[u].subject] = u /\ lockOf[operation[u].guild] = u
        /\ operation[u].guild \in founded
    BY <2>1, PreparedFields, PreparedApart
  <2> QED
    BY <1>1, <2>1, <2>2
<1>5. HoldersKnown'
  <2>1. ASSUME NEW a \in Accounts, pendingOf'[a] # None
        PROVE  status'[pendingOf'[a]] = "prepared" /\ operation[pendingOf'[a]].subject = a
    <3>1. a # s /\ pendingOf'[a] = pendingOf[a]
      BY <1>1, <2>1
    <3>2. status[pendingOf[a]] = "prepared" /\ operation[pendingOf[a]].subject = a
      BY <2>1, <3>1 DEF GInv, SharedOK, HoldersKnown
    <3>3. pendingOf[a] \in Operations
      BY <2>1, <3>1 DEF GInv, IInv, TypeOK
    <3> QED
      BY <1>2, <3>1, <3>2, <3>3
  <2>2. ASSUME NEW h \in Guilds, lockOf'[h] # None
        PROVE  status'[lockOf'[h]] = "prepared" /\ operation[lockOf'[h]].guild = h
    <3>1. h # g /\ lockOf'[h] = lockOf[h]
      BY <1>1, <2>2
    <3>2. status[lockOf[h]] = "prepared" /\ operation[lockOf[h]].guild = h
      BY <2>2, <3>1 DEF GInv, SharedOK, HoldersKnown
    <3>3. lockOf[h] \in Operations
      BY <2>2, <3>1 DEF GInv, IInv, TypeOK
    <3> QED
      BY <1>2, <3>1, <3>2, <3>3
  <2>3. ASSUME NEW h \in Guilds, NEW u \in reserved'[h]
        PROVE  status'[u] = "prepared" /\ operation[u].guild = h
    <3>1. h # g /\ u \in reserved[h]
      BY <1>1
    <3>2. status[u] = "prepared" /\ operation[u].guild = h /\ u \in Operations
      BY <3>1 DEF GInv, IInv, TypeOK, SharedOK, HoldersKnown
    <3> QED
      BY <1>2, <3>1, <3>2
  <2> QED
    BY <2>1, <2>2, <2>3 DEF HoldersKnown
<1> QED
  BY <1>4, <1>5

-----------------------------------------------------------------------------
(* One guild changes at a time *)

\* Guild h is left as it was.
Untouched(h) ==
  /\ members'[h] = members[h] /\ reserved'[h] = reserved[h] /\ lockOf'[h] = lockOf[h]
  /\ nameOf'[h] = nameOf[h]
  /\ h \in founded' <=> h \in founded
  /\ h \in deleting' <=> h \in deleting
  /\ \A a \in Accounts : <<h, a>> \in applications' => <<h, a>> \in applications

\* Masters and deletions are a matter of the guild that changes.
LEMMA MastersElsewhere ==
  ASSUME GInv, NEW g \in Guilds, \A h \in Guilds \ {g} : Untouched(h),
         founded' \subseteq Guilds, deleting' \subseteq Guilds,
         \A u \in Operations : status[u] = "prepared" => operation'[u] = operation[u],
         g \in founded' => \/ \E a \in Accounts : Masters(g)' = {a}
                           \/ /\ members'[g] = NoMembers /\ lockOf'[g] # None
                              /\ operation'[lockOf'[g]].kind = "create",
         g \in deleting' => /\ g \in founded' /\ reserved'[g] = {}
                            /\ \E a \in Accounts : DOMAIN members'[g] = {a}
  PROVE  MastersKnown'
<1>1. ASSUME NEW h \in founded'
      PROVE  \/ \E a \in Accounts : Masters(h)' = {a}
             \/ /\ members'[h] = NoMembers /\ lockOf'[h] # None
                /\ operation'[lockOf'[h]].kind = "create"
  <2>1. CASE h # g
    <3>1. h \in Guilds \ {g} /\ h \in founded
      BY <2>1 DEF Untouched
    <3>2. members'[h] = members[h] /\ lockOf'[h] = lockOf[h]
      BY <3>1 DEF Untouched
    <3>3. CASE \E a \in Accounts : Masters(h) = {a}
      BY <3>2, <3>3 DEF Masters, AdminsIn
    <3>4. CASE /\ members[h] = NoMembers /\ lockOf[h] # None
               /\ operation[lockOf[h]].kind = "create"
      <4>1. lockOf[h] \in Operations /\ status[lockOf[h]] = "prepared"
        BY <3>1, <3>4 DEF GInv, IInv, TypeOK, SharedOK, HoldersKnown
      <4> QED
        BY <3>2, <3>4, <4>1
    <3> QED
      BY <3>1, <3>3, <3>4 DEF GInv, SharedOK, MastersKnown
  <2>2. CASE h = g
    BY <2>2
  <2> QED
    BY <2>1, <2>2
<1>2. ASSUME NEW h \in deleting'
      PROVE  h \in founded' /\ reserved'[h] = {} /\ \E a \in Accounts : DOMAIN members'[h] = {a}
  <2>1. CASE h # g
    <3>1. h \in Guilds \ {g} /\ h \in deleting
      BY <2>1 DEF Untouched
    <3> QED
      BY <3>1 DEF Untouched, GInv, SharedOK, MastersKnown
  <2>2. CASE h = g
    BY <2>2
  <2> QED
    BY <2>1, <2>2
<1> QED
  BY <1>1, <1>2 DEF MastersKnown

\* And so is what belongs to guilds that are not founded.
LEMMA UnfoundedElsewhere ==
  ASSUME GInv, NEW g \in Guilds, \A h \in Guilds \ {g} : Untouched(h),
         g \in founded' \/ (members'[g] = NoMembers /\ reserved'[g] = {})
  PROVE  Unfounded'
BY DEF Untouched, GInv, SharedOK, Unfounded

\* An operation on another guild and account stays prepared.
LEMMA FitsElsewhere ==
  ASSUME GInv, NEW g \in Guilds, NEW a \in Accounts, NEW u \in Operations,
         \A h \in Guilds \ {g} : Untouched(h),
         \A b \in Accounts \ {a} : guildOf'[b] = guildOf[b],
         status[u] = "prepared", operation'[u] = operation[u],
         operation[u].guild # g, operation[u].subject # a
  PROVE  Fits(u)'
<1>1. /\ operation[u].guild \in Guilds \ {g} /\ operation[u].subject \in Accounts \ {a}
      /\ Fits(u)
  BY PreparedFields
<1> QED
  BY <1>1, FitsStays DEF Untouched

\* Seats are only given up.
LEMMA FewerSeats ==
  ASSUME GInv,
         \A h \in Guilds : /\ DOMAIN members'[h] \subseteq DOMAIN members[h]
                           /\ reserved'[h] \subseteq reserved[h]
  PROVE  Countable' /\ SeatsBounded'
<1> SUFFICES ASSUME NEW h \in Guilds
             PROVE  /\ IsFiniteSet(DOMAIN members'[h]) /\ IsFiniteSet(reserved'[h])
                    /\ Cardinality(DOMAIN members'[h]) + Cardinality(reserved'[h]) <= MaxMembers
  BY DEF Countable, SeatsBounded
<1>1. \A S, T : IsFiniteSet(S) /\ T \subseteq S =>
        /\ IsFiniteSet(T) /\ Cardinality(T) <= Cardinality(S)
        /\ Cardinality(T) \in Nat /\ Cardinality(S) \in Nat
  BY FS_Subset, FS_CardinalityType
<1>2. IsFiniteSet(DOMAIN members[h]) /\ IsFiniteSet(reserved[h])
  BY DEF GInv, SharedOK, Countable
<1>3. Cardinality(DOMAIN members[h]) + Cardinality(reserved[h]) <= MaxMembers
  BY DEF GInv, SharedOK, SeatsBounded
<1>4. /\ IsFiniteSet(DOMAIN members'[h])
      /\ Cardinality(DOMAIN members'[h]) <= Cardinality(DOMAIN members[h])
      /\ Cardinality(DOMAIN members'[h]) \in Nat /\ Cardinality(DOMAIN members[h]) \in Nat
  BY <1>1, <1>2
<1>5. /\ IsFiniteSet(reserved'[h]) /\ Cardinality(reserved'[h]) <= Cardinality(reserved[h])
      /\ Cardinality(reserved'[h]) \in Nat /\ Cardinality(reserved[h]) \in Nat
  BY <1>1, <1>2
<1> QED
  BY <1>3, <1>4, <1>5, ReservationAssumption

-----------------------------------------------------------------------------
(* Names *)

\* A prepared operation gives guild h the name n.
Renaming(h, n) ==
  \E o \in Operations : status[o] = "prepared" /\ operation[o].kind = "rename"
                        /\ operation[o].guild = h /\ operation[o].value = n

\* The names of a guild with a prepared operation: its own, and the new one.
LEMMA OwnNames ==
  ASSUME GInv, NEW o \in Operations, status[o] = "prepared", NEW n \in Names
  PROVE  /\ Renaming(operation[o].guild, n) <=>
              operation[o].kind = "rename" /\ operation[o].value = n
         /\ nameBucket[n] = operation[o].guild <=>
              \/ nameOf[operation[o].guild] = n
              \/ operation[o].kind = "rename" /\ operation[o].value = n
         /\ operation[o].kind \in {"create", "rename"} =>
              operation[o].value \in Names /\ nameBucket[operation[o].value] = operation[o].guild
<1> DEFINE g == operation[o].guild
           v == operation[o].value
<1>1. g \in Guilds /\ g \in founded /\ operation[o] \in Operation
  BY PreparedFields
<1>2. \A m \in Names : Renaming(g, m) <=> operation[o].kind = "rename" /\ v = m
  <2>1. \A u \in Operations : status[u] = "prepared" /\ operation[u].guild = g => u = o
    BY PreparedApart
  <2> QED
    BY <2>1 DEF Renaming
<1>3. \A m \in Names : nameBucket[m] = g <=> nameOf[g] = m \/ Renaming(g, m)
  BY <1>1 DEF GInv, SharedOK, NamesAreOwned, Renaming
<1>4. ASSUME operation[o].kind \in {"create", "rename"}
      PROVE  v \in Names /\ nameBucket[v] = g
  <2>1. v \in Names
    BY <1>1, <1>4, OperationFields
  <2>2. CASE operation[o].kind = "rename"
    BY <1>2, <1>3, <2>1, <2>2
  <2>3. CASE operation[o].kind = "create"
    <3>1. nameOf[g] = v
      BY <2>3, PreparedFields DEF Fits
    <3> QED
      BY <1>3, <2>1, <3>1
  <2> QED
    BY <1>4, <2>1, <2>2, <2>3
<1> QED
  BY <1>2, <1>3, <1>4

\* A decision ends the renaming of its own guild only.
LEMMA DecidedRenaming ==
  ASSUME GInv, NEW o \in Operations, status[o] = "prepared",
         NEW d \in {"confirmed", "cancelled"},
         status' = [status EXCEPT ![o] = d], operation' = operation,
         NEW h \in Guilds, NEW n \in Names
  PROVE  Renaming(h, n)' <=> Renaming(h, n) /\ h # operation[o].guild
<1>1. /\ status'[o] # "prepared"
      /\ \A u \in Operations \ {o} : status'[u] = status[u]
  BY DEF GInv, IInv, TypeOK
<1>2. \A u \in Operations \ {o} : status[u] = "prepared" => operation[u].guild # operation[o].guild
  BY PreparedApart
<1> QED
  BY <1>1, <1>2 DEF Renaming

\* The names of the other guilds stay as they are.
LEMMA NamesElsewhere ==
  ASSUME GInv, NEW g \in Guilds, \A h \in Guilds \ {g} : Untouched(h),
         \A h \in Guilds \ {g}, n \in Names : Renaming(h, n)' <=> Renaming(h, n),
         \A n \in Names : nameBucket'[n] = nameBucket[n]
                          \/ (nameBucket[n] \notin Guilds \ {g} /\ nameBucket'[n] \notin Guilds \ {g}),
         \A n \in Names : nameBucket'[n] = g <=> (g \in founded' /\ nameOf'[g] = n) \/ Renaming(g, n)'
  PROVE  NamesAreOwned'
<1>1. ASSUME NEW h \in Guilds, NEW n \in Names
      PROVE  nameBucket'[n] = h <=> (h \in founded' /\ nameOf'[h] = n) \/ Renaming(h, n)'
  <2>1. CASE h # g
    <3>1. nameBucket'[n] = h <=> nameBucket[n] = h
      BY <2>1
    <3>2. nameBucket[n] = h <=> (h \in founded /\ nameOf[h] = n) \/ Renaming(h, n)
      BY DEF GInv, SharedOK, NamesAreOwned, Renaming
    <3> QED
      BY <2>1, <3>1, <3>2 DEF Untouched
  <2>2. CASE h = g
    BY <2>2
  <2> QED
    BY <2>1, <2>2
<1> QED
  BY <1>1 DEF NamesAreOwned, Renaming

-----------------------------------------------------------------------------
(* Cancel *)

LEMMA CancelShared ==
  ASSUME GInv, NEW o \in Operations, status[o] = "prepared", Cancel(o), TypeOK'
  PROVE  SharedOK'
<1> DEFINE p == operation[o]
           s == p.subject
<1>0. PICK g \in Guilds : p.guild = g
  BY PreparedFields
<1>1. /\ p \in Operation /\ p.guild = g /\ g \in founded /\ s \in Accounts
      /\ pendingOf[s] = o /\ lockOf[g] = o /\ o # None /\ Fits(o)
  BY <1>0, PreparedFields
<1>2. /\ status' = [status EXCEPT ![o] = "cancelled"]
      /\ Unlocked(o)
      /\ nameBucket' = NamesAfterCancel(p)
      /\ nameOf' = IF p.kind = "create" THEN [nameOf EXCEPT ![g] = None] ELSE nameOf
      /\ founded' = IF p.kind = "create" THEN founded \ {g} ELSE founded
      /\ UNCHANGED <<operation, guildOf, epochOf, members, deleting, applications>>
  BY <1>1 DEF Cancel, NamesAfterCancel
<1>3. /\ lockOf'[g] = None /\ reserved'[g] = {}
      /\ \A h \in Guilds \ {g} : lockOf'[h] = lockOf[h] /\ reserved'[h] = reserved[h]
  BY <1>1, <1>2, UnlockedEffect
<1>4. \A h \in Guilds \ {g} : Untouched(h)
  <2>1. \A h \in Guilds \ {g} : nameOf'[h] = nameOf[h] /\ (h \in founded' <=> h \in founded)
    BY <1>2 DEF GInv, IInv, TypeOK
  <2> QED
    BY <1>2, <1>3, <2>1 DEF Untouched
<1>5. PreparedKnown' /\ HoldersKnown'
  <2>1. ASSUME NEW u \in Operations \ {o}, status[u] = "prepared"
        PROVE  Fits(u)'
    <3>1. operation[u].guild # g /\ operation[u].subject # s
      BY <1>1, <2>1, PreparedApart
    <3> QED
      BY <1>1, <1>2, <1>4, <2>1, <3>1, FitsElsewhere
  <2>2. founded \ {g} \subseteq founded' /\ operation' = operation
    BY <1>2
  <2> QED
    BY <1>1, <1>2, <2>1, <2>2, DecisionLocks
<1>6. Unfounded'
  <2>1. g \in founded' \/ (members'[g] = NoMembers /\ reserved'[g] = {})
    BY <1>1, <1>2, <1>3 DEF Fits
  <2> QED
    BY <1>1, <1>4, <2>1, UnfoundedElsewhere
<1>7. Countable' /\ SeatsBounded'
  <2>1. \A h \in Guilds : /\ DOMAIN members'[h] \subseteq DOMAIN members[h]
                          /\ reserved'[h] \subseteq reserved[h]
    BY <1>2, <1>3
  <2> QED
    BY <2>1, FewerSeats
<1>8. OneMembership'
  BY <1>2 DEF GInv, SharedOK, OneMembership
<1>9. ApplicantsAreFree'
  <2>1. ASSUME NEW x \in applications
        PROVE  x[1] \in founded' /\ guildOf[x[2]] = None
    <3>1. x[1] \in founded /\ guildOf[x[2]] = None /\ x = <<x[1], x[2]>> /\ x[2] \in Accounts
      BY DEF GInv, IInv, TypeOK, SharedOK, ApplicantsAreFree
    <3>2. p.kind = "create" => x[1] # g
      BY <1>1, <3>1 DEF Fits
    <3> QED
      BY <1>2, <3>1, <3>2
  <2> QED
    BY <1>2, <2>1 DEF ApplicantsAreFree
<1>10. MastersKnown'
  <2>1. ASSUME g \in founded' PROVE \E a \in Accounts : Masters(g)' = {a}
    <3>1. p.kind # "create"
      BY <1>2, <2>1
    <3>2. \E a \in Accounts : Masters(g) = {a}
      BY <1>1, <3>1 DEF GInv, SharedOK, MastersKnown
    <3> QED
      BY <1>2, <3>2 DEF Masters, AdminsIn
  <2>2. ASSUME g \in deleting' PROVE g \in founded' /\ \E a \in Accounts : DOMAIN members'[g] = {a}
    <3>1. p.kind # "create" /\ g \in deleting
      BY <1>1, <1>2, <2>2 DEF Fits
    <3> QED
      BY <1>1, <1>2, <3>1 DEF GInv, SharedOK, MastersKnown
  <2>3. founded' \subseteq Guilds /\ deleting' \subseteq Guilds
    BY DEF TypeOK
  <2> QED
    BY <1>1, <1>2, <1>3, <1>4, <2>1, <2>2, <2>3, MastersElsewhere
<1>11. NamesAreOwned'
  <2>1. \A h \in Guilds, n \in Names : Renaming(h, n)' <=> Renaming(h, n) /\ h # g
    BY <1>1, <1>2, DecidedRenaming
  <2>2. /\ \A n \in Names : nameBucket[n] = g <=> nameOf[g] = n \/ (p.kind = "rename" /\ p.value = n)
        /\ p.kind \in {"create", "rename"} => p.value \in Names /\ nameBucket[p.value] = g
    BY <1>1, OwnNames, OperationFields
  <2>3. \A n \in Names : nameBucket'[n] =
          IF /\ p.kind = "create" \/ (p.kind = "rename" /\ p.value # nameOf[g])
             /\ n = p.value
          THEN None ELSE nameBucket[n]
    BY <1>1, <1>2 DEF NamesAfterCancel, GInv, IInv, TypeOK
  <2>4. \A n \in Names : nameBucket'[n] = nameBucket[n]
                         \/ (nameBucket[n] \notin Guilds \ {g} /\ nameBucket'[n] \notin Guilds \ {g})
    BY <2>2, <2>3, ReservationAssumption
  <2>5. \A n \in Names : ~Renaming(g, n)'
    BY <2>1
  <2>6. \A h \in Guilds \ {g}, n \in Names : Renaming(h, n)' <=> Renaming(h, n)
    BY <2>1
  <2>7. ASSUME NEW n \in Names
        PROVE  nameBucket'[n] = g <=> (g \in founded' /\ nameOf'[g] = n) \/ Renaming(g, n)'
    <3>1. nameBucket[n] = g <=> nameOf[g] = n \/ (p.kind = "rename" /\ p.value = n)
      BY <2>2
    <3>2. CASE p.kind = "create"
      <4>1. nameOf[g] = p.value /\ g \notin founded'
        BY <1>1, <1>2, <3>2 DEF Fits
      <4>2. nameBucket'[n] = IF n = p.value THEN None ELSE nameBucket[n]
        BY <2>3, <3>2
      <4> QED
        BY <1>1, <2>5, <3>1, <3>2, <4>1, <4>2, ReservationAssumption
    <3>3. CASE p.kind # "create"
      <4>1. nameOf' = nameOf /\ g \in founded'
        BY <1>1, <1>2, <3>3
      <4>2. nameBucket'[n] = IF p.kind = "rename" /\ p.value # nameOf[g] /\ n = p.value
                             THEN None ELSE nameBucket[n]
        BY <2>3, <3>3
      <4> QED
        BY <1>1, <2>5, <3>1, <3>3, <4>1, <4>2, ReservationAssumption
    <3> QED
      BY <3>2, <3>3
  <2>8. \A n \in Names : nameBucket'[n] = g <=> (g \in founded' /\ nameOf'[g] = n) \/ Renaming(g, n)'
    BY <2>7
  <2> QED
    BY <1>1, <1>4, <2>4, <2>6, <2>8, NamesElsewhere
<1> QED
  BY <1>5, <1>6, <1>7, <1>8, <1>9, <1>10, <1>11 DEF SharedOK

-----------------------------------------------------------------------------
(* The deletion of a guild *)

LEMMA FinalizeShared ==
  ASSUME GInv, NEW g \in Guilds, FinalizeDeletion(g), TypeOK'
  PROVE  SharedOK'
<1>1. /\ g \in deleting /\ g \in founded /\ lockOf[g] = None /\ reserved[g] = {}
      /\ \A a \in DOMAIN members[g] : pendingOf[a] = None
  BY DEF FinalizeDeletion, Due, GInv, SharedOK, MastersKnown
<1>2. /\ UNCHANGED <<status, operation, pendingOf, reserved, lockOf>>
      /\ members'[g] = NoMembers /\ g \notin founded' /\ g \notin deleting'
      /\ \A h \in Guilds \ {g} : Untouched(h)
      /\ \A a \in Accounts : guildOf'[a] = IF a \in DOMAIN members[g] THEN None ELSE guildOf[a]
      /\ applications' = {x \in applications : x[1] # g}
  BY DEF FinalizeDeletion, Untouched, GInv, IInv, TypeOK
<1>3. \A u \in Operations : status[u] = "prepared" => operation[u].guild # g
  BY <1>1, UnlockedGuild
<1>4. PreparedKnown'
  <2> SUFFICES ASSUME NEW u \in Operations, status[u] = "prepared"
               PROVE  /\ pendingOf[operation[u].subject] = u /\ lockOf[operation[u].guild] = u
                      /\ operation[u].guild \in founded' /\ Fits(u)'
    BY <1>2 DEF PreparedKnown
  <2>1. /\ operation[u].guild \in Guilds \ {g} /\ operation[u].guild \in founded
        /\ operation[u].subject \in Accounts
        /\ pendingOf[operation[u].subject] = u /\ lockOf[operation[u].guild] = u
        /\ u # None /\ Fits(u)
    BY <1>3, PreparedFields
  <2>2. operation[u].subject \notin DOMAIN members[g]
    BY <1>1, <2>1
  <2>3. Fits(u)'
    BY <1>2, <2>1, <2>2, FitsStays DEF Untouched
  <2> QED
    BY <1>2, <2>1, <2>3 DEF Untouched
<1>5. HoldersKnown'
  BY <1>2 DEF GInv, SharedOK, HoldersKnown
<1>6. Unfounded'
  BY <1>1, <1>2, UnfoundedElsewhere
<1>7. Countable' /\ SeatsBounded'
  <2>1. \A h \in Guilds : /\ DOMAIN members'[h] \subseteq DOMAIN members[h]
                          /\ reserved'[h] \subseteq reserved[h]
    BY <1>2, NoMembersDomain DEF Untouched
  <2> QED
    BY <2>1, FewerSeats
<1>8. OneMembership'
  <2> SUFFICES ASSUME NEW a \in Accounts, NEW h \in Guilds
               PROVE  a \in DOMAIN members'[h] <=> guildOf'[a] = h
    BY DEF OneMembership
  <2>1. /\ a \in DOMAIN members[h] <=> guildOf[a] = h
        /\ a \in DOMAIN members[g] <=> guildOf[a] = g
        /\ None \notin Guilds
    BY ReservationAssumption DEF GInv, SharedOK, OneMembership
  <2>2. CASE h = g
    BY <1>2, <2>1, <2>2, NoMembersDomain
  <2>3. CASE h # g
    BY <1>2, <2>1, <2>3 DEF Untouched
  <2> QED
    BY <2>2, <2>3
<1>9. ApplicantsAreFree'
  <2>1. ASSUME NEW x \in applications'
        PROVE  x[1] \in founded' /\ guildOf'[x[2]] = None
    <3>1. /\ x[1] \in founded /\ guildOf[x[2]] = None /\ x[1] # g
          /\ x[1] \in Guilds /\ x[2] \in Accounts
      BY <1>2 DEF GInv, IInv, TypeOK, SharedOK, ApplicantsAreFree
    <3> QED
      BY <1>2, <3>1 DEF Untouched
  <2> QED
    BY <2>1 DEF ApplicantsAreFree
<1>10. MastersKnown'
  <2>1. founded' \subseteq Guilds /\ deleting' \subseteq Guilds
    BY DEF TypeOK
  <2> QED
    BY <1>2, <2>1, MastersElsewhere
<1>11. NamesAreOwned'
  <2>1. \A h \in Guilds, n \in Names : Renaming(h, n)' <=> Renaming(h, n)
    BY <1>2 DEF Renaming
  <2>2. \A n \in Names : ~Renaming(g, n)
    BY <1>3 DEF Renaming
  <2>3. \A n \in Names : nameBucket[n] = g <=> nameOf[g] = n
    BY <1>1, <2>2 DEF GInv, SharedOK, NamesAreOwned, Renaming
  <2>4. \A n \in Names : nameBucket'[n] = IF n = nameOf[g] THEN None ELSE nameBucket[n]
    BY DEF FinalizeDeletion, GInv, IInv, TypeOK
  <2>5. \A n \in Names : nameBucket'[n] # g
    BY <2>3, <2>4, ReservationAssumption
  <2>6. \A n \in Names : nameBucket'[n] = nameBucket[n]
                         \/ (nameBucket[n] \notin Guilds \ {g} /\ nameBucket'[n] \notin Guilds \ {g})
    BY <2>3, <2>4, ReservationAssumption
  <2>7. \A n \in Names : nameBucket'[n] = g <=> (g \in founded' /\ nameOf'[g] = n) \/ Renaming(g, n)'
    BY <1>2, <2>1, <2>2, <2>5
  <2> QED
    BY <1>2, <2>1, <2>6, <2>7, NamesElsewhere
<1> QED
  BY <1>4, <1>5, <1>6, <1>7, <1>8, <1>9, <1>10, <1>11 DEF SharedOK

-----------------------------------------------------------------------------
(* The buckets after a reservation *)

\* One more seat is reserved in a guild that had room for it.
LEMMA SeatReserved ==
  ASSUME GInv, NEW g \in Guilds, NEW o \in Operations, members' = members,
         \A h \in Guilds \ {g} : Untouched(h), reserved'[g] = {o},
         Cardinality(DOMAIN members[g]) < MaxMembers
  PROVE  Countable' /\ SeatsBounded'
<1>1. IsFiniteSet({o}) /\ Cardinality({o}) = 1
  BY FS_Singleton
<1>2. IsFiniteSet(DOMAIN members[g]) /\ Cardinality(DOMAIN members[g]) \in Nat
  BY FS_CardinalityType DEF GInv, SharedOK, Countable
<1>3. Countable'
  BY <1>1 DEF Untouched, GInv, SharedOK, Countable
<1>4. Cardinality(DOMAIN members[g]) + Cardinality({o}) <= MaxMembers
  BY <1>1, <1>2, ReservationAssumption
<1>5. SeatsBounded'
  BY <1>4 DEF Untouched, GInv, SharedOK, SeatsBounded
<1> QED
  BY <1>3, <1>5

LEMMA ReserveShared ==
  ASSUME GInv, NEW o \in Operations, NEW p \in Operation, Reserves(o, p), TypeOK'
  PROVE  SharedOK'
<1> DEFINE g == p.guild
           s == p.subject
<1>1. g \in Guilds /\ s \in Accounts /\ o # None /\ status[o] = "none"
  BY OperationFields, ReservationAssumption DEF Reserves
<1>2. /\ pendingOf[s] = None /\ lockOf[g] = None /\ reserved[g] = {}
      /\ p.kind # "create" => g \in founded
      /\ p.kind = "create" => g \notin founded
      /\ g \in deleting => p.kind = "cancelDelete"
      /\ p.kind \in {"create", "join", "apply", "accept"} => guildOf[s] = None
      /\ Enters(p) /\ p.kind # "create" => SeatFree(g)
      /\ p.kind = "create" => nameBucket[p.value] = None
      /\ p.kind = "rename" => NameFree(p)
      /\ p.kind = "leave" => MayLeave(p)
      /\ p.kind = "ban" => MayBan(p)
      /\ p.kind = "role" => MayChangeRole(p)
  BY ReservesWhat DEF Reserves
<1>3. /\ status'[o] = "prepared" /\ operation'[o] = p
      /\ pendingOf'[s] = o /\ lockOf'[g] = o /\ g \in founded'
      /\ reserved'[g] = IF Enters(p) THEN {o} ELSE {}
      /\ nameOf'[g] = IF p.kind = "create" THEN p.value ELSE nameOf[g]
      /\ UNCHANGED <<guildOf, members, deleting, applications>>
  <2>1. Reserve(o, p)
    BY DEF Reserves
  <2>2. status'[o] = "prepared" /\ operation'[o] = p /\ pendingOf'[s] = o /\ lockOf'[g] = o
    BY <1>1, <2>1 DEF Reserve, GInv, IInv, TypeOK
  <2>3. reserved'[g] = IF Enters(p) THEN {o} ELSE {}
    <3>1. CASE Enters(p)
      BY <1>1, <1>2, <2>1, <3>1 DEF Reserve, GInv, IInv, TypeOK
    <3>2. CASE ~Enters(p)
      BY <1>1, <1>2, <2>1, <3>2 DEF Reserve, GInv, IInv, TypeOK
    <3> QED
      BY <3>1, <3>2
  <2>4. nameOf'[g] = IF p.kind = "create" THEN p.value ELSE nameOf[g]
    BY <1>1, <2>1 DEF Reserve, GInv, IInv, TypeOK
  <2> QED
    BY <2>1, <2>2, <2>3, <2>4 DEF Reserve
<1>4. /\ \A u \in Operations \ {o} : status'[u] = status[u] /\ operation'[u] = operation[u]
      /\ \A a \in Accounts \ {s} : pendingOf'[a] = pendingOf[a]
  BY DEF Reserves, Reserve, GInv, IInv, TypeOK
<1>5. \A h \in Guilds \ {g} : Untouched(h)
  BY DEF Reserves, Reserve, Untouched, GInv, IInv, TypeOK
<1>6. \A u \in Operations : status[u] = "prepared" =>
        u # o /\ operation[u].guild # g /\ operation[u].subject # s
  BY <1>1, <1>2, PreparedFields, UnlockedGuild
<1>7. Fits(o)'
  <2>1. p.kind = "create" => members[g] = NoMembers /\ \A a \in Accounts : <<g, a>> \notin applications
    BY <1>1, <1>2 DEF GInv, SharedOK, Unfounded, ApplicantsAreFree
  <2>2. p.kind = "leave" => ~Enters(p)
    BY DEF Enters
  <2> QED
    BY <1>2, <1>3, <2>1, <2>2 DEF Fits, RoleIn, MayLeave, MayBan, MayChangeRole
<1>8. PreparedKnown'
  <2> SUFFICES ASSUME NEW u \in Operations, status'[u] = "prepared"
               PROVE  /\ pendingOf'[operation'[u].subject] = u
                      /\ lockOf'[operation'[u].guild] = u
                      /\ operation'[u].guild \in founded' /\ Fits(u)'
    BY DEF PreparedKnown
  <2>1. CASE u = o
    BY <1>3, <1>7, <2>1
  <2>2. CASE u # o
    <3>1. status[u] = "prepared" /\ operation'[u] = operation[u]
      BY <1>4, <2>2
    <3>2. /\ operation[u].guild \in Guilds \ {g} /\ operation[u].guild \in founded
          /\ operation[u].subject \in Accounts \ {s}
          /\ pendingOf[operation[u].subject] = u /\ lockOf[operation[u].guild] = u
      BY <1>6, <3>1, PreparedFields
    <3>3. Fits(u)'
      BY <1>1, <1>3, <1>5, <3>1, <3>2, FitsElsewhere
    <3> QED
      BY <1>4, <1>5, <3>1, <3>2, <3>3 DEF Untouched
  <2> QED
    BY <2>1, <2>2
<1>9. HoldersKnown'
  <2>1. ASSUME NEW a \in Accounts, pendingOf'[a] # None
        PROVE  status'[pendingOf'[a]] = "prepared" /\ operation'[pendingOf'[a]].subject = a
    <3>1. CASE a = s
      BY <1>3, <3>1
    <3>2. CASE a # s
      <4>1. /\ pendingOf'[a] = pendingOf[a] /\ status[pendingOf[a]] = "prepared"
            /\ operation[pendingOf[a]].subject = a /\ pendingOf[a] \in Operations
        BY <1>4, <2>1, <3>2 DEF GInv, IInv, TypeOK, SharedOK, HoldersKnown
      <4> QED
        BY <1>1, <1>4, <4>1
    <3> QED
      BY <3>1, <3>2
  <2>2. ASSUME NEW h \in Guilds, lockOf'[h] # None
        PROVE  status'[lockOf'[h]] = "prepared" /\ operation'[lockOf'[h]].guild = h
    <3>1. CASE h = g
      BY <1>3, <3>1
    <3>2. CASE h # g
      <4>1. /\ lockOf'[h] = lockOf[h] /\ status[lockOf[h]] = "prepared"
            /\ operation[lockOf[h]].guild = h /\ lockOf[h] \in Operations
        BY <1>5, <2>2, <3>2 DEF Untouched, GInv, IInv, TypeOK, SharedOK, HoldersKnown
      <4> QED
        BY <1>1, <1>4, <4>1
    <3> QED
      BY <3>1, <3>2
  <2>3. ASSUME NEW h \in Guilds, NEW u \in reserved'[h]
        PROVE  status'[u] = "prepared" /\ operation'[u].guild = h
    <3>1. CASE h = g
      BY <1>3, <2>3, <3>1
    <3>2. CASE h # g
      <4>1. u \in Operations /\ status[u] = "prepared" /\ operation[u].guild = h
        BY <1>5, <3>2 DEF Untouched, GInv, IInv, TypeOK, SharedOK, HoldersKnown
      <4> QED
        BY <1>1, <1>4, <4>1
    <3> QED
      BY <3>1, <3>2
  <2> QED
    BY <2>1, <2>2, <2>3 DEF HoldersKnown
<1>10. Unfounded'
  BY <1>1, <1>3, <1>5, UnfoundedElsewhere
<1>11. Countable' /\ SeatsBounded'
  <2>1. CASE Enters(p)
    <3>1. Cardinality(DOMAIN members[g]) < MaxMembers
      <4>1. Cardinality({}) = 0
        BY FS_EmptySet
      <4>2. CASE p.kind = "create"
        <5>1. DOMAIN members[g] = {}
          BY <1>1, <1>2, <4>2, NoMembersDomain DEF GInv, SharedOK, Unfounded
        <5> QED
          BY <4>1, <5>1, ReservationAssumption
      <4>3. CASE p.kind # "create"
        <5>1. IsFiniteSet(DOMAIN members[g])
          BY <1>1 DEF GInv, SharedOK, Countable
        <5>2. Cardinality(DOMAIN members[g]) \in Nat
          BY <5>1, FS_CardinalityType
        <5>3. Cardinality(DOMAIN members[g]) + Cardinality(reserved[g]) < MaxMembers
          BY <1>2, <2>1, <4>3 DEF SeatFree
        <5> QED
          BY <1>2, <4>1, <5>2, <5>3, ReservationAssumption
      <4> QED
        BY <4>2, <4>3
    <3> QED
      BY <1>1, <1>3, <1>5, <2>1, <3>1, SeatReserved
  <2>2. CASE ~Enters(p)
    <3>1. \A h \in Guilds : /\ DOMAIN members'[h] \subseteq DOMAIN members[h]
                            /\ reserved'[h] \subseteq reserved[h]
      BY <1>3, <1>5, <2>2 DEF Untouched
    <3> QED
      BY <3>1, FewerSeats
  <2> QED
    BY <2>1, <2>2
<1>12. OneMembership'
  BY <1>3 DEF GInv, SharedOK, OneMembership
<1>13. ApplicantsAreFree'
  BY <1>3 DEF Reserves, Reserve, GInv, SharedOK, ApplicantsAreFree
<1>14. MastersKnown'
  <2>1. \/ \E a \in Accounts : Masters(g)' = {a}
        \/ members'[g] = NoMembers /\ lockOf'[g] # None /\ operation'[lockOf'[g]].kind = "create"
    <3>1. CASE p.kind = "create"
      BY <1>1, <1>2, <1>3, <3>1 DEF GInv, SharedOK, Unfounded
    <3>2. CASE p.kind # "create"
      <4>1. \E a \in Accounts : Masters(g) = {a}
        BY <1>2, <3>2 DEF GInv, SharedOK, MastersKnown
      <4> QED
        BY <1>3, <4>1 DEF Masters, AdminsIn
    <3> QED
      BY <3>1, <3>2
  <2>2. g \in deleting' => reserved'[g] = {} /\ \E a \in Accounts : DOMAIN members'[g] = {a}
    BY <1>2, <1>3 DEF Enters, GInv, SharedOK, MastersKnown
  <2>3. founded' \subseteq Guilds /\ deleting' \subseteq Guilds
    BY DEF TypeOK
  <2>4. \A u \in Operations : status[u] = "prepared" => operation'[u] = operation[u]
    BY <1>4, <1>6
  <2> QED
    BY <1>1, <1>3, <1>5, <2>1, <2>2, <2>3, <2>4, MastersElsewhere
<1>15. NamesAreOwned'
  <2>1. \A h \in Guilds \ {g}, n \in Names : Renaming(h, n)' <=> Renaming(h, n)
    BY <1>1, <1>3, <1>4, <1>6 DEF Renaming
  <2>2. \A n \in Names : Renaming(g, n)' <=> p.kind = "rename" /\ p.value = n
    BY <1>1, <1>3, <1>4, <1>6 DEF Renaming
  <2>3. \A n \in Names : nameBucket[n] = g <=> g \in founded /\ nameOf[g] = n
    BY <1>1, <1>6 DEF GInv, SharedOK, NamesAreOwned
  <2>4. \A n \in Names : nameBucket'[n] = IF p.kind \in {"create", "rename"} /\ n = p.value
                                          THEN g ELSE nameBucket[n]
    BY DEF Reserves, Reserve, GInv, IInv, TypeOK
  <2>5. p.kind \in {"create", "rename"} => nameBucket[p.value] \in {None, g}
    BY <1>2 DEF NameFree
  <2>6. \A n \in Names : nameBucket'[n] = nameBucket[n]
                         \/ (nameBucket[n] \notin Guilds \ {g} /\ nameBucket'[n] \notin Guilds \ {g})
    BY <2>4, <2>5, ReservationAssumption
  <2>7. \A n \in Names : nameBucket'[n] = g <=> (g \in founded' /\ nameOf'[g] = n) \/ Renaming(g, n)'
    BY <1>2, <1>3, <2>2, <2>3, <2>4
  <2> QED
    BY <1>1, <1>5, <2>1, <2>6, <2>7, NamesElsewhere
<1> QED
  BY <1>8, <1>9, <1>10, <1>11, <1>12, <1>13, <1>14, <1>15 DEF SharedOK

-----------------------------------------------------------------------------
(* Confirm *)

\* Members and master of the guild of an operation that is confirmed.
LEMMA MembersConfirmed ==
  ASSUME GInv, NEW o \in Operations, NEW p \in Operation, operation[o] = p,
         Applicable(o)
  PROVE  /\ DOMAIN MembersAfter(p) =
              IF Enters(p) THEN DOMAIN members[p.guild] \cup {p.subject}
              ELSE IF Departs(p) THEN DOMAIN members[p.guild] \ {p.subject}
              ELSE DOMAIN members[p.guild]
         /\ \E a \in Accounts : AdminsIn(MembersAfter(p)) = {a}
<1> DEFINE g == p.guild
           s == p.subject
           D == DOMAIN members[g]
           New == AdminsIn(MembersAfter(p))
<1>1. /\ g \in Guilds /\ g \in founded /\ s \in Accounts /\ p \in Operation
      /\ p.actor \in Accounts /\ lockOf[g] = o /\ Fits(o)
  BY PreparedFields DEF Applicable
<1>2. s \in D <=> guildOf[s] = g
  BY <1>1 DEF GInv, SharedOK, OneMembership
<1>3. CASE Enters(p)
  <2>1. MembersAfter(p) = [a \in D \cup {s} |->
          IF a # s THEN members[g][a] ELSE IF p.kind = "create" THEN "admin" ELSE "member"]
    BY <1>3 DEF MembersAfter
  <2>2. s \notin D
    BY <1>1, <1>2, <1>3, ReservationAssumption DEF Applicable
  <2>3. CASE p.kind = "create"
    <3>1. D = {}
      BY <1>1, <2>3, NoMembersDomain DEF Fits
    <3>2. New = {s}
      BY <2>1, <2>3, <3>1 DEF AdminsIn
    <3> QED
      BY <1>1, <1>3, <2>1, <3>2
  <2>4. CASE p.kind # "create"
    <3>1. PICK m \in Accounts : Masters(g) = {m}
      BY <1>1, <2>4 DEF GInv, SharedOK, MastersKnown
    <3>2. New = Masters(g)
      BY <2>1, <2>2, <2>4 DEF Masters, AdminsIn
    <3> QED
      BY <1>3, <2>1, <3>1, <3>2
  <2> QED
    BY <2>3, <2>4
<1>4. ASSUME ~Enters(p)
      PROVE  \E m \in Accounts : Masters(g) = {m}
  BY <1>1, <1>4 DEF Enters, GInv, SharedOK, MastersKnown
<1>5. CASE ~Enters(p) /\ Departs(p)
  <2>1. MembersAfter(p) = [a \in D \ {s} |-> members[g][a]]
    BY <1>5 DEF MembersAfter
  <2>2. RoleIn(g, s) # "admin"
    BY <1>1, <1>5 DEF Departs, Disbands, Fits
  <2>3. s \notin Masters(g)
    BY <2>2 DEF Masters, AdminsIn, RoleIn
  <2>4. New = Masters(g)
    BY <2>1, <2>3 DEF Masters, AdminsIn
  <2> QED
    BY <1>4, <1>5, <2>1, <2>4
<1>6. CASE ~Enters(p) /\ ~Departs(p) /\ p.kind = "role"
  <2>1. MembersAfter(p) = [a \in D |->
          IF a = s THEN p.value
          ELSE IF p.value = "admin" /\ a = p.actor THEN "member" ELSE members[g][a]]
    BY <1>6 DEF MembersAfter, RolesAfter
  <2>2. /\ p.actor # s /\ RoleIn(g, p.actor) = "admin" /\ RoleIn(g, s) # "admin"
        /\ guildOf[s] = g
    BY <1>1, <1>6 DEF Fits
  <2>3. p.actor \in Masters(g) /\ s \in D
    BY <1>1, <1>2, <2>2, ReservationAssumption DEF RoleIn, Masters, AdminsIn, Roles
  <2>4. Masters(g) = {p.actor}
    BY <1>4, <1>6, <2>3
  <2>5. \A b \in D : members[g][b] = "admin" <=> b = p.actor
    BY <2>4 DEF Masters, AdminsIn
  <2>6. CASE p.value = "admin"
    <3>1. New = {s}
      BY <2>1, <2>2, <2>3, <2>5, <2>6 DEF AdminsIn
    <3> QED
      BY <1>1, <1>6, <2>1, <3>1
  <2>7. CASE p.value # "admin"
    <3>1. New = {p.actor}
      BY <2>1, <2>2, <2>3, <2>5, <2>7 DEF Masters, AdminsIn
    <3> QED
      BY <1>1, <1>6, <2>1, <3>1
  <2> QED
    BY <2>6, <2>7
<1>7. CASE ~Enters(p) /\ ~Departs(p) /\ p.kind # "role"
  <2>1. MembersAfter(p) = members[g]
    BY <1>7 DEF MembersAfter
  <2> QED
    BY <1>4, <1>7, <2>1 DEF Masters, AdminsIn
<1> QED
  BY <1>3, <1>5, <1>6, <1>7

\* The seat that an operation reserved becomes that of a member.
LEMMA SeatTaken ==
  ASSUME GInv, NEW g \in Guilds, NEW o \in Operations, NEW s \in Accounts,
         \A h \in Guilds \ {g} : Untouched(h),
         o \in reserved[g], reserved'[g] = {}, DOMAIN members'[g] = DOMAIN members[g] \cup {s}
  PROVE  Countable' /\ SeatsBounded'
<1>1. /\ IsFiniteSet({}) /\ Cardinality({}) = 0
      /\ IsFiniteSet({o}) /\ Cardinality({o}) = 1
  BY FS_EmptySet, FS_Singleton
<1>2. IsFiniteSet(DOMAIN members[g]) /\ IsFiniteSet(reserved[g])
  BY DEF GInv, SharedOK, Countable
<1>3. \A S : IsFiniteSet(S) =>
        /\ Cardinality(S) \in Nat /\ IsFiniteSet(S \cup {s})
        /\ Cardinality(S \cup {s}) = IF s \in S THEN Cardinality(S) ELSE Cardinality(S) + 1
  BY FS_AddElement, FS_CardinalityType
<1>4. Cardinality({o}) <= Cardinality(reserved[g])
  <2>1. \A S, T : IsFiniteSet(S) /\ T \subseteq S => Cardinality(T) <= Cardinality(S)
    BY FS_Subset
  <2> QED
    BY <1>2, <2>1
<1>5. /\ IsFiniteSet(DOMAIN members'[g])
      /\ Cardinality(DOMAIN members'[g]) <= Cardinality(DOMAIN members[g]) + 1
      /\ Cardinality(DOMAIN members'[g]) \in Nat /\ Cardinality(DOMAIN members[g]) \in Nat
      /\ Cardinality(reserved[g]) \in Nat
  <2> DEFINE D == DOMAIN members[g]
             E == DOMAIN members'[g]
  <2>1. IsFiniteSet(D) /\ IsFiniteSet(reserved[g]) /\ E = D \cup {s}
    BY <1>2
  <2> HIDE DEF D, E
  <2>2. Cardinality(D) \in Nat /\ Cardinality(reserved[g]) \in Nat
    BY <1>3, <2>1
  <2>3. /\ IsFiniteSet(E)
        /\ Cardinality(E) = IF s \in D THEN Cardinality(D) ELSE Cardinality(D) + 1
    BY <1>3, <2>1
  <2>4. Cardinality(E) \in Nat /\ Cardinality(E) <= Cardinality(D) + 1
    BY <2>2, <2>3
  <2> QED
    BY <2>2, <2>3, <2>4 DEF D, E
<1>6. Cardinality(DOMAIN members[g]) + Cardinality(reserved[g]) <= MaxMembers
  BY DEF GInv, SharedOK, SeatsBounded
<1>7. Cardinality(DOMAIN members'[g]) + Cardinality(reserved'[g]) <= MaxMembers
  BY <1>1, <1>4, <1>5, <1>6, ReservationAssumption
<1>8. Countable'
  BY <1>1, <1>5 DEF Untouched, GInv, SharedOK, Countable
<1>9. SeatsBounded'
  BY <1>7 DEF Untouched, GInv, SharedOK, SeatsBounded
<1> QED
  BY <1>8, <1>9

LEMMA ConfirmShared ==
  ASSUME GInv, NEW o \in Operations, Applicable(o), ConfirmEffect(o), TypeOK'
  PROVE  SharedOK'
<1>0. PICK p \in Operation : operation[o] = p
  BY PreparedFields DEF Applicable
<1> DEFINE g == p.guild
           s == p.subject
<1>1. /\ status[o] = "prepared" /\ g \in Guilds /\ g \in founded /\ s \in Accounts
      /\ pendingOf[s] = o /\ lockOf[g] = o /\ o # None /\ Fits(o)
      /\ Enters(p) => o \in reserved[g] /\ guildOf[s] = None
  BY <1>0, PreparedFields DEF Applicable
<1>2. /\ status' = [status EXCEPT ![o] = "confirmed"]
      /\ Unlocked(o)
      /\ members' = [members EXCEPT ![g] = MembersAfter(p)]
      /\ guildOf' = IF Enters(p) THEN [guildOf EXCEPT ![s] = g]
                    ELSE IF Departs(p) THEN [guildOf EXCEPT ![s] = None] ELSE guildOf
      /\ deleting' = IF Disbands(p) THEN deleting \cup {g}
                     ELSE IF p.kind = "cancelDelete" THEN deleting \ {g} ELSE deleting
      /\ applications' = ApplicationsAfter(p)
      /\ nameOf' = IF p.kind = "rename" THEN [nameOf EXCEPT ![g] = p.value] ELSE nameOf
      /\ nameBucket' = IF p.kind = "rename" /\ nameOf[g] # p.value
                       THEN [nameBucket EXCEPT ![nameOf[g]] = None] ELSE nameBucket
      /\ UNCHANGED <<operation, founded>>
  BY <1>0 DEF ConfirmEffect
<1>3. /\ lockOf'[g] = None /\ reserved'[g] = {}
      /\ \A h \in Guilds \ {g} : lockOf'[h] = lockOf[h] /\ reserved'[h] = reserved[h]
  BY <1>0, <1>1, <1>2, UnlockedEffect
<1>4. \A a \in Accounts :
        guildOf'[a] = IF a # s THEN guildOf[a] ELSE IF Enters(p) THEN g
                      ELSE IF Departs(p) THEN None ELSE guildOf[a]
  BY <1>1, <1>2 DEF GInv, IInv, TypeOK
<1>5. /\ members'[g] = MembersAfter(p)
      /\ \A h \in Guilds \ {g} : members'[h] = members[h]
  BY <1>1, <1>2 DEF GInv, IInv, TypeOK
<1>6. \A h \in Guilds \ {g} : Untouched(h)
  <2>1. \A h \in Guilds \ {g} : nameOf'[h] = nameOf[h] /\ (h \in deleting' <=> h \in deleting)
    BY <1>2 DEF GInv, IInv, TypeOK
  <2>2. \A h \in Guilds \ {g}, a \in Accounts :
          <<h, a>> \in applications' => <<h, a>> \in applications
    BY <1>2 DEF ApplicationsAfter
  <2> QED
    BY <1>2, <1>3, <1>5, <2>1, <2>2 DEF Untouched
<1>7. PreparedKnown' /\ HoldersKnown'
  <2>1. ASSUME NEW u \in Operations \ {o}, status[u] = "prepared"
        PROVE  Fits(u)'
    <3>1. operation[u].guild # g /\ operation[u].subject # s
      BY <1>0, <1>1, <2>1, PreparedApart
    <3> QED
      BY <1>1, <1>2, <1>4, <1>6, <2>1, <3>1, FitsElsewhere
  <2> QED
    BY <1>1, <1>2, <2>1, DecisionLocks
<1>8. Unfounded'
  BY <1>1, <1>2, <1>6, UnfoundedElsewhere
<1>9. /\ DOMAIN members'[g] = IF Enters(p) THEN DOMAIN members[g] \cup {s}
                              ELSE IF Departs(p) THEN DOMAIN members[g] \ {s}
                              ELSE DOMAIN members[g]
      /\ \E a \in Accounts : Masters(g)' = {a}
  <2>1. /\ DOMAIN MembersAfter(p) = IF Enters(p) THEN DOMAIN members[g] \cup {s}
                                    ELSE IF Departs(p) THEN DOMAIN members[g] \ {s}
                                    ELSE DOMAIN members[g]
        /\ \E a \in Accounts : AdminsIn(MembersAfter(p)) = {a}
    BY <1>0, MembersConfirmed
  <2>2. Masters(g)' = AdminsIn(MembersAfter(p))
    BY <1>5 DEF Masters
  <2> QED
    BY <1>5, <2>1, <2>2
<1>10. OneMembership'
  <2>1. Departs(p) => guildOf[s] = g
    BY <1>0, <1>1 DEF Departs, Fits
  <2> SUFFICES ASSUME NEW a \in Accounts, NEW h \in Guilds
               PROVE  a \in DOMAIN members'[h] <=> guildOf'[a] = h
    BY DEF OneMembership
  <2>2. a \in DOMAIN members[h] <=> guildOf[a] = h
    BY DEF GInv, SharedOK, OneMembership
  <2>3. CASE h = g
    BY <1>1, <1>4, <1>9, <2>2, <2>3, ReservationAssumption
  <2>4. CASE h # g
    BY <1>1, <1>4, <1>5, <2>1, <2>2, <2>4, ReservationAssumption
  <2> QED
    BY <2>3, <2>4
<1>11. Countable' /\ SeatsBounded'
  <2>1. CASE Enters(p)
    BY <1>1, <1>3, <1>6, <1>9, <2>1, SeatTaken
  <2>2. CASE ~Enters(p)
    <3>1. \A h \in Guilds : /\ DOMAIN members'[h] \subseteq DOMAIN members[h]
                            /\ reserved'[h] \subseteq reserved[h]
      BY <1>3, <1>5, <1>9, <2>2
    <3> QED
      BY <3>1, FewerSeats
  <2> QED
    BY <2>1, <2>2
<1>12. ApplicantsAreFree'
  <2>1. ASSUME NEW x \in applications'
        PROVE  x[1] \in founded' /\ guildOf'[x[2]] = None
    <3>1. CASE x \in applications
      <4>1. x[1] \in founded /\ guildOf[x[2]] = None /\ x[2] \in Accounts
        BY <3>1 DEF GInv, IInv, TypeOK, SharedOK, ApplicantsAreFree
      <4>2. Enters(p) => x[2] # s
        BY <1>2, <2>1 DEF ApplicationsAfter, Enters
      <4> QED
        BY <1>2, <1>4, <4>1, <4>2
    <3>2. CASE x \notin applications
      <4>1. p.kind = "apply" /\ x = <<g, s>>
        BY <1>2, <2>1, <3>2 DEF ApplicationsAfter
      <4>2. guildOf[s] = None /\ ~Enters(p)
        BY <1>0, <1>1, <4>1 DEF Fits, Enters
      <4> QED
        BY <1>1, <1>2, <1>4, <4>1, <4>2
    <3> QED
      BY <3>1, <3>2
  <2> QED
    BY <2>1 DEF ApplicantsAreFree
<1>13. MastersKnown'
  <2>1. ASSUME g \in deleting' PROVE \E a \in Accounts : DOMAIN members'[g] = {a}
    <3>1. CASE Disbands(p)
      <4>1. DOMAIN members[g] = {s} /\ ~Enters(p) /\ ~Departs(p)
        BY <1>0, <1>1, <3>1 DEF Disbands, Fits, Enters, Departs
      <4> QED
        BY <1>1, <1>9, <4>1
    <3>2. CASE ~Disbands(p)
      <4>1. g \in deleting /\ p.kind # "cancelDelete"
        BY <1>2, <2>1, <3>2
      <4> QED
        BY <1>0, <1>1, <4>1 DEF Fits
    <3> QED
      BY <3>1, <3>2
  <2>2. founded' \subseteq Guilds /\ deleting' \subseteq Guilds
    BY DEF TypeOK
  <2> QED
    BY <1>1, <1>2, <1>3, <1>6, <1>9, <2>1, <2>2, MastersElsewhere
<1>14. NamesAreOwned'
  <2>1. \A h \in Guilds, n \in Names : Renaming(h, n)' <=> Renaming(h, n) /\ h # g
    BY <1>0, <1>1, <1>2, DecidedRenaming
  <2>2. /\ \A n \in Names : nameBucket[n] = g <=> nameOf[g] = n \/ (p.kind = "rename" /\ p.value = n)
        /\ p.kind = "rename" => p.value \in Names
    BY <1>0, <1>1, OwnNames, OperationFields
  <2>3. \A n \in Names : nameBucket'[n] =
          IF p.kind = "rename" /\ nameOf[g] # p.value /\ n = nameOf[g] THEN None ELSE nameBucket[n]
    BY <1>2 DEF GInv, IInv, TypeOK
  <2>4. nameOf'[g] = IF p.kind = "rename" THEN p.value ELSE nameOf[g]
    BY <1>1, <1>2 DEF GInv, IInv, TypeOK
  <2>5. \A n \in Names : nameBucket'[n] = nameBucket[n]
                         \/ (nameBucket[n] \notin Guilds \ {g} /\ nameBucket'[n] \notin Guilds \ {g})
    BY <2>2, <2>3, ReservationAssumption
  <2>6. \A n \in Names : ~Renaming(g, n)'
    BY <1>1, <2>1
  <2>7. \A n \in Names : nameBucket'[n] = g <=> (g \in founded' /\ nameOf'[g] = n) \/ Renaming(g, n)'
    BY <1>1, <1>2, <2>2, <2>3, <2>4, <2>6, ReservationAssumption
  <2> QED
    BY <1>1, <1>6, <2>1, <2>5, <2>7, NamesElsewhere
<1> QED
  BY <1>7, <1>8, <1>10, <1>11, <1>12, <1>13, <1>14 DEF SharedOK

-----------------------------------------------------------------------------
(* Every step *)

\* Confirm and Cancel change the shared file for a prepared operation, or not at all.
LEMMA ConfirmStep ==
  ASSUME GInv, TypeOK', NEW o \in Operations, Confirm(o)
  PROVE  UNCHANGED shared \/ SharedOK'
BY ConfirmShared DEF Confirm

LEMMA CancelStep ==
  ASSUME GInv, TypeOK', NEW o \in Operations, Cancel(o)
  PROVE  UNCHANGED shared \/ SharedOK'
BY CancelShared DEF Cancel

\* The first request for an operation reserves it under a new identity.
LEMMA PrepareShared ==
  ASSUME GInv, TypeOK', NEW a \in Accounts, turn[a].stage = "requesting",
         NEW p, p \in WithGuild(turn[a].plan), Reserve(turn[a].id, p)
  PROVE  SharedOK'
<1>1. /\ turn[a].id \in Operations /\ turn[a].plan \in Operation
      /\ status[turn[a].id] = "none"
  BY TurnFields DEF GInv, IInv, TurnsKnown, Stages
<1>2. PICK o \in Operations : o = turn[a].id
  BY <1>1
<1>3. PICK q \in Operation : q = turn[a].plan
  BY <1>1
<1>4. Reserve(o, p) /\ Eligible(p) /\ p \in WithGuild(q)
  BY <1>2, <1>3 DEF Reserve
<1>5. p \in Operation /\ p.guild \in Guilds
  BY <1>4, WithGuildIsOperation DEF GInv, IInv
<1>6. p.kind = "create" => p.guild \notin founded
  <2>1. CASE q.kind = "create"
    BY <1>4, <2>1 DEF WithGuild, Operation
  <2>2. CASE q.kind # "create"
    BY <1>4, <2>2 DEF WithGuild
  <2> QED
    BY <2>1, <2>2
<1>7. Reserves(o, p)
  BY <1>1, <1>2, <1>4, <1>5, <1>6 DEF Reserves
<1> QED
  BY <1>5, <1>7, ReserveShared

\* What happens outside the shared file leaves it as it is.
LEMMA SharedStays ==
  ASSUME SharedOK, UNCHANGED shared
  PROVE  SharedOK'
BY DEF SharedOK, PreparedKnown, Fits, RoleIn, HoldersKnown, Unfounded, Countable, OneMembership,
       SeatsBounded, NamesAreOwned, ApplicantsAreFree, MastersKnown, Masters,
       shared, accountVars, guildVars

LEMMA NextShared ==
  ASSUME GInv, TypeOK', [Next]_vars
  PROVE  SharedOK'
<1>1. ASSUME NEW a \in Accounts, Prepare(a) \/ PrepareUnreported(a) PROVE SharedOK'
  BY <1>1, PrepareShared DEF Prepare, PrepareUnreported
<1>2. ASSUME NEW a \in Accounts, ConfirmDeferred(a) PROVE SharedOK'
  <2>1. PICK o \in Operations : o = turn[a].id
    BY <1>2, TurnFields DEF ConfirmDeferred, GInv, IInv, Stages
  <2>2. Confirm(o)
    BY <1>2, <2>1 DEF ConfirmDeferred
  <2> QED
    BY <2>2, ConfirmStep, SharedStays DEF GInv
<1>3. ASSUME NEW o \in Operations, Deliver(o) \/ DeliverUnacknowledged(o) \/ Reconcile(o)
      PROVE  SharedOK'
  BY <1>3, ConfirmStep, CancelStep, SharedStays
     DEF Deliver, DeliverUnacknowledged, Reconcile, Decide, GInv
<1>4. ASSUME NEW g \in Guilds, FinalizeDeletion(g) PROVE SharedOK'
  BY <1>4, FinalizeShared
<1>5. CASE UNCHANGED shared
  BY <1>5, SharedStays DEF GInv
<1>6. ASSUME NEW a \in Accounts, NEW o \in Operations, Request(a, o) \/ Repeat(a, o)
      PROVE  UNCHANGED shared
  BY <1>6 DEF Request, Repeat
<1>7. ASSUME NEW a \in Accounts,
             \/ PrepareRefused(a) \/ ApplyKnown(a) \/ Apply(a) \/ ApplyFails(a) \/ ApplyPanics(a)
             \/ CommitLocal(a) \/ CommitUnreported(a) \/ ConfirmFails(a)
      PROVE  UNCHANGED shared
  BY <1>7 DEF PrepareRefused, ApplyKnown, Apply, ApplyFails, ApplyPanics, CommitLocal,
              CommitUnreported, ConfirmFails
<1>8. CASE SettleStarts \/ SettleFails \/ Crash \/ UNCHANGED vars
  BY <1>5, <1>8 DEF SettleStarts, SettleFails, Crash, vars
<1> QED
  BY <1>1, <1>2, <1>3, <1>4, <1>5, <1>6, <1>7, <1>8 DEF Next

LEMMA InitShared == Init => SharedOK
<1> SUFFICES ASSUME Init PROVE SharedOK
  OBVIOUS
<1>1. IsFiniteSet({}) /\ Cardinality({}) = 0
  BY FS_EmptySet
<1>2. \A g \in Guilds : DOMAIN members[g] = {} /\ reserved[g] = {}
  BY NoMembersDomain DEF Init
<1>3. Countable /\ SeatsBounded
  <2>1. 0 + 0 <= MaxMembers
    BY ReservationAssumption
  <2> QED
    BY <1>1, <1>2, <2>1 DEF Countable, SeatsBounded
<1>4. OneMembership
  BY <1>2, ReservationAssumption DEF Init, OneMembership
<1>5. NamesAreOwned
  BY ReservationAssumption DEF Init, NamesAreOwned
<1>6. PreparedKnown /\ HoldersKnown /\ Unfounded /\ ApplicantsAreFree /\ MastersKnown
  BY DEF Init, PreparedKnown, HoldersKnown, Unfounded, ApplicantsAreFree, MastersKnown
<1> QED
  BY <1>3, <1>4, <1>5, <1>6 DEF SharedOK

LEMMA InitGInv == Init => GInv
BY InitIInv, InitShared DEF GInv

LEMMA NextGInv == GInv /\ [Next]_vars => GInv'
<1> SUFFICES ASSUME GInv, [Next]_vars PROVE GInv'
  OBVIOUS
<1>1. IInv'
  BY NextIInv DEF GInv
<1> QED
  BY <1>1, NextShared DEF GInv, IInv

\* Whatever competes, is cancelled, repeated or cut short, memberships, seats,
\* names and applications agree.
THEOREM GuildsAlwaysCoherent == Spec => []GuildsCoherent
<1>1. GInv => GuildsCoherent
  BY DEF GInv, SharedOK, GuildsCoherent
<1> QED
  BY <1>1, InitGInv, NextGInv, PTL DEF Spec

\* No reservation leaks its locks or its seat, and none loses them.
THEOREM LocksAlwaysHeld == Spec => []LocksAreHeld
<1>1. GInv => LocksAreHeld
  <2> SUFFICES ASSUME GInv, NEW o \in Operations
               PROVE  /\ status[o] = "prepared" <=> \E a \in Accounts : pendingOf[a] = o
                      /\ status[o] = "prepared" => /\ pendingOf[operation[o].subject] = o
                                                   /\ lockOf[operation[o].guild] = o
                                                   /\ operation[o].guild \in founded
                      /\ \A g \in Guilds : lockOf[g] = o \/ o \in reserved[g] => status[o] = "prepared"
    BY DEF LocksAreHeld
  <2>1. o # None
    BY ReservationAssumption
  <2>2. HoldersKnown
    BY DEF GInv, SharedOK
  <2> QED
    BY <2>1, <2>2, PreparedFields DEF HoldersKnown
<1> QED
  BY <1>1, InitGInv, NextGInv, PTL DEF Spec

\* Every guild has one master, and one that waits for its deletion has no other
\* member.
THEOREM OneMasterAlways == Spec => []OneMaster
<1>1. GInv => OneMaster
  <2> SUFFICES ASSUME GInv PROVE OneMaster
    OBVIOUS
  <2>1. \A S : (\E a \in Accounts : S = {a}) => Cardinality(S) = 1
    BY FS_Singleton
  <2>2. MastersKnown
    BY DEF GInv, SharedOK
  <2>3. \A g \in founded :
          \/ Cardinality(Masters(g)) = 1
          \/ members[g] = NoMembers /\ lockOf[g] # None /\ operation[lockOf[g]].kind = "create"
    BY <2>1, <2>2 DEF MastersKnown
  <2>4. \A g \in deleting : Cardinality(DOMAIN members[g]) = 1 /\ reserved[g] = {}
    BY <2>1, <2>2 DEF MastersKnown
  <2> QED
    BY <2>2, <2>3, <2>4 DEF OneMaster, MastersKnown, Masters, AdminsIn
<1> QED
  BY <1>1, InitGInv, NextGInv, PTL DEF Spec
=============================================================================
