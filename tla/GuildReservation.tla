-------------------------- MODULE GuildReservation --------------------------
(***************************************************************************)
(* Guild operations (domain/social): one operation changes the file of the   *)
(* acting account (costs, rewards, receipt) and the shared file (guilds and   *)
(* memberships), which cannot be committed together.  The shared side is      *)
(* first prepared (Owner.Prepare reserves what the operation needs), then the *)
(* command of the account commits a receipt, its durable proof, and then the  *)
(* reservation is confirmed: by the executor, by the delivery of the event    *)
(* social.confirm, or by the settlement that runs every 30 s and cancels what *)
(* has no proof.                                                             *)
(*                                                                          *)
(* Clocks (leave delays, bans, expiry, deletion delay) may have run out at    *)
(* any step.  A guild's join type is whatever the request finds.             *)
(***************************************************************************)
EXTENDS Naturals, FiniteSets

CONSTANTS
  Accounts, Guilds, Names,
  Operations,    \* identities of mutating requests, one account each
  MaxMembers,    \* design.Guild.MaxMembers
  PanicsHappen,  \* whether a handler may panic after the reservation
  None,          \* no guild, no operation, no account
  MaxFaults      \* bound: failures and crashes in a behaviour

Roles == {"admin", "subAdmin", "member"}

ASSUME ReservationAssumption ==
  /\ None \notin Accounts \cup Guilds \cup Names \cup Operations \cup Roles
  /\ MaxMembers \in Nat \ {0}
  /\ PanicsHappen \in BOOLEAN
  /\ MaxFaults \in Nat

\* "apply" is a Join that the guild answers with an application.
Kinds == {"create", "join", "apply", "accept", "refuse", "leave", "ban", "role",
          "cancelDelete", "rename"}
Statuses == {"none", "prepared", "confirmed", "cancelled"}

\* The value is the name or the role of the kinds that have one.
Operation ==
  {p \in [kind : Kinds, actor : Accounts, subject : Accounts, guild : Guilds \cup {None},
          epoch : Nat, value : Names \cup Roles \cup {None}] :
     /\ p.kind \in {"create", "rename"} => p.value \in Names
     /\ p.kind = "role" => p.value \in Roles}

VARIABLES
  \* the shared file
  status, operation,             \* reservation records
  guildOf, epochOf, pendingOf,   \* Account: GuildID, Epoch, PendingOperation
  founded,                       \* guilds in the guild bucket
  members,                       \* Guild.Members: account -> role
  reserved,                      \* Guild.Reserved: operations that hold a seat
  lockOf,                        \* Guild.PendingOperation or PendingManagement
  deleting,                      \* guilds with DeleteAtMS
  nameOf, nameBucket,            \* Guild.NameKey, and the names taken
  applications,                  \* <<guild, account>>
  \* the account files
  proofs,                        \* operations with a local receipt
  outbox,                        \* operations whose social.confirm is pending
  \* the process
  turn,                          \* what the owner of each account executes
  settling,                      \* operations the current settlement listed
  faults

accountVars == <<guildOf, epochOf, pendingOf>>
guildVars == <<founded, members, reserved, lockOf, deleting, nameOf, nameBucket, applications>>
shared == <<status, operation, accountVars, guildVars>>
local == <<proofs, outbox>>
vars == <<shared, local, turn, settling, faults>>

\* requesting: the shared state was read; reserved: prepared, the account's
\* transaction not begun; applied: it is open; replying: the deferred Confirm.
Stages == {"requesting", "reserved", "applied", "replying"}
Idle == [stage |-> "idle"]

Turns == {Idle} \cup [stage : Stages, id : Operations, plan : Operation, status : Statuses]

NoMembers == [x \in {} |-> "member"]

Memberships == UNION {[S -> Roles] : S \in SUBSET Accounts}

TypeOK ==
  /\ status \in [Operations -> Statuses]
  /\ operation \in [Operations -> {None} \cup Operation]
  /\ guildOf \in [Accounts -> Guilds \cup {None}]
  /\ epochOf \in [Accounts -> Nat]
  /\ pendingOf \in [Accounts -> Operations \cup {None}]
  /\ founded \subseteq Guilds
  /\ members \in [Guilds -> Memberships]
  /\ reserved \in [Guilds -> SUBSET Operations]
  /\ lockOf \in [Guilds -> Operations \cup {None}]
  /\ deleting \subseteq Guilds
  /\ nameOf \in [Guilds -> Names \cup {None}]
  /\ nameBucket \in [Names -> Guilds \cup {None}]
  /\ applications \subseteq Guilds \X Accounts
  /\ proofs \subseteq Operations /\ outbox \subseteq proofs
  /\ turn \in [Accounts -> Turns]
  /\ settling \subseteq Operations
  /\ faults \in 0..MaxFaults

Init ==
  /\ status = [o \in Operations |-> "none"]
  /\ operation = [o \in Operations |-> None]
  /\ guildOf = [a \in Accounts |-> None]
  /\ epochOf = [a \in Accounts |-> 0]
  /\ pendingOf = [a \in Accounts |-> None]
  /\ founded = {} /\ deleting = {}
  /\ members = [g \in Guilds |-> NoMembers]
  /\ reserved = [g \in Guilds |-> {}]
  /\ lockOf = [g \in Guilds |-> None]
  /\ nameOf = [g \in Guilds |-> None]
  /\ nameBucket = [n \in Names |-> None]
  /\ applications = {}
  /\ proofs = {} /\ outbox = {}
  /\ turn = [a \in Accounts |-> Idle]
  /\ settling = {}
  /\ faults = 0

Fault == faults < MaxFaults /\ faults' = faults + 1

-----------------------------------------------------------------------------
(* Owner.Prepare: what an operation needs *)

RoleIn(g, a) == IF a \in DOMAIN members[g] THEN members[g][a] ELSE None

Manages(g, a) == RoleIn(g, a) \in {"admin", "subAdmin"}

Enters(p) == p.kind \in {"create", "join", "accept"}

\* Leaving as the master only schedules the deletion of the guild.
Disbands(p) == p.kind = "leave" /\ RoleIn(p.guild, p.subject) = "admin"
Departs(p) == p.kind = "ban" \/ (p.kind = "leave" /\ ~Disbands(p))

\* Mutant: an account with a pending operation may start another one.
MayInterleave(p) == epochOf[p.subject] = p.epoch

SubjectFree(p) == pendingOf[p.subject] = None /\ epochOf[p.subject] = p.epoch

\* Every operation on a founded guild holds its lock until it is decided.
GuildFree(p) ==
  /\ p.guild \in founded
  /\ lockOf[p.guild] = None
  /\ p.guild \in deleting => p.kind = "cancelDelete"

\* Mutant: a guild accepts one member too many.
SeatFreeOrFull(g) == Cardinality(DOMAIN members[g]) + Cardinality(reserved[g]) <= MaxMembers

SeatFree(g) == Cardinality(DOMAIN members[g]) + Cardinality(reserved[g]) < MaxMembers

MayEnter(p) == guildOf[p.subject] = None

\* Mutant: the master may leave while others stay.
MayLeaveAlways(p) == guildOf[p.subject] = p.guild

MayLeave(p) ==
  /\ guildOf[p.subject] = p.guild
  /\ RoleIn(p.guild, p.subject) = "admin" =>
       DOMAIN members[p.guild] = {p.subject} /\ reserved[p.guild] = {}

MayBan(p) ==
  /\ guildOf[p.subject] = p.guild
  /\ p.actor # p.subject
  /\ \/ RoleIn(p.guild, p.actor) = "admin" /\ RoleIn(p.guild, p.subject) \in {"subAdmin", "member"}
     \/ RoleIn(p.guild, p.actor) = "subAdmin" /\ RoleIn(p.guild, p.subject) = "member"

MayChangeRole(p) ==
  /\ guildOf[p.subject] = p.guild
  /\ p.actor # p.subject
  /\ RoleIn(p.guild, p.actor) = "admin"
  /\ RoleIn(p.guild, p.subject) \in {"subAdmin", "member"}

HasApplied(p) == <<p.guild, p.subject>> \in applications

NameFree(p) == nameBucket[p.value] \in {None, p.guild}

Eligible(p) ==
  \/ p.kind = "create" /\ MayEnter(p) /\ nameBucket[p.value] = None
  \/ /\ GuildFree(p)
     /\ \/ p.kind = "join" /\ MayEnter(p) /\ SeatFree(p.guild)
        \/ p.kind = "apply" /\ MayEnter(p) /\ SeatFree(p.guild)
        \/ p.kind = "accept" /\ MayEnter(p) /\ SeatFree(p.guild)
             /\ Manages(p.guild, p.actor) /\ HasApplied(p)
        \/ p.kind = "refuse" /\ HasApplied(p)
             /\ (p.actor = p.subject \/ Manages(p.guild, p.actor))
        \/ p.kind = "leave" /\ MayLeave(p)
        \/ p.kind = "ban" /\ MayBan(p)
        \/ p.kind = "role" /\ MayChangeRole(p)
        \/ p.kind = "cancelDelete" /\ RoleIn(p.guild, p.actor) = "admin" /\ p.guild \in deleting
        \/ p.kind = "rename" /\ RoleIn(p.guild, p.actor) = "admin" /\ NameFree(p)

\* The reservation: the account and the guild are locked, a seat and a name taken.
Reserve(o, p) ==
  /\ SubjectFree(p) /\ Eligible(p)
  /\ status' = [status EXCEPT ![o] = "prepared"]
  /\ operation' = [operation EXCEPT ![o] = p]
  /\ pendingOf' = [pendingOf EXCEPT ![p.subject] = o]
  /\ lockOf' = [lockOf EXCEPT ![p.guild] = o]
  /\ reserved' = IF Enters(p) THEN [reserved EXCEPT ![p.guild] = @ \cup {o}] ELSE reserved
  /\ founded' = founded \cup {p.guild}
  /\ nameBucket' = IF p.kind \in {"create", "rename"}
                   THEN [nameBucket EXCEPT ![p.value] = p.guild] ELSE nameBucket
  /\ nameOf' = IF p.kind = "create" THEN [nameOf EXCEPT ![p.guild] = p.value] ELSE nameOf
  /\ UNCHANGED <<guildOf, epochOf, members, deleting, applications>>

-----------------------------------------------------------------------------
(* Owner.Confirm and Owner.Cancel *)

\* Mutant: the member who gives the guild away stays its master.
NewMasterOnly(p) == [members[p.guild] EXCEPT ![p.subject] = p.value]

RolesAfter(p) ==
  [a \in DOMAIN members[p.guild] |->
     IF a = p.subject THEN p.value
     ELSE IF p.value = "admin" /\ a = p.actor THEN "member" ELSE members[p.guild][a]]

\* Mutant: who leaves stays listed by the guild.
MembersKept(p) ==
  IF Enters(p)
  THEN [a \in DOMAIN members[p.guild] \cup {p.subject} |->
          IF a # p.subject THEN members[p.guild][a]
          ELSE IF p.kind = "create" THEN "admin" ELSE "member"]
  ELSE IF p.kind = "role" THEN RolesAfter(p) ELSE members[p.guild]

MembersAfter(p) ==
  IF Enters(p)
  THEN [a \in DOMAIN members[p.guild] \cup {p.subject} |->
          IF a # p.subject THEN members[p.guild][a]
          ELSE IF p.kind = "create" THEN "admin" ELSE "member"]
  ELSE IF Departs(p)
  THEN [a \in DOMAIN members[p.guild] \ {p.subject} |-> members[p.guild][a]]
  ELSE IF p.kind = "role" THEN RolesAfter(p) ELSE members[p.guild]

\* Mutant: a new member keeps the applications to other guilds.
KeepsApplications(p) ==
  IF p.kind = "apply" THEN applications \cup {<<p.guild, p.subject>>}
  ELSE IF Enters(p) \/ p.kind = "refuse" THEN applications \ {<<p.guild, p.subject>>}
  ELSE applications

ApplicationsAfter(p) ==
  IF p.kind = "apply" THEN applications \cup {<<p.guild, p.subject>>}
  ELSE IF p.kind = "refuse" THEN applications \ {<<p.guild, p.subject>>}
  ELSE IF Enters(p) THEN {x \in applications : x[2] # p.subject}
  ELSE applications

Applicable(o) ==
  LET p == operation[o] IN
    /\ status[o] = "prepared"
    /\ pendingOf[p.subject] = o /\ epochOf[p.subject] = p.epoch
    /\ p.guild \in founded
    /\ Enters(p) => o \in reserved[p.guild] /\ guildOf[p.subject] = None

Unlocked(o) ==
  /\ pendingOf' = [pendingOf EXCEPT ![operation[o].subject] = None]
  /\ lockOf' = [g \in Guilds |-> IF lockOf[g] = o THEN None ELSE lockOf[g]]
  /\ reserved' = [g \in Guilds |-> reserved[g] \ {o}]

ConfirmEffect(o) ==
  LET p == operation[o] IN
    /\ status' = [status EXCEPT ![o] = "confirmed"]
    /\ Unlocked(o)
    /\ guildOf' = IF Enters(p) THEN [guildOf EXCEPT ![p.subject] = p.guild]
                  ELSE IF Departs(p) THEN [guildOf EXCEPT ![p.subject] = None] ELSE guildOf
    /\ epochOf' = IF Enters(p) \/ Departs(p) THEN [epochOf EXCEPT ![p.subject] = @ + 1] ELSE epochOf
    /\ members' = [members EXCEPT ![p.guild] = MembersAfter(p)]
    /\ deleting' = IF Disbands(p) THEN deleting \cup {p.guild}
                   ELSE IF p.kind = "cancelDelete" THEN deleting \ {p.guild} ELSE deleting
    /\ applications' = ApplicationsAfter(p)
    /\ nameOf' = IF p.kind = "rename" THEN [nameOf EXCEPT ![p.guild] = p.value] ELSE nameOf
    /\ nameBucket' = IF p.kind = "rename" /\ nameOf[p.guild] # p.value
                     THEN [nameBucket EXCEPT ![nameOf[p.guild]] = None] ELSE nameBucket
    /\ UNCHANGED <<operation, founded>>

\* Mutant: a repeated Confirm is an error.
ConfirmsOnce(o) == Applicable(o)

\* Confirm answers without error.
Confirms(o) == status[o] = "confirmed" \/ Applicable(o)

\* A repeated Confirm changes nothing; one of a cancelled operation is refused.
Confirm(o) == IF Applicable(o) THEN ConfirmEffect(o) ELSE UNCHANGED shared

\* Mutant: the name a cancelled operation reserved stays taken.
NamesKept(p) ==
  IF p.kind = "create" THEN [nameBucket EXCEPT ![nameOf[p.guild]] = None] ELSE nameBucket

NamesAfterCancel(p) ==
  IF p.kind = "create" \/ (p.kind = "rename" /\ p.value # nameOf[p.guild])
  THEN [nameBucket EXCEPT ![p.value] = None] ELSE nameBucket

Cancel(o) ==
  LET p == operation[o] IN
    IF status[o] = "prepared" /\ pendingOf[p.subject] = o
    THEN /\ status' = [status EXCEPT ![o] = "cancelled"]
         /\ Unlocked(o)
         /\ nameBucket' = NamesAfterCancel(p)
         /\ nameOf' = IF p.kind = "create" THEN [nameOf EXCEPT ![p.guild] = None] ELSE nameOf
         /\ founded' = IF p.kind = "create" THEN founded \ {p.guild} ELSE founded
         /\ UNCHANGED <<operation, guildOf, epochOf, members, deleting, applications>>
    ELSE UNCHANGED shared

-----------------------------------------------------------------------------
(* A command of an account *)

Used(o) == status[o] # "none" \/ \E a \in Accounts : turn[a] # Idle /\ turn[a].id = o

\* The name or the role that a request of this kind names.
ValuesOf(k) == IF k \in {"create", "rename"} THEN Names ELSE IF k = "role" THEN Roles ELSE {None}

\* What Service.Prepare finds before it calls Owner.Prepare: the guild of an
\* operation of a member is the one the member is in now.
Asks(a, k, s, g) ==
  \/ k = "create" /\ s = a /\ g = None
  \/ k \in {"join", "apply", "refuse"} /\ s = a /\ g \in founded
  \/ /\ g = guildOf[a] /\ g # None
     /\ \/ k \in {"leave", "cancelDelete", "rename"} /\ s = a
        \/ k \in {"ban", "role"} /\ s \in DOMAIN members[g]
        \/ k \in {"accept", "refuse"} /\ <<g, s>> \in applications

Plan(a, k, s, g, v) == [kind |-> k, actor |-> a, subject |-> s, guild |-> g,
                        epoch |-> epochOf[s], value |-> v]

Turn(stage, o, p, s) == [stage |-> stage, id |-> o, plan |-> p, status |-> s]

\* A new request: the account's and the guild's shared records are read.
Request(a, o) ==
  /\ turn[a] = Idle
  /\ ~Used(o)
  /\ \E k \in Kinds, s \in Accounts, g \in Guilds \cup {None} :
       /\ Asks(a, k, s, g)
       /\ \E v \in ValuesOf(k) :
            turn' = [turn EXCEPT ![a] = Turn("requesting", o, Plan(a, k, s, g, v), "none")]
  /\ UNCHANGED <<shared, local, settling, faults>>

\* A repeated request takes its reservation up again, unless it was cancelled.
Repeat(a, o) ==
  /\ turn[a] = Idle
  /\ status[o] \in {"prepared", "confirmed"}
  /\ operation[o].actor = a
  /\ turn' = [turn EXCEPT ![a] = Turn("reserved", o, operation[o], status[o])]
  /\ UNCHANGED <<shared, local, settling, faults>>

\* Mutant: a guild is founded without an identity of its own.
WithoutGuild(p) == {p}

\* newGuildID draws an identity that no guild has.
WithGuild(p) ==
  IF p.kind = "create" THEN {[p EXCEPT !.guild = g] : g \in Guilds \ founded} ELSE {p}

Prepare(a) ==
  /\ turn[a].stage = "requesting"
  /\ \E p \in WithGuild(turn[a].plan) :
       /\ Reserve(turn[a].id, p)
       /\ turn' = [turn EXCEPT ![a] = Turn("reserved", turn[a].id, p, "prepared")]
  /\ UNCHANGED <<local, settling, faults>>

PrepareRefused(a) ==
  /\ turn[a].stage = "requesting"
  /\ ~(SubjectFree(turn[a].plan) /\ \E p \in WithGuild(turn[a].plan) : Eligible(p))
  /\ turn' = [turn EXCEPT ![a] = Idle]
  /\ UNCHANGED <<shared, local, settling, faults>>

\* The shared commit reports an error although it reached the file.
PrepareUnreported(a) ==
  /\ Fault
  /\ turn[a].stage = "requesting"
  /\ \E p \in WithGuild(turn[a].plan) : Reserve(turn[a].id, p)
  /\ turn' = [turn EXCEPT ![a] = Idle]
  /\ UNCHANGED <<local, settling>>

\* Service.Apply finds the receipt of an earlier attempt: nothing to commit.
ApplyKnown(a) ==
  /\ turn[a].stage = "reserved"
  /\ turn[a].id \in proofs
  /\ turn' = [turn EXCEPT ![a].stage = "replying"]
  /\ UNCHANGED <<shared, local, settling, faults>>

\* Costs, rewards, receipt and event, in the open transaction of the account.
Apply(a) ==
  /\ turn[a].stage = "reserved"
  /\ turn[a].id \notin proofs
  /\ turn[a].status = "prepared"
  /\ turn' = [turn EXCEPT ![a].stage = "applied"]
  /\ UNCHANGED <<shared, local, settling, faults>>

\* The account cannot pay, another request of the command fails, the storage
\* fails, or the reservation was confirmed without a receipt.
ApplyFails(a) ==
  /\ turn[a].stage \in {"reserved", "applied"}
  /\ turn[a].id \notin proofs
  /\ turn' = [turn EXCEPT ![a] = Idle]
  /\ UNCHANGED <<shared, local, settling, faults>>

\* A handler panics: the deferred rollback succeeds and leaves no error, and
\* the deferred Confirm, which runs after it, goes ahead.
ApplyPanics(a) ==
  /\ PanicsHappen
  /\ turn[a].stage \in {"reserved", "applied"}
  /\ turn' = [turn EXCEPT ![a].stage = "replying"]
  /\ UNCHANGED <<shared, local, settling, faults>>

Proven(a) ==
  /\ proofs' = proofs \cup {turn[a].id}
  /\ outbox' = outbox \cup {turn[a].id}

CommitLocal(a) ==
  /\ turn[a].stage = "applied"
  /\ Proven(a)
  /\ turn' = [turn EXCEPT ![a].stage = "replying"]
  /\ UNCHANGED <<shared, settling, faults>>

\* COMMIT reports an error although it reached the file: no Confirm.
CommitUnreported(a) ==
  /\ Fault
  /\ turn[a].stage = "applied"
  /\ Proven(a)
  /\ turn' = [turn EXCEPT ![a] = Idle]
  /\ UNCHANGED <<shared, settling>>

ConfirmDeferred(a) ==
  /\ turn[a].stage = "replying"
  /\ Confirm(turn[a].id)
  /\ turn' = [turn EXCEPT ![a] = Idle]
  /\ UNCHANGED <<local, settling, faults>>

ConfirmFails(a) ==
  /\ Fault
  /\ turn[a].stage = "replying"
  /\ turn' = [turn EXCEPT ![a] = Idle]
  /\ UNCHANGED <<shared, local, settling>>

-----------------------------------------------------------------------------
(* Delivery, settlement, deletion, crash *)

\* The dispatcher delivers social.confirm; a refused event stays.
Deliver(o) ==
  /\ o \in outbox
  /\ Confirms(o)
  /\ Confirm(o)
  /\ outbox' = outbox \ {o}
  /\ UNCHANGED <<proofs, turn, settling, faults>>

\* The event was applied and its acknowledgement is lost.
DeliverUnacknowledged(o) ==
  /\ Fault
  /\ o \in outbox
  /\ Confirm(o)
  /\ UNCHANGED <<local, turn, settling>>

\* settle lists the operations that are still prepared.
SettleStarts ==
  /\ settling = {}
  /\ settling' = {o \in Operations : status[o] = "prepared"}
  /\ settling' # {}
  /\ UNCHANGED <<shared, local, turn, faults>>

\* Mutant: settlement reads the account's file beside its owner.
AnyTime(a) == TRUE

OwnerFree(a) == turn[a] = Idle

\* Mutant: whatever is pending is confirmed.
DecideHopefully(o) == Confirm(o)

\* Mutant: an operation without a proof is left as it is.
LeavesUnproven(o) == IF o \in proofs THEN Confirm(o) ELSE UNCHANGED shared

\* RecoverReservation: the account's receipt decides.
Decide(o) == IF o \in proofs THEN Confirm(o) ELSE Cancel(o)

\* A system command of the acting account, in its mailbox like any other.
Reconcile(o) ==
  /\ o \in settling
  /\ OwnerFree(operation[o].actor)
  /\ Decide(o)
  /\ settling' = settling \ {o}
  /\ UNCHANGED <<local, turn, faults>>

\* The first error ends the settlement.
SettleFails ==
  /\ Fault
  /\ settling # {}
  /\ settling' = {}
  /\ UNCHANGED <<shared, local, turn>>

\* The deletion delay is over and nothing holds the guild.
Due(g) == g \in deleting /\ lockOf[g] = None /\ reserved[g] = {} /\ Cardinality(DOMAIN members[g]) = 1

FinalizeDeletion(g) ==
  /\ Due(g)
  /\ \A a \in DOMAIN members[g] : pendingOf[a] = None
  /\ guildOf' = [a \in Accounts |-> IF a \in DOMAIN members[g] THEN None ELSE guildOf[a]]
  /\ epochOf' = [a \in Accounts |-> IF a \in DOMAIN members[g] THEN epochOf[a] + 1 ELSE epochOf[a]]
  /\ members' = [members EXCEPT ![g] = NoMembers]
  /\ founded' = founded \ {g}
  /\ deleting' = deleting \ {g}
  /\ nameBucket' = [nameBucket EXCEPT ![nameOf[g]] = None]
  /\ nameOf' = [nameOf EXCEPT ![g] = None]
  /\ applications' = {x \in applications : x[1] # g}
  /\ UNCHANGED <<status, operation, pendingOf, reserved, lockOf, local, turn, settling, faults>>

Crash ==
  /\ Fault
  /\ turn' = [a \in Accounts |-> Idle]
  /\ settling' = {}
  /\ UNCHANGED <<shared, local>>

Next ==
  \/ \E a \in Accounts :
       \/ \E o \in Operations : Request(a, o) \/ Repeat(a, o)
       \/ Prepare(a) \/ PrepareRefused(a) \/ PrepareUnreported(a)
       \/ ApplyKnown(a) \/ Apply(a) \/ ApplyFails(a) \/ ApplyPanics(a)
       \/ CommitLocal(a) \/ CommitUnreported(a)
       \/ ConfirmDeferred(a) \/ ConfirmFails(a)
  \/ \E o \in Operations : Deliver(o) \/ DeliverUnacknowledged(o) \/ Reconcile(o)
  \/ SettleStarts
  \/ SettleFails
  \/ \E g \in Guilds : FinalizeDeletion(g)
  \/ Crash

Spec == Init /\ [][Next]_vars

\* The owner of an account finishes what it executes and gets to what waits in
\* its mailbox; the settlement runs every 30 s and the dispatcher delivers.
TurnEnds(a) ==
  \/ Prepare(a) \/ PrepareRefused(a) \/ ApplyKnown(a) \/ Apply(a)
  \/ turn[a] # Idle /\ turn[a].status = "confirmed" /\ ApplyFails(a)
  \/ CommitLocal(a) \/ ConfirmDeferred(a)

LiveSpec ==
  /\ Spec
  /\ WF_vars(SettleStarts)
  /\ \A a \in Accounts : WF_vars(TurnEnds(a))
  /\ \A o \in Operations : SF_vars(Reconcile(o)) /\ WF_vars(Deliver(o))

-----------------------------------------------------------------------------
(* Properties *)

\* The two sides never disagree: the shared file confirms only what the file of
\* the account has committed, ...
ConfirmedHasProof == \A o \in Operations : status[o] = "confirmed" => o \in proofs

\* ... and cancels only what that file did not commit and never will.
CancelledHasNoProof == \A o \in Operations : status[o] = "cancelled" => o \notin proofs

\* Through joins, departures, transfers and deletions that compete, a guild that
\* is not being founded has one master, and one that waits for its deletion has
\* that master alone and takes nobody in.
OneMaster ==
  /\ \A g \in founded :
       \/ Cardinality({a \in DOMAIN members[g] : members[g][a] = "admin"}) = 1
       \/ members[g] = NoMembers /\ lockOf[g] # None /\ operation[lockOf[g]].kind = "create"
  /\ deleting \subseteq founded
  /\ \A g \in deleting : Cardinality(DOMAIN members[g]) = 1 /\ reserved[g] = {}

\* An undecided operation holds its locks and its seat, and a decided one holds
\* nothing: no reservation leaks and none is taken from under its operation.
LocksAreHeld ==
  \A o \in Operations :
    /\ status[o] = "prepared" <=> \E a \in Accounts : pendingOf[a] = o
    /\ status[o] = "prepared" => /\ pendingOf[operation[o].subject] = o
                                 /\ lockOf[operation[o].guild] = o
                                 /\ operation[o].guild \in founded
    /\ \A g \in Guilds : lockOf[g] = o \/ o \in reserved[g] => status[o] = "prepared"

\* An account is listed by the guild its record names, and by no other.
OneMembership ==
  \A a \in Accounts, g \in Guilds : a \in DOMAIN members[g] <=> guildOf[a] = g

\* Members and reserved seats together never exceed the guild's size.
SeatsBounded ==
  \A g \in Guilds : Cardinality(DOMAIN members[g]) + Cardinality(reserved[g]) <= MaxMembers

\* A name is taken exactly by the guild that has it or is about to have it.
NamesAreOwned ==
  \A n \in Names, g \in Guilds :
    nameBucket[n] = g <=>
      \/ g \in founded /\ nameOf[g] = n
      \/ \E o \in Operations : status[o] = "prepared" /\ operation[o].kind = "rename"
                               /\ operation[o].guild = g /\ operation[o].value = n

\* Only accounts without a guild have applications, and only to guilds there are.
ApplicantsAreFree ==
  \A x \in applications : x[1] \in founded /\ guildOf[x[2]] = None

\* Whatever competes, is cancelled, repeated or cut short, the buckets of the
\* shared file agree with each other: memberships in both directions, seats,
\* names and applications.
GuildsCoherent == OneMembership /\ SeatsBounded /\ NamesAreOwned /\ ApplicantsAreFree

\* Whatever fails, a prepared operation is decided as its account decided it, and
\* what an account committed is confirmed and leaves its outbox.
EveryOperationEnds ==
  \A o \in Operations :
    /\ (status[o] = "prepared") ~> (status[o] # "prepared")
    /\ (o \in proofs) ~> (status[o] = "confirmed" /\ o \notin outbox)

=============================================================================
