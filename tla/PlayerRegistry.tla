--------------------------- MODULE PlayerRegistry ---------------------------
(***************************************************************************)
(* The registry of resident accounts (app/player_registry.go).  Callers      *)
(* lease the runtime of an account; the first one creates a slot and queues   *)
(* its load for a few workers; a sweeper retires slots nobody leased for a    *)
(* while; Close stops it all.  Every action is one critical section of the    *)
(* registry's mutex, or one receive from a channel.                           *)
(***************************************************************************)
EXTENDS Naturals, Sequences, FiniteSets

CONSTANTS
  Accounts,
  Callers,       \* goroutines that call Acquire
  Slots,         \* playerSlot objects, reused once nothing refers to them
  NoSlot,
  LoadWorkers,   \* playerLoadWorkers
  LoadQueue,     \* playerLoadQueue
  MaxResident,   \* maxResidentPlayers
  IdleLimit      \* idle, in ticks of the clock

ASSUME RegistryAssumption ==
  /\ Accounts # {} /\ NoSlot \notin Slots
  /\ IsFiniteSet(Slots) /\ IsFiniteSet(Callers)
  /\ LoadWorkers \in Nat \ {0} /\ LoadQueue \in Nat \ {0}
  /\ MaxResident \in Nat \ {0} /\ IdleLimit \in Nat \ {0}

VARIABLES
  players,     \* account -> its slot or NoSlot
  slots,       \* slot -> playerSlot
  loads,       \* the channel loads
  sweeping,    \* slots the sweeper found expired and has still to retire
  sweeperDone, \* channel done is closed
  shutdown,    \* "no", "waiting", "retiring" or "done" (closeDone is closed)
  unloading,   \* slots shutdown has still to retire
  calls        \* caller -> where it is in Acquire, and on which slot

sweepVars == <<sweeping, sweeperDone>>
closeVars == <<shutdown, unloading>>
vars == <<players, slots, loads, sweepVars, closeVars, calls>>

closing == shutdown # "no"

\* unused: no object; queued, opening: its runtime is being made, ready is open;
\* open: ready, with a runtime; closed: its runtime was closed; failed: ready,
\* with an error.
Loads == {"unused", "queued", "opening", "open", "closed", "failed"}

\* account: whom it was made for; idle: ticks since lastUsed, at most IdleLimit;
\* closed: "yes" once the channel closed is closed, "error" with a retiredErr.
Slot == [account : Accounts, load : Loads, leases : Nat, idle : 0..IdleLimit,
         retiring : BOOLEAN, closed : {"no", "yes", "error"}]

IsReady(s) == slots[s].load \in {"open", "closed", "failed"}

Call == [at : {"idle", "looping", "awaitsRetired", "awaitsReady", "leased"},
         account : Accounts, slot : Slots \cup {NoSlot}]

TypeOK ==
  /\ players \in [Accounts -> Slots \cup {NoSlot}]
  /\ slots \in [Slots -> Slot]
  /\ loads \in Seq(Slots)
  /\ sweeping \subseteq Slots /\ unloading \subseteq Slots
  /\ sweeperDone \in BOOLEAN
  /\ shutdown \in {"no", "waiting", "retiring", "done"}
  /\ calls \in [Callers -> Call]

Resident == {a \in Accounts : players[a] # NoSlot}

ResidentSlots == {s \in Slots : \E a \in Accounts : players[a] = s}

Made(a, load, leases) ==
  [account |-> a, load |-> load, leases |-> leases, idle |-> 0,
   retiring |-> FALSE, closed |-> "no"]

Init ==
  /\ players = [a \in Accounts |-> NoSlot]
  /\ slots = [s \in Slots |-> Made(CHOOSE a \in Accounts : TRUE, "unused", 0)]
  /\ loads = <<>>
  /\ sweeping = {} /\ sweeperDone = FALSE
  /\ shutdown = "no" /\ unloading = {}
  /\ calls = [c \in Callers |->
       [at |-> "idle", account |-> CHOOSE a \in Accounts : TRUE, slot |-> NoSlot]]

-----------------------------------------------------------------------------
(* Acquire *)

Goes(c, place, s) ==
  /\ calls' = [calls EXCEPT ![c].at = place, ![c].slot = s]
  /\ UNCHANGED <<players, loads, sweepVars, closeVars>>

Start(c, a) ==
  /\ calls[c].at = "idle"
  /\ calls' = [calls EXCEPT ![c].at = "looping", ![c].account = a]
  /\ UNCHANGED <<players, slots, loads, sweepVars, closeVars>>

\* What an iteration of the loop of Acquire finds.
Looping(c) == calls[c].at = "looping"
SlotOf(c) == players[calls[c].account]
HasCapacity == Cardinality(Resident) < MaxResident /\ Len(loads) < LoadQueue

\* An error: the registry is closing, the slot failed to close, or no capacity.
AcquireRefused(c) ==
  /\ Looping(c)
  /\ \/ closing
     \/ SlotOf(c) = NoSlot /\ ~HasCapacity
     \/ SlotOf(c) # NoSlot /\ slots[SlotOf(c)].closed = "error"
  /\ Goes(c, "idle", NoSlot)
  /\ UNCHANGED slots

AcquireAwaitsRetired(c) ==
  /\ Looping(c) /\ ~closing
  /\ SlotOf(c) # NoSlot
  /\ slots[SlotOf(c)].retiring /\ slots[SlotOf(c)].closed # "error"
  /\ Goes(c, "awaitsRetired", SlotOf(c))
  /\ UNCHANGED slots

\* Mutant: only the caller that creates a slot leases it.
JoinsUncounted(c) ==
  /\ Looping(c) /\ ~closing
  /\ SlotOf(c) # NoSlot
  /\ ~slots[SlotOf(c)].retiring
  /\ Goes(c, "awaitsReady", SlotOf(c))
  /\ UNCHANGED slots

AcquireJoins(c) ==
  /\ Looping(c) /\ ~closing
  /\ SlotOf(c) # NoSlot
  /\ ~slots[SlotOf(c)].retiring
  /\ slots' = [slots EXCEPT ![SlotOf(c)].leases = @ + 1]
  /\ Goes(c, "awaitsReady", SlotOf(c))

\* Slots that no map, channel or goroutine refers to.
FreeSlots ==
  {s \in Slots : /\ \A a \in Accounts : players[a] # s
                 /\ \A c \in Callers : calls[c].slot # s
                 /\ slots[s].load \notin {"queued", "opening"}
                 /\ s \notin sweeping \cup unloading}

AcquireLoads(c, s) ==
  /\ Looping(c) /\ ~closing
  /\ SlotOf(c) = NoSlot
  /\ HasCapacity
  /\ s \in FreeSlots
  /\ players' = [players EXCEPT ![calls[c].account] = s]
  /\ slots' = [slots EXCEPT ![s] = Made(calls[c].account, "queued", 1)]
  /\ loads' = Append(loads, s)
  /\ calls' = [calls EXCEPT ![c].at = "awaitsReady", ![c].slot = s]
  /\ UNCHANGED <<sweepVars, closeVars>>

\* The channel closed of the retiring slot was closed: Acquire starts over.
RetiredSeen(c) ==
  /\ calls[c].at = "awaitsRetired"
  /\ slots[calls[c].slot].closed # "no"
  /\ Goes(c, "looping", NoSlot)
  /\ UNCHANGED slots

\* The caller's context ends while it waits for a retiring slot.
RetiredWaitCancelled(c) ==
  /\ calls[c].at = "awaitsRetired"
  /\ Goes(c, "idle", NoSlot)
  /\ UNCHANGED slots

\* Mutant: a way out of Acquire forgets to release.
NotGivenBack(c) == Goes(c, "idle", NoSlot) /\ UNCHANGED slots

\* release: the lease ends and the idle time starts over.
GivesBack(c) ==
  /\ slots' = [slots EXCEPT ![calls[c].slot].leases = @ - 1, ![calls[c].slot].idle = 0]
  /\ Goes(c, "idle", NoSlot)

ReadySeen(c) ==
  /\ calls[c].at = "awaitsReady"
  /\ IsReady(calls[c].slot) /\ slots[calls[c].slot].load # "failed"
  /\ ~closing
  /\ Goes(c, "leased", calls[c].slot)
  /\ UNCHANGED slots

\* The load failed, or the registry is closing.
AcquireFails(c) ==
  /\ calls[c].at = "awaitsReady"
  /\ IsReady(calls[c].slot)
  /\ slots[calls[c].slot].load = "failed" \/ closing
  /\ GivesBack(c)

\* The caller's context ends while it waits for the load.
ReadyWaitCancelled(c) ==
  /\ calls[c].at = "awaitsReady"
  /\ GivesBack(c)

Release(c) ==
  /\ calls[c].at = "leased"
  /\ GivesBack(c)

\* A heartbeat of a session of the resident runtime.
Touch(a) ==
  /\ ~closing
  /\ players[a] # NoSlot
  /\ slots[players[a]].load = "open" /\ ~slots[players[a]].retiring
  /\ slots' = [slots EXCEPT ![players[a]].idle = 0]
  /\ UNCHANGED <<players, loads, sweepVars, closeVars, calls>>

-----------------------------------------------------------------------------
(* Load workers *)

WithoutSlot(s) == [a \in Accounts |-> IF players[a] = s THEN NoSlot ELSE players[a]]

\* Mutant: the workers leave what is queued when the registry closes.
LoadsAbandoned == FALSE

LoadRefused ==
  /\ loads # <<>>
  /\ closing
  /\ slots' = [slots EXCEPT ![Head(loads)].load = "failed"]
  /\ players' = [players EXCEPT ![slots[Head(loads)].account] = NoSlot]
  /\ loads' = Tail(loads)
  /\ UNCHANGED <<sweepVars, closeVars, calls>>

Opening == {s \in Slots : slots[s].load = "opening"}

LoadStarts ==
  /\ loads # <<>>
  /\ ~closing
  /\ Cardinality(Opening) < LoadWorkers
  /\ slots' = [slots EXCEPT ![Head(loads)].load = "opening"]
  /\ loads' = Tail(loads)
  /\ UNCHANGED <<players, sweepVars, closeVars, calls>>

LoadOpens(s) ==
  /\ slots[s].load = "opening"
  /\ slots' = [slots EXCEPT ![s].load = "open"]
  /\ UNCHANGED <<players, loads, sweepVars, closeVars, calls>>

\* The file did not open or the account did not assemble.
LoadFails(s) ==
  /\ slots[s].load = "opening"
  /\ slots' = [slots EXCEPT ![s].load = "failed"]
  /\ players' = WithoutSlot(s)
  /\ UNCHANGED <<loads, sweepVars, closeVars, calls>>

-----------------------------------------------------------------------------
(* The sweeper *)

Aging == {s \in ResidentSlots : slots[s].idle < IdleLimit}

\* The goroutine of a call is not blocked.
CanRun(c) ==
  \/ Looping(c)
  \/ calls[c].at = "awaitsRetired" /\ slots[calls[c].slot].closed # "no"
  \/ calls[c].at = "awaitsReady" /\ IsReady(calls[c].slot)

\* Time passes.  Goroutines that can run do not wait for the minutes of a tick.
Tick ==
  /\ Aging # {}
  /\ \A c \in Callers : ~CanRun(c)
  /\ slots' = [s \in Slots |->
       IF s \in Aging THEN [slots[s] EXCEPT !.idle = @ + 1] ELSE slots[s]]
  /\ UNCHANGED <<players, loads, sweepVars, closeVars, calls>>

\* Mutant: leases do not keep a slot.
IsExpiredLeased(s) ==
  slots[s].load = "open" /\ ~slots[s].retiring /\ slots[s].idle >= IdleLimit

IsExpired(s) ==
  /\ slots[s].load = "open" /\ ~slots[s].retiring
  /\ slots[s].leases = 0
  /\ slots[s].idle >= IdleLimit

Expired == {s \in ResidentSlots : IsExpired(s)}

Retiring(those) ==
  [s \in Slots |-> IF s \in those THEN [slots[s] EXCEPT !.retiring = TRUE] ELSE slots[s]]

Sweep ==
  /\ ~sweeperDone /\ sweeping = {}
  /\ ~closing
  /\ Expired # {}
  /\ slots' = Retiring(Expired)
  /\ sweeping' = Expired
  /\ UNCHANGED <<players, loads, sweeperDone, closeVars, calls>>

\* Mutant: the slot leaves the map although its runtime failed to close.
ForgottenAnyway(s, closes) == WithoutSlot(s)

Forgotten(s, closes) == IF closes THEN WithoutSlot(s) ELSE players

\* Mutant: a failed close does not wake the callers that wait for it.
RetireSilently(s, closes) ==
  IF slots[s].closed # "no" \/ ~closes
  THEN UNCHANGED <<players, slots>>
  ELSE /\ slots' = [slots EXCEPT ![s].load = "closed", ![s].closed = "yes"]
       /\ players' = WithoutSlot(s)

\* retire: the runtime drains and closes, well or with an error.  retireOnce
\* makes a second call for the slot return at once.
Retire(s, closes) ==
  IF slots[s].closed # "no"
  THEN UNCHANGED <<players, slots>>
  ELSE /\ slots' = [slots EXCEPT ![s].load = "closed",
                                ![s].closed = IF closes THEN "yes" ELSE "error"]
       /\ players' = Forgotten(s, closes)

SweeperRetires(s, closes) ==
  /\ s \in sweeping
  /\ Retire(s, closes)
  /\ sweeping' = sweeping \ {s}
  /\ UNCHANGED <<loads, sweeperDone, closeVars, calls>>

SweeperStops ==
  /\ closing
  /\ sweeping = {}
  /\ ~sweeperDone
  /\ sweeperDone' = TRUE
  /\ UNCHANGED <<players, slots, loads, sweeping, closeVars, calls>>

-----------------------------------------------------------------------------
(* Close *)

Close ==
  /\ shutdown = "no"
  /\ shutdown' = "waiting"
  /\ UNCHANGED <<players, slots, loads, sweepVars, unloading, calls>>

\* Mutant: shutdown does not wait for the load workers.
AfterSweeper == sweeperDone

\* loadDone and done are closed.
WorkersDone == loads = <<>> /\ Opening = {} /\ sweeperDone

\* The slots that have a runtime, closed or not.
ShutdownMarks ==
  /\ shutdown = "waiting"
  /\ WorkersDone
  /\ shutdown' = "retiring"
  /\ unloading' = {s \in ResidentSlots : slots[s].load \in {"open", "closed"}}
  /\ slots' = Retiring(unloading')
  /\ UNCHANGED <<players, loads, sweepVars, calls>>

ShutdownRetires(s, closes) ==
  /\ shutdown = "retiring"
  /\ s \in unloading
  /\ Retire(s, closes)
  /\ unloading' = unloading \ {s}
  /\ UNCHANGED <<loads, sweepVars, shutdown, calls>>

ShutdownFinishes ==
  /\ shutdown = "retiring"
  /\ unloading = {}
  /\ shutdown' = "done"
  /\ UNCHANGED <<players, slots, loads, sweepVars, unloading, calls>>

-----------------------------------------------------------------------------

AcquireStep(c) ==
  \/ AcquireRefused(c)
  \/ AcquireAwaitsRetired(c)
  \/ AcquireJoins(c)
  \/ \E s \in Slots : AcquireLoads(c, s)
  \/ RetiredSeen(c)
  \/ ReadySeen(c)
  \/ AcquireFails(c)

LoadStep ==
  \/ LoadRefused
  \/ LoadStarts
  \/ \E s \in Slots : LoadOpens(s) \/ LoadFails(s)

SweeperStep ==
  \/ \E s \in Slots, closes \in BOOLEAN : SweeperRetires(s, closes)
  \/ SweeperStops

ShutdownStep ==
  \/ ShutdownMarks
  \/ \E s \in Slots, closes \in BOOLEAN : ShutdownRetires(s, closes)
  \/ ShutdownFinishes

Next ==
  \/ \E c \in Callers :
       \/ \E a \in Accounts : Start(c, a)
       \/ AcquireStep(c)
       \/ RetiredWaitCancelled(c) \/ ReadyWaitCancelled(c)
       \/ Release(c)
  \/ \E a \in Accounts : Touch(a)
  \/ LoadStep
  \/ Tick
  \/ Sweep
  \/ SweeperStep
  \/ Close
  \/ ShutdownStep

Spec == Init /\ [][Next]_vars

\* Goroutines that can run do run; opening and closing an account's file
\* terminates; time passes and the sweeper's ticker fires.  Nobody needs to call
\* Acquire, Touch, Release or Close.
Fairness ==
  /\ \A c \in Callers : WF_vars(AcquireStep(c))
  /\ WF_vars(LoadRefused \/ LoadStarts)
  /\ \A s \in Slots : WF_vars(LoadOpens(s) \/ LoadFails(s))
  /\ WF_vars(Tick)
  /\ WF_vars(Sweep)
  /\ WF_vars(SweeperStep)
  /\ WF_vars(ShutdownStep)

FairSpec == Spec /\ Fairness

-----------------------------------------------------------------------------
(* Properties *)

\* The slot's file is open or being opened, or closing it failed.
Owns(s, a) ==
  slots[s].account = a /\ (slots[s].load \in {"opening", "open"} \/ slots[s].closed = "error")

\* At most one slot at a time owns the file of an account: a reload waits until
\* the previous runtime has drained and closed, and is refused when it failed to,
\* however load, expiry, failure and shutdown interleave.
OneWriter ==
  \A s, t \in Slots : \A a \in Accounts : Owns(s, a) /\ Owns(t, a) => s = t

\* Whatever is open can still be found: no runtime leaves the map before it was
\* closed, so that expiry and shutdown reach every one of them.
NoOrphans ==
  \A s \in Slots : slots[s].load \in {"queued", "opening", "open"} =>
    players[slots[s].account] = s

\* Before the registry closes nobody loses a runtime it holds.
LeasedStaysOpen ==
  \A c \in Callers :
    calls[c].at = "leased" /\ ~closing =>
      slots[calls[c].slot].load = "open" /\ ~slots[calls[c].slot].retiring

\* When Close returns, every account's file has been given up.
ClosedIsClosed ==
  shutdown = "done" => \A s \in Slots : slots[s].load \notin {"queued", "opening", "open"}

\* Acquire and Close return: nobody waits for ever for a load, a retirement or
\* the other, whatever was loading, retiring or leased.
CallsReturn ==
  /\ \A c \in Callers :
       calls[c].at \in {"looping", "awaitsRetired", "awaitsReady"} ~>
         calls[c].at \in {"idle", "leased"}
  /\ (shutdown = "waiting") ~> (shutdown = "done")

\* An account that is neither leased nor touched any more leaves memory, unless
\* its runtime failed to close.
IdleIsUnloaded ==
  \A a \in Accounts, s \in Slots :
    <>[](players[a] = s) =>
      []<>(\/ \E c \in Callers : calls[c].slot = s
           \/ slots[s].closed = "error"
           \/ slots[s].idle = 0)

=============================================================================
