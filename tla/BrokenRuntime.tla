--------------------------- MODULE BrokenRuntime ---------------------------
(***************************************************************************)
(* The registry with the runtimes that break and the dispatcher that keeps   *)
(* using them.  A runtime breaks when a command fails and so does the         *)
(* recovery after it (Runtime.failed); it then refuses every command, and     *)
(* nothing calls Runtime.Recover: only unloading the account and loading it   *)
(* again replaces it.  The dispatcher scans the accounts every 30 s, far more *)
(* often than an account becomes idle, and leases each one whose outbox holds *)
(* events.                                                                   *)
(***************************************************************************)
EXTENDS PlayerRegistry

CONSTANT Dispatcher   \* the caller that delivers events

VARIABLES
  broken,    \* slots whose runtime.failed is set
  pending,   \* accounts whose outbox holds events
  due        \* accounts the current scan has still to wake

brokenVars == <<vars, broken, pending, due>>

BInit == Init /\ broken = {} /\ pending = {} /\ due = {}

\* A command of a client commits and publishes an event.
Publishes(c) ==
  /\ c # Dispatcher
  /\ calls[c].at = "leased"
  /\ calls[c].slot \notin broken
  /\ pending' = pending \cup {calls[c].account}
  /\ UNCHANGED <<vars, broken, due>>

\* A command fails, and the account cannot be reopened or assembled.
Breaks(c) ==
  /\ c # Dispatcher
  /\ calls[c].at = "leased"
  /\ broken' = broken \cup {calls[c].slot}
  /\ UNCHANGED <<vars, pending, due>>

Dispatch(a) ==
  /\ a \in due
  /\ Start(Dispatcher, a)
  /\ due' = due \ {a}
  /\ UNCHANGED <<broken, pending>>

\* deliver has read, consumed and acknowledged every event, or got an error from
\* the broken runtime.
DeliverReturns ==
  /\ Release(Dispatcher)
  /\ pending' = IF calls[Dispatcher].slot \in broken THEN pending
                ELSE pending \ {calls[Dispatcher].account}
  /\ UNCHANGED <<broken, due>>

\* Between two ticks the dispatcher has scanned and delivered once.
ScanAndTick ==
  /\ Tick
  /\ due = {} /\ calls[Dispatcher].at = "idle"
  /\ due' = pending
  /\ UNCHANGED <<broken, pending>>

Loaded(c, s) ==
  /\ AcquireLoads(c, s)
  /\ broken' = broken \ {s}
  /\ UNCHANGED <<pending, due>>

\* What the registry does on its own, while it is in service.
Otherwise ==
  /\ \/ \E c \in Callers :
          \/ AcquireRefused(c) \/ AcquireAwaitsRetired(c) \/ AcquireJoins(c)
          \/ RetiredSeen(c) \/ ReadySeen(c) \/ AcquireFails(c)
     \/ \E c \in Callers \ {Dispatcher} :
          \/ \E a \in Accounts : Start(c, a)
          \/ Release(c)
     \/ LoadStep
     \/ Sweep
     \/ SweeperStep
  /\ UNCHANGED <<broken, pending, due>>

BNext ==
  \/ \E c \in Callers : Publishes(c) \/ Breaks(c)
  \/ \E a \in Accounts : Dispatch(a)
  \/ DeliverReturns
  \/ ScanAndTick
  \/ \E c \in Callers, s \in Slots : Loaded(c, s)
  \/ Otherwise

\* Every goroutine that can run does, clients leave, time passes.
BSpec ==
  /\ BInit
  /\ [][BNext]_brokenVars
  /\ \A c \in Callers : WF_brokenVars(
       \/ \E s \in Slots : Loaded(c, s)
       \/ /\ AcquireStep(c)
          /\ \A s \in Slots : ~AcquireLoads(c, s)
          /\ UNCHANGED <<broken, pending, due>>)
  /\ \A c \in Callers \ {Dispatcher} :
       WF_brokenVars(Release(c) /\ UNCHANGED <<broken, pending, due>>)
  /\ WF_brokenVars(DeliverReturns)
  /\ WF_brokenVars(\E a \in Accounts : Dispatch(a))
  /\ WF_brokenVars(LoadStep /\ UNCHANGED <<broken, pending, due>>)
  /\ WF_brokenVars(Sweep /\ UNCHANGED <<broken, pending, due>>)
  /\ WF_brokenVars(SweeperStep /\ UNCHANGED <<broken, pending, due>>)
  /\ WF_brokenVars(ScanAndTick)

-----------------------------------------------------------------------------

\* "Reopen the repository after such an error so SQLite can finish recovery
\* before requests resume": when the clients stay away, a broken runtime is
\* unloaded in the end, so that the account's next request opens its file again.
BrokenIsReplaced ==
  <>[](\A c \in Callers \ {Dispatcher} : calls[c].at = "idle") =>
    \A s \in Slots : s \in broken ~> (s \notin broken \/ slots[s].load = "closed")

=============================================================================
