----------------------------- MODULE RoomResults -----------------------------
(***************************************************************************)
(* What becomes of the result of a finished room (app/realtime_results.go,  *)
(* app/realtime_retention.go).  The room hands its result to a bounded       *)
(* queue; one worker saves it, records the team ranking, marks it ready and  *)
(* acknowledges it to the room, and starts over when any of these fails.     *)
(* The members claim a ready result; when all of them have, only a receipt   *)
(* of it stays.  The shared store has one connection: its transactions,      *)
(* read-only ones included, exclude each other.                              *)
(***************************************************************************)
EXTENDS Naturals, SequencesExt

CONSTANTS
  Accounts, Rooms,  \* a room is its instance; none is ever reused
  QueueLength,      \* capacity of roomResults.queue
  Setups,           \* kind of the rooms played and bounds of the case
  None

ASSUME RoomAssumption ==
  /\ Rooms \subseteq Nat /\ None \notin Rooms /\ QueueLength \in Nat \ {0}
  /\ \A s \in Setups : /\ s.kind \in {"action", "defense", "fishing"} /\ s.capacity \in 1..5
                       /\ s.failures \in Nat /\ s.crashes \in Nat

VARIABLES
  setup,    \* never changes
  members,  \* final.View.Members: accounts of a room, in order of entry
  store,    \* the shared store: buckets and team rankings
  reading,  \* accounts whose PrepareResults holds a transaction of the store
  pending,  \* roomResults.pending
  queue,    \* roomResults.queue
  worker,   \* the worker of start: step of persist and its result
  failures  \* counts Defer, for its bound

resultVars == <<members, store, reading, pending, queue, worker, failures>>

Kind == setup.kind

Idle == [step |-> "idle", room |-> None]

EmptyStore ==
  [saved |-> {},     \* room.results
   ranked |-> {},    \* team rankings recorded
   ready |-> {},     \* room.ready
   retired |-> {},   \* room.retired
   runs |-> {},      \* room.runs
   claims |-> {}]    \* room.claims

Stores ==
  [saved : SUBSET Rooms, ranked : SUBSET Rooms, ready : SUBSET Rooms, retired : SUBSET Rooms,
   runs : SUBSET (Accounts \X Rooms), claims : SUBSET (Accounts \X Rooms)]

ResultsTypeOK ==
  /\ setup \in Setups
  /\ members \in [Rooms -> Seq(Accounts)]
  /\ store \in Stores
  /\ reading \subseteq Accounts
  /\ pending \subseteq Rooms
  /\ queue \in Seq(Rooms) /\ Len(queue) <= QueueLength
  /\ worker \in [step : {"idle", "save", "rank", "ready", "acknowledge"}, room : Rooms \cup {None}]
  /\ failures \in 0..setup.failures

ResultsInit ==
  /\ setup \in Setups
  /\ members = [r \in Rooms |-> << >>]
  /\ store = EmptyStore
  /\ reading = {}
  /\ pending = {} /\ queue = << >> /\ worker = Idle /\ failures = 0

StoreFree == reading = {}

-----------------------------------------------------------------------------
(* Transactions, as functions of the store.                                 *)

\* A plausible slip: one claim is enough.
SettleFirst(s, r) ==
  IF r \in s.ready /\ \E a \in Range(members[r]) : <<a, r>> \in s.claims
  THEN [s EXCEPT !.saved = @ \ {r}, !.ready = @ \ {r}, !.retired = @ \cup {r},
                 !.runs = {x \in @ : x[2] # r}, !.claims = {x \in @ : x[2] # r}]
  ELSE s

\* retireClaimedRoom
Settle(s, r) ==
  IF r \in s.ready /\ \A a \in Range(members[r]) : <<a, r>> \in s.claims
  THEN [s EXCEPT !.saved = @ \ {r}, !.ready = @ \ {r}, !.retired = @ \cup {r},
                 !.runs = {x \in @ : x[2] # r}, !.claims = {x \in @ : x[2] # r}]
  ELSE s

\* A plausible slip: a retry does not look for the receipt.
SaveAgain(s, r) == [s EXCEPT !.saved = @ \cup {r}]

SaveIn(s, r) == IF r \in s.retired THEN s ELSE [s EXCEPT !.saved = @ \cup {r}]

RankIn(s, r) == IF Kind = "action" THEN [s EXCEPT !.ranked = @ \cup {r}] ELSE s

ReadyIn(s, r) == IF r \in s.retired THEN s ELSE Settle([s EXCEPT !.ready = @ \cup {r}], r)

AcceptIn(s, a, r) == [s EXCEPT !.runs = @ \cup {<<a, r>>}]

\* claim finds the result, or for a fishing voyage its accepted run.
Claimable(s, a, r) ==
  \/ r \in s.saved /\ a \in Range(members[r])
  \/ r \notin s.saved /\ Kind = "fishing" /\ <<a, r>> \in s.runs

ClaimIn(s, a, r) ==
  IF r \in s.saved THEN Settle([s EXCEPT !.claims = @ \cup {<<a, r>>}], r)
  ELSE [s EXCEPT !.claims = @ \cup {<<a, r>>}, !.runs = @ \ {<<a, r>>}]

-----------------------------------------------------------------------------
(* The queue and the worker.                                                *)

CanQueue == Len(queue) < QueueLength

\* publish: a full queue refuses, and the result is no longer pending.
Publish(r) ==
  IF CanQueue THEN queue' = Append(queue, r) /\ pending' = pending \cup {r}
              ELSE queue' = queue /\ pending' = pending \ {r}

\* A plausible slip: what the worker holds is not pending any more.
TakeForgets ==
  /\ worker = Idle /\ queue # << >>
  /\ worker' = [step |-> "save", room |-> Head(queue)]
  /\ queue' = Tail(queue)
  /\ pending' = pending \ {Head(queue)}
  /\ UNCHANGED <<members, failures, store, reading>>

Take ==
  /\ worker = Idle /\ queue # << >>
  /\ worker' = [step |-> "save", room |-> Head(queue)]
  /\ queue' = Tail(queue)
  /\ UNCHANGED <<members, failures, store, reading, pending>>

Save ==
  /\ worker.step = "save" /\ StoreFree
  /\ store' = SaveIn(store, worker.room)
  /\ worker' = [worker EXCEPT !.step = "rank"]
  /\ UNCHANGED <<members, failures, reading, pending, queue>>

Rank ==
  /\ worker.step = "rank" /\ StoreFree
  /\ store' = RankIn(store, worker.room)
  /\ worker' = [worker EXCEPT !.step = "ready"]
  /\ UNCHANGED <<members, failures, reading, pending, queue>>

\* retireClaimedResult; then the result is no longer pending.
MarkReady ==
  /\ worker.step = "ready" /\ StoreFree
  /\ store' = ReadyIn(store, worker.room)
  /\ worker' = [worker EXCEPT !.step = "acknowledge"]
  /\ pending' = pending \ {worker.room}
  /\ UNCHANGED <<members, failures, reading, queue>>

\* Any error of persist, AcknowledgeResult on a full mailbox included: the
\* timer of a second, then persist from its beginning.
Defer ==
  /\ failures < setup.failures /\ failures' = failures + 1
  /\ worker.step \in {"save", "rank", "ready", "acknowledge"}
  /\ worker' = [worker EXCEPT !.step = "save"]
  /\ UNCHANGED <<members, store, reading, pending, queue>>

Worker == Take \/ Save \/ Rank \/ MarkReady

\* recoverResults, before the server listens.
RecoverResult(r) ==
  /\ r \in store.saved
  /\ store' = ReadyIn(RankIn(store, r), r)
  /\ UNCHANGED <<members, failures, reading, pending, queue, worker>>

Recovered == \A r \in store.saved : RankIn(store, r) = store /\ ReadyIn(store, r) = store

=============================================================================
