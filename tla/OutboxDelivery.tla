--------------------------- MODULE OutboxDelivery ---------------------------
(***************************************************************************)
(* The outbox of each account (storage/outbox), the dispatcher that carries   *)
(* its events to the shared store (runtime/delivery), and the inbox that      *)
(* makes a repeated delivery harmless (storage/shared).                       *)
(*                                                                          *)
(* An event is committed with the command that emits it; the executor then    *)
(* wakes the dispatcher, whose queue is bounded and volatile.  A worker reads *)
(* a page through the account's own mailbox, applies each event to the        *)
(* shared file and acknowledges it in a command of its own, so that a crash,  *)
(* a timeout or a failure anywhere leaves the event to be delivered again.    *)
(* A scan every 30 s finds what no wake announces.                           *)
(***************************************************************************)
EXTENDS Naturals, Sequences, FiniteSets, SequencesExt

CONSTANTS
  Order,       \* the accounts, as the account service lists them
  Ids,         \* event identities: at most one event of each is published
  Workers,     \* goroutines of Dispatcher.run (4)
  QueueSize,   \* capacity of Dispatcher.queue (128)
  MaxPending,  \* outbox.MaxPending (256)
  PageSize,    \* events of one ReadOutbox (32)
  MaxCommands, \* bound: commands that publish in a behaviour
  MaxFaults    \* bound: failures, timeouts, crashes and closes in a behaviour

ASSUME DeliveryAssumption ==
  /\ Order \in Seq(Range(Order))
  /\ QueueSize \in Nat \ {0} /\ MaxPending \in Nat \ {0} /\ PageSize \in Nat \ {0}
  /\ MaxCommands \in Nat /\ MaxFaults \in Nat
  /\ "abandoned" \notin Ids \cup Workers

Accounts == {Order[i] : i \in DOMAIN Order}

\* The pages one delivery reads at most.
MaxPages == MaxPending \div PageSize + 1

VARIABLES
  published,  \* account file: receipts of every event, in publication order
  pending,    \* account file: events not acknowledged yet
  inbox,      \* shared file: events that were applied
  applied,    \* history: the effects on the shared file, in order
  commands,   \* commands that published so far
  waking,     \* accounts whose committed command has still to call Wake
  mailbox,    \* account -> requests of the dispatcher in its runtime
  queue,      \* Dispatcher.queue
  scheduled,  \* Dispatcher.scheduled: account -> was it woken again
  worker,     \* worker -> what its goroutine does
  scanning,   \* accounts the current scan has still to look at
  running,    \* the dispatcher's context is not cancelled
  faults,     \* failures so far
  deferred    \* history: accounts left to the next scan

files == <<published, pending, inbox, applied, commands>>
dispatch == <<queue, scheduled, worker, scanning, running>>
vars == <<files, waking, mailbox, dispatch, faults, deferred>>

Idle == [step |-> "idle"]
Working(a, step, page, pages) == [step |-> step, account |-> a, page |-> page, pages |-> pages]

\* "read" and "acknowledge" are about to submit a request, "reading" and
\* "acknowledging" wait for its reply.
Steps == {"read", "reading", "consume", "acknowledge", "acknowledging", "done",
          "failed", "rewake"}
Job == [step : Steps, account : Accounts, page : Seq(Ids), pages : 0..MaxPages]

\* A request is abandoned when the worker no longer waits for its reply.
Abandoned == "abandoned"
Request == [kind : {"read", "acknowledge"}, event : Ids \cup {Abandoned},
            by : Workers \cup {Abandoned}]

TypeOK ==
  /\ published \in [Accounts -> Seq(Ids)]
  /\ pending \in [Accounts -> Seq(Ids)]
  /\ inbox \in [Accounts -> SUBSET Ids]
  /\ applied \in [Accounts -> Seq(Ids)]
  /\ commands \in 0..MaxCommands
  /\ waking \subseteq Accounts
  /\ mailbox \in [Accounts -> Seq(Request)]
  /\ queue \in Seq(Accounts) /\ Len(queue) <= QueueSize
  /\ DOMAIN scheduled \subseteq Accounts
  /\ \A a \in DOMAIN scheduled : scheduled[a] \in BOOLEAN
  /\ worker \in [Workers -> Job \cup {Idle}]
  /\ scanning \in Seq(Accounts)
  /\ running \in BOOLEAN
  /\ faults \in 0..MaxFaults
  /\ deferred \subseteq Accounts

Unscheduled == [a \in {} |-> FALSE]

Init ==
  /\ published = [a \in Accounts |-> <<>>]
  /\ pending = [a \in Accounts |-> <<>>]
  /\ inbox = [a \in Accounts |-> {}]
  /\ applied = [a \in Accounts |-> <<>>]
  /\ commands = 0
  /\ waking = {}
  /\ mailbox = [a \in Accounts |-> <<>>]
  /\ queue = <<>> /\ scheduled = Unscheduled
  /\ worker = [w \in Workers |-> Idle]
  /\ scanning = Order          \* Dispatcher.scan looks before it waits
  /\ running = TRUE
  /\ faults = 0
  /\ deferred = {}

Fault == faults < MaxFaults /\ faults' = faults + 1

-----------------------------------------------------------------------------
(* Dispatcher.Wake *)

\* Mutant: an account being delivered is left as it is.
WokenAlready(a) == UNCHANGED scheduled

\* A delivery that is queued or in progress is told to run again.
WokenAgain(a) == scheduled' = [scheduled EXCEPT ![a] = TRUE]

\* Mutant: the account is queued whether it is scheduled or not.
IsNeverScheduled(a) == FALSE

IsScheduled(a) == a \in DOMAIN scheduled

\* Mutant: one account more than the capacity is queued.
HasRoomForOneMore == Len(queue) <= QueueSize

HasRoom == Len(queue) < QueueSize

\* A full queue drops the wake.
Wake(a) ==
  IF ~running THEN UNCHANGED <<queue, scheduled, deferred>>
  ELSE IF IsScheduled(a) THEN WokenAgain(a) /\ UNCHANGED <<queue, deferred>>
  ELSE IF HasRoom
       THEN /\ queue' = Append(queue, a)
            /\ scheduled' = [b \in DOMAIN scheduled \cup {a} |->
                               IF b = a THEN FALSE ELSE scheduled[b]]
            /\ deferred' = deferred \ {a}
       ELSE UNCHANGED <<queue, scheduled>> /\ deferred' = deferred \cup {a}

-----------------------------------------------------------------------------
(* The account: its commands, one at a time *)

OwnerFree(a) == a \notin waking

WasPublished(a, id) == id \in Range(published[a])

\* outbox.Publish in the transaction of a command; a known event is left as it
\* is.  A full outbox fails the command instead.
Publish(a, id) ==
  /\ OwnerFree(a)
  /\ commands < MaxCommands /\ commands' = commands + 1
  /\ IF WasPublished(a, id)
     THEN UNCHANGED <<published, pending>>
     ELSE /\ Len(pending[a]) < MaxPending
          /\ published' = [published EXCEPT ![a] = Append(@, id)]
          /\ pending' = [pending EXCEPT ![a] = Append(@, id)]
  /\ UNCHANGED <<inbox, applied>>

\* The command commits; Execute still has to wake the dispatcher.
CommandPublishes(a, id) ==
  /\ Publish(a, id)
  /\ waking' = waking \cup {a}
  /\ UNCHANGED <<mailbox, dispatch, faults, deferred>>

\* The runtime of the account fails: it refuses whatever its mailbox holds.
RuntimeFails(a) ==
  /\ Fault
  /\ mailbox' = [mailbox EXCEPT ![a] = <<>>]
  /\ worker' = [w \in Workers |->
                  IF \E r \in Range(mailbox[a]) : r.by = w
                  THEN [worker[w] EXCEPT !.step = "failed"] ELSE worker[w]]

\* The commit reports an error although it reached the file: no wake.
CommandPublishesUnreported(a, id) ==
  /\ Publish(a, id)
  /\ RuntimeFails(a)
  /\ deferred' = deferred \cup {a}
  /\ UNCHANGED <<waking, queue, scheduled, scanning, running>>

CommandWakes(a) ==
  /\ a \in waking
  /\ Wake(a)
  /\ waking' = waking \ {a}
  /\ UNCHANGED <<files, mailbox, worker, scanning, running, faults>>

Waits(r) == r.by # Abandoned

Page(a) == SubSeq(pending[a], 1, IF Len(pending[a]) < PageSize THEN Len(pending[a]) ELSE PageSize)

\* outbox.Read, executed by the owner goroutine.
ExecuteRead(a) ==
  /\ OwnerFree(a) /\ mailbox[a] # <<>>
  /\ LET r == Head(mailbox[a]) IN
       /\ r.kind = "read"
       /\ worker' = IF Waits(r)
                    THEN [worker EXCEPT ![r.by].page = Page(a),
                                        ![r.by].step = IF pending[a] = <<>> THEN "done" ELSE "consume"]
                    ELSE worker
  /\ mailbox' = [mailbox EXCEPT ![a] = Tail(@)]
  /\ UNCHANGED <<files, waking, queue, scheduled, scanning, running, faults, deferred>>

\* The pending rows of the account without the row whose key is id.
Row(a, id) == CHOOSE i \in DOMAIN pending[a] : pending[a][i] = id
Without(a, id) ==
  IF id \in Range(pending[a]) THEN RemoveAt(pending[a], Row(a, id)) ELSE pending[a]

\* The worker goes on with its page, or with the next one.
AfterAcknowledge(w) ==
  LET rest == Tail(worker[w].page)
      read == worker[w].pages + 1
  IN  IF rest # <<>> THEN [worker[w] EXCEPT !.page = rest, !.step = "consume"]
      ELSE [worker[w] EXCEPT !.page = rest, !.pages = read,
                             !.step = IF read = MaxPages THEN "done" ELSE "read"]

\* outbox.Acknowledge: the pending entry goes, its receipt stays.
ExecuteAcknowledge(a) ==
  /\ OwnerFree(a) /\ mailbox[a] # <<>>
  /\ LET r == Head(mailbox[a]) IN
       /\ r.kind = "acknowledge"
       /\ pending' = [pending EXCEPT ![a] = Without(a, r.event)]
       /\ worker' = IF Waits(r) THEN [worker EXCEPT ![r.by] = AfterAcknowledge(r.by)] ELSE worker
  /\ mailbox' = [mailbox EXCEPT ![a] = Tail(@)]
  /\ UNCHANGED <<published, inbox, applied, commands, waking, queue, scheduled, scanning, running, faults, deferred>>

\* A request of the dispatcher fails, though it may have been committed.
RequestFails(a, durable) ==
  /\ OwnerFree(a) /\ mailbox[a] # <<>>
  /\ pending' = IF durable THEN [pending EXCEPT ![a] = Without(a, Head(mailbox[a]).event)]
                ELSE pending
  /\ RuntimeFails(a)
  /\ UNCHANGED <<published, inbox, applied, commands, waking, queue, scheduled, scanning, running, deferred>>

-----------------------------------------------------------------------------
(* Dispatcher.run and deliver *)

TakeAccount(w) ==
  /\ running
  /\ worker[w] = Idle /\ queue # <<>>
  /\ worker' = [worker EXCEPT ![w] = Working(Head(queue), "read", <<>>, 0)]
  /\ queue' = Tail(queue)
  /\ UNCHANGED <<files, waking, mailbox, scheduled, scanning, running, faults, deferred>>

Submit(w, kind, event, step) ==
  /\ mailbox' = [mailbox EXCEPT ![worker[w].account] =
                   Append(@, [kind |-> kind, event |-> event, by |-> w])]
  /\ worker' = [worker EXCEPT ![w].step = step]
  /\ UNCHANGED <<files, waking, queue, scheduled, scanning, running, faults, deferred>>

SubmitRead(w) ==
  /\ worker[w].step = "read"
  /\ Submit(w, "read", Abandoned, "reading")

SubmitAcknowledge(w) ==
  /\ worker[w].step = "acknowledge"
  /\ Submit(w, "acknowledge", Head(worker[w].page), "acknowledging")

\* Mutant: an event is applied whenever it is delivered.
IsNew(a, id) == TRUE

NotInInbox(a, id) == id \notin inbox[a]

\* shared.Store.Consume: effect and inbox receipt in one transaction.
ApplyOnce(a, id) ==
  IF NotInInbox(a, id)
  THEN /\ inbox' = [inbox EXCEPT ![a] = @ \cup {id}]
       /\ applied' = [applied EXCEPT ![a] = Append(@, id)]
       /\ UNCHANGED <<published, pending, commands>>
  ELSE UNCHANGED files

Consume(w) ==
  /\ worker[w].step = "consume"
  /\ ApplyOnce(worker[w].account, Head(worker[w].page))
  /\ worker' = [worker EXCEPT ![w].step = "acknowledge"]
  /\ UNCHANGED <<waking, mailbox, queue, scheduled, scanning, running, faults, deferred>>

\* Mutant: an event that cannot be applied is left behind.
GoesOnAfterError(w) == [worker EXCEPT ![w].step = "acknowledge"]

StopsAtError(w) == [worker EXCEPT ![w].step = "failed"]

\* The shared transaction reports an error; it may have been committed.
ConsumeFails(w, durable) ==
  /\ Fault
  /\ worker[w].step = "consume"
  /\ IF durable THEN ApplyOnce(worker[w].account, Head(worker[w].page)) ELSE UNCHANGED files
  /\ worker' = StopsAtError(w)
  /\ UNCHANGED <<waking, mailbox, queue, scheduled, scanning, running, deferred>>

\* Acquire or Submit fails, five seconds pass, or the dispatcher closes.  What
\* was submitted stays in the mailbox and is executed all the same.
GiveUp(w) ==
  /\ \/ Fault
     \/ ~running /\ UNCHANGED faults
  /\ worker[w].step \in {"read", "reading", "consume", "acknowledge", "acknowledging"}
  /\ worker' = [worker EXCEPT ![w].step = "failed"]
  /\ mailbox' = [mailbox EXCEPT ![worker[w].account] =
                   [i \in DOMAIN @ |-> IF @[i].by = w THEN [@[i] EXCEPT !.by = Abandoned] ELSE @[i]]]
  /\ UNCHANGED <<files, waking, queue, scheduled, scanning, running, deferred>>

\* Mutant: a failed delivery leaves the account scheduled.
FinishForgets(w) ==
  /\ worker[w].step \in {"done", "failed"}
  /\ LET a == worker[w].account
         again == scheduled[a]
         failed == worker[w].step = "failed"
     IN  /\ worker' = [worker EXCEPT ![w] = IF again /\ ~failed THEN [@ EXCEPT !.step = "rewake"] ELSE Idle]
         /\ scheduled' = IF failed THEN scheduled ELSE [b \in DOMAIN scheduled \ {a} |-> scheduled[b]]
         /\ deferred' = IF failed THEN deferred \cup {a} ELSE deferred
  /\ UNCHANGED <<files, waking, mailbox, queue, scanning, running, faults>>

\* The delivery is over; a wake that came meanwhile starts it again.
Finish(w) ==
  /\ worker[w].step \in {"done", "failed"}
  /\ LET a == worker[w].account
         again == scheduled[a]
         failed == worker[w].step = "failed"
     IN  /\ worker' = [worker EXCEPT ![w] = IF again /\ ~failed THEN [@ EXCEPT !.step = "rewake"] ELSE Idle]
         /\ scheduled' = [b \in DOMAIN scheduled \ {a} |-> scheduled[b]]
         /\ deferred' = IF failed THEN deferred \cup {a} ELSE deferred
  /\ UNCHANGED <<files, waking, mailbox, queue, scanning, running, faults>>

Rewake(w) ==
  /\ worker[w].step = "rewake"
  /\ Wake(worker[w].account)
  /\ worker' = [worker EXCEPT ![w] = Idle]
  /\ UNCHANGED <<files, waking, mailbox, scanning, running, faults>>

-----------------------------------------------------------------------------
(* Dispatcher.scan and discover; Close; the process *)

ScanStarts ==
  /\ running
  /\ scanning = <<>>
  /\ scanning' = Order
  /\ UNCHANGED <<files, waking, mailbox, queue, scheduled, worker, running, faults, deferred>>

ScanStep ==
  /\ running
  /\ scanning # <<>>
  /\ IF pending[Head(scanning)] # <<>> THEN Wake(Head(scanning))
     ELSE UNCHANGED <<queue, scheduled, deferred>>
  /\ scanning' = Tail(scanning)
  /\ UNCHANGED <<files, waking, mailbox, worker, running, faults>>

\* The file of one account cannot be read: the whole scan is abandoned.
ScanFails ==
  /\ Fault
  /\ running
  /\ scanning # <<>>
  /\ scanning' = <<>>
  /\ UNCHANGED <<files, waking, mailbox, queue, scheduled, worker, running, deferred>>

Close ==
  /\ Fault
  /\ running
  /\ running' = FALSE
  /\ deferred' = Accounts
  /\ UNCHANGED <<files, waking, mailbox, queue, scheduled, worker, scanning>>

\* The process dies and starts again: only the files remain.
Start ==
  /\ waking' = {}
  /\ mailbox' = [a \in Accounts |-> <<>>]
  /\ queue' = <<>> /\ scheduled' = Unscheduled
  /\ worker' = [w \in Workers |-> Idle]
  /\ scanning' = Order
  /\ running' = TRUE
  /\ deferred' = Accounts
  /\ UNCHANGED files

Crash == Fault /\ Start

Restart == ~running /\ Start /\ UNCHANGED faults

Next ==
  \/ \E a \in Accounts :
       \/ \E id \in Ids : CommandPublishes(a, id) \/ CommandPublishesUnreported(a, id)
       \/ CommandWakes(a)
       \/ ExecuteRead(a)
       \/ ExecuteAcknowledge(a)
       \/ \E durable \in BOOLEAN : RequestFails(a, durable)
  \/ \E w \in Workers :
       \/ TakeAccount(w)
       \/ SubmitRead(w)
       \/ SubmitAcknowledge(w)
       \/ Consume(w)
       \/ \E durable \in BOOLEAN : ConsumeFails(w, durable)
       \/ GiveUp(w)
       \/ Finish(w)
       \/ Rewake(w)
  \/ ScanStarts
  \/ ScanStep
  \/ ScanFails
  \/ Close
  \/ Crash
  \/ Restart

Spec == Init /\ [][Next]_vars

\* Goroutines run, the ticker ticks, and a closed server is started again;
\* failures, which MaxFaults bounds, are never owed.  A request in the mailbox
\* comes after the commands queued before it and no other (strong fairness).
ExecuteRequest(a) == ExecuteRead(a) \/ ExecuteAcknowledge(a)
WorkerSteps(w) == SubmitRead(w) \/ SubmitAcknowledge(w) \/ Consume(w) \/ Finish(w) \/ Rewake(w)

LiveSpec ==
  /\ Spec
  /\ WF_vars(ScanStarts)
  /\ WF_vars(ScanStep)
  /\ WF_vars(Restart)
  /\ WF_vars(\E w \in Workers : TakeAccount(w))
  /\ \A a \in Accounts : WF_vars(CommandWakes(a)) /\ SF_vars(ExecuteRequest(a))
  /\ \A w \in Workers : WF_vars(WorkerSteps(w))

-----------------------------------------------------------------------------
(* Properties *)

\* What a command committed is never lost: an event leaves the outbox of its
\* account only when the shared file has it.
NothingLost ==
  \A a \in Accounts : Range(published[a]) = Range(pending[a]) \cup inbox[a]

\* An account is delivered by one worker at a time, and is queued at most once.
OneDelivery ==
  /\ \A v, w \in Workers :
       worker[v].step \notin {"idle", "rewake"} /\ worker[w].step \notin {"idle", "rewake"}
         /\ worker[v].account = worker[w].account => v = w
  /\ \A i, j \in DOMAIN queue : queue[i] = queue[j] => i = j
  /\ \A a \in Range(queue), w \in Workers :
       worker[w].step \notin {"idle", "rewake"} => worker[w].account # a

\* An event waits for the scan only when a delivery failed, a wake was dropped
\* or the process restarted: the race between the last page of a delivery and
\* the wake of a new event loses nothing.
WakeNotLost ==
  \A a \in Accounts :
    pending[a] # <<>> =>
      \/ a \in DOMAIN scheduled \cup waking \cup deferred
      \/ \E w \in Workers : worker[w].step = "rewake" /\ worker[w].account = a

\* A failed delivery is repeated until every published event took effect and
\* left the outbox, although a full queue drops the wakes of the others.
PublishedTakesEffect ==
  \A a \in Accounts :
    (pending[a] # <<>>) ~> (pending[a] = <<>> /\ inbox[a] = Range(published[a]))

\* The promise: what the account files published, and what took effect.
Promise == INSTANCE EventLog WITH
  Sources <- Accounts,
  Events <- Ids,
  sent <- published,
  effective <- applied

\* The outbox, the dispatcher and the inbox implement EventLog: each event
\* takes effect once, in the order of the commits that emitted it.
ImplementsEventLog == Promise!Spec

=============================================================================
