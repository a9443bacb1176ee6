--------------------------- MODULE PlayerRuntime ---------------------------
(***************************************************************************)
(* The owner of one account (runtime/player/runtime.go): a bounded mailbox  *)
(* filled by Submit and Recover, a table of receipts that answers a         *)
(* repeated request, and one owner goroutine that executes the accepted     *)
(* work in order, recovers the executor after a failure and renews the      *)
(* session generation when it did.                                          *)
(*                                                                          *)
(* Submit holds the mutex mu; `admitting' is the command of a Submit that   *)
(* has passed its checks and still holds mu.  The owner goroutine needs mu   *)
(* only where the code locks it, so its other steps interleave with a       *)
(* Submit in progress.                                                      *)
(***************************************************************************)
EXTENDS Naturals, Integers, Sequences, FiniteSets

CONSTANTS
  Identities,         \* identities (session, request) of client commands
  Digests,            \* request bodies, told apart by their digest
  CommandBytes,       \* commandBytes of a command with a given body
  RecoveryBytes,      \* what Recover reserves (160 in the code)
  MaxCommands,        \* Limits.MaxCommands
  MaxBytes,           \* Limits.MaxBytes
  CompletedReceipts,  \* Limits.CompletedReceipts
  Recoverable,        \* does the executor implement Recoverer?
  NoIdentity,         \* the identity of a recovery work item
  NoDigest,           \* the digest of a recovery work item
  MaxAccepted,        \* bound: work items accepted in a behaviour
  MaxGeneration       \* bound: values drawn from the generation counter

ASSUME RuntimeAssumption ==
  /\ MaxCommands \in Nat \ {0}
  /\ MaxBytes \in Nat \ {0}
  /\ CompletedReceipts \in Nat \ {0}
  /\ RecoveryBytes \in Nat \ {0}
  /\ CommandBytes \in [Digests -> Nat \ {0}]
  /\ Recoverable \in BOOLEAN
  /\ NoIdentity \notin Identities
  /\ NoDigest \notin Digests
  /\ MaxAccepted \in Nat
  /\ MaxGeneration \in Nat \ {0}

Generations == 1..MaxGeneration

\* ExpectedGeneration is 0 in login and system commands: nothing is expected.
NoExpectation == 0

Command ==
  [id : Identities, digest : Digests, expected : {NoExpectation} \cup Generations]

NoCommand == [id |-> NoIdentity, digest |-> NoDigest, expected |-> NoExpectation]

\* `future' is the position of the work's Future in `futures'.
CommandWork ==
  [id : Identities, digest : Digests, expected : {NoExpectation} \cup Generations,
   bytes : Nat \ {0}, recovery : {FALSE}, generation : Generations, future : Nat]

RecoveryWork ==
  [id : {NoIdentity}, digest : {NoDigest}, expected : {NoExpectation},
   bytes : {RecoveryBytes}, recovery : {TRUE}, generation : {0}, future : Nat]

Work == CommandWork \cup RecoveryWork

NoWork ==
  [id |-> NoIdentity, digest |-> NoDigest, expected |-> NoExpectation,
   bytes |-> RecoveryBytes, recovery |-> TRUE, generation |-> 0, future |-> 0]

(* What a settled future reports: the executor's success or plain error, a  *)
(* failure it recovered from itself (AlreadyRecovered), a failure that      *)
(* needed recovery, the two refusals of the owner, and for Recover its      *)
(* success or failure.  `ran' is history: the generation in which the       *)
(* command was handed to the executor, 0 while it was not.                  *)
Results == {"ok", "error", "recovered", "broken", "expired", "unavailable",
            "recoveryFailed"}

Future ==
  [id : Identities \cup {NoIdentity}, digest : Digests \cup {NoDigest},
   result : Results \cup {"pending"}, ran : {0} \cup Generations]

Receipt == [digest : Digests, future : Nat]

VARIABLES
  queue,       \* the channel: accepted work, oldest first
  receipts,    \* identity -> receipt of an accepted or completed command
  completed,   \* identities of retained successes, oldest first
  pending,     \* accepted and unsettled work items
  bytes,       \* their bytes
  closing,     \* Close was called: the channel is closed
  failed,      \* the executor needs recovery
  generation,  \* current session generation
  futures,     \* every Future handed out, in the order of acceptance
  admitting,   \* command of the Submit that holds mu, or NoCommand
  pc,          \* where the owner goroutine is
  current,     \* the work it took from the channel
  verdict,     \* the outcome it is about to report
  closed,      \* the executor was closed and done is closed
  answer       \* what the last step returned to a caller of Submit

ownerVars == <<pc, current, verdict>>
mailboxVars == <<queue, receipts, completed, pending, bytes, futures>>
vars == <<queue, receipts, completed, pending, bytes, closing, failed,
          generation, futures, admitting, pc, current, verdict, closed, answer>>

NoAnswer == [command |-> NoCommand, future |-> 0]

TypeOK ==
  /\ queue \in Seq(Work)
  /\ DOMAIN receipts \subseteq Identities
  /\ \A id \in DOMAIN receipts : receipts[id] \in Receipt
  /\ completed \in Seq(Identities)
  /\ pending \in Int
  /\ bytes \in Int
  /\ closing \in BOOLEAN
  /\ failed \in BOOLEAN
  /\ generation \in Generations
  /\ futures \in Seq(Future)
  /\ admitting \in Command \cup {NoCommand}
  /\ pc \in {"idle", "executing", "recovering", "settling"}
  /\ current \in Work
  /\ verdict \in Results \cup {"pending"}
  /\ closed \in BOOLEAN
  /\ answer \in [command : Command \cup {NoCommand}, future : Nat]

Init ==
  /\ queue = <<>>
  /\ receipts = [id \in {} |-> NoAnswer]
  /\ completed = <<>>
  /\ pending = 0
  /\ bytes = 0
  /\ closing = FALSE
  /\ failed = FALSE
  /\ generation = 1
  /\ futures = <<>>
  /\ admitting = NoCommand
  /\ pc = "idle"
  /\ current = NoWork
  /\ verdict = "pending"
  /\ closed = FALSE
  /\ answer = NoAnswer

-----------------------------------------------------------------------------
(* Callers *)

MuFree == admitting = NoCommand

\* Mutant: the limit compared with <=.
HasRoomForOneMore(size) == pending <= MaxCommands /\ size <= MaxBytes - bytes

\* Mutant: the channel's length compared instead of `pending'.
HasRoomInChannel(size) == Len(queue) < MaxCommands /\ size <= MaxBytes - bytes

HasRoom(size) == pending < MaxCommands /\ size <= MaxBytes - bytes

Enqueued(work) == Append(queue, work)

\* Mutant: the digest is not compared.
KnownIdentity(c) == c.id \in DOMAIN receipts

KnownRequest(c) == c.id \in DOMAIN receipts /\ receipts[c.id].digest = c.digest

ExpectationHolds(c) == c.expected \in {NoExpectation, generation}

\* Submit finds the receipt of the same request: the caller joins its future.
\* Every refusal of Submit leaves the runtime as it is and is a stutter.
SubmitJoins(c) ==
  /\ MuFree
  /\ ~closing
  /\ ExpectationHolds(c)
  /\ KnownRequest(c)
  /\ answer' = [command |-> c, future |-> receipts[c.id].future]
  /\ UNCHANGED <<mailboxVars, closing, failed, generation, admitting,
                 ownerVars, closed>>

\* Submit has passed every check and still holds mu.
SubmitAdmits(c) ==
  /\ MuFree
  /\ ~closing
  /\ ExpectationHolds(c)
  /\ c.id \notin DOMAIN receipts
  /\ ~failed
  /\ HasRoom(CommandBytes[c.digest])
  /\ Len(futures) < MaxAccepted
  /\ admitting' = c
  /\ answer' = NoAnswer
  /\ UNCHANGED <<mailboxVars, closing, failed, generation, ownerVars, closed>>

\* The rest of Submit: it reads the generation a second time for the work.
SubmitEnqueues ==
  /\ admitting # NoCommand
  /\ LET c == admitting
         f == Len(futures) + 1
     IN /\ receipts' = [id \in DOMAIN receipts \cup {c.id} |->
              IF id = c.id THEN [digest |-> c.digest, future |-> f]
                           ELSE receipts[id]]
        /\ queue' = Enqueued(
              [id |-> c.id, digest |-> c.digest, expected |-> c.expected,
               bytes |-> CommandBytes[c.digest], recovery |-> FALSE,
               generation |-> generation, future |-> f])
        /\ bytes' = bytes + CommandBytes[c.digest]
        /\ futures' = Append(futures,
              [id |-> c.id, digest |-> c.digest, result |-> "pending", ran |-> 0])
        /\ answer' = [command |-> c, future |-> f]
  /\ pending' = pending + 1
  /\ admitting' = NoCommand
  /\ UNCHANGED <<completed, closing, failed, generation, ownerVars, closed>>

\* Recover queues behind the accepted commands; it does not look at `failed'.
Recover ==
  /\ MuFree
  /\ ~closing
  /\ HasRoom(RecoveryBytes)
  /\ Len(futures) < MaxAccepted
  /\ pending' = pending + 1
  /\ bytes' = bytes + RecoveryBytes
  /\ queue' = Enqueued([NoWork EXCEPT !.future = Len(futures) + 1])
  /\ futures' = Append(futures,
        [id |-> NoIdentity, digest |-> NoDigest, result |-> "pending", ran |-> 0])
  /\ answer' = NoAnswer
  /\ UNCHANGED <<receipts, completed, closing, failed, generation, admitting,
                 ownerVars, closed>>

Close ==
  /\ MuFree
  /\ ~closing
  /\ closing' = TRUE
  /\ answer' = NoAnswer
  /\ UNCHANGED <<mailboxVars, failed, generation, admitting, ownerVars, closed>>

-----------------------------------------------------------------------------
(* The owner goroutine *)

\* Mutant: a recovery keeps the session generation.
SameGeneration(g) == g \in Generations /\ g = generation

\* Another runtime of the process may have drawn the values in between.
FreshGeneration(g) == g \in Generations /\ g > generation

\* Mutant: the owner leaves the loop as soon as the runtime is closing.
HasWorkWhileOpen == queue # <<>> /\ ~closing

HasWork == queue # <<>>

\* The next work item is a recovery: no lock before the executor's Recover.
TakeRecovery ==
  /\ pc = "idle"
  /\ HasWork
  /\ Head(queue).recovery
  /\ current' = Head(queue)
  /\ queue' = Tail(queue)
  /\ verdict' = IF Recoverable THEN "pending" ELSE "recoveryFailed"
  /\ pc' = IF Recoverable THEN "recovering" ELSE "settling"
  /\ answer' = NoAnswer
  /\ UNCHANGED <<receipts, completed, pending, bytes, futures, closing, failed,
                 generation, admitting, closed>>

\* The next work item is a command: `failed' is read under mu, then the
\* generation; only the owner changes either, so the reads are one step.
TakeCommand ==
  /\ pc = "idle"
  /\ MuFree
  /\ HasWork
  /\ ~Head(queue).recovery
  /\ current' = Head(queue)
  /\ queue' = Tail(queue)
  /\ verdict' = IF Head(queue).generation # generation THEN "expired"
                ELSE IF failed THEN "unavailable" ELSE "pending"
  /\ IF verdict' = "pending"
     THEN /\ pc' = "executing"
          /\ futures' = [futures EXCEPT ![Head(queue).future].ran = generation]
     ELSE /\ pc' = "settling"
          /\ UNCHANGED futures
  /\ answer' = NoAnswer
  /\ UNCHANGED <<receipts, completed, pending, bytes, closing, failed,
                 generation, admitting, closed>>

\* Execute returned a success or an error that needs no recovery.
ExecuteReturns(result) ==
  /\ pc = "executing"
  /\ result \in {"ok", "error"}
  /\ verdict' = result
  /\ pc' = "settling"
  /\ answer' = NoAnswer
  /\ UNCHANGED <<mailboxVars, closing, failed, generation, admitting, current,
                 closed>>

\* The executor rolled back and reassembled itself (AlreadyRecovered): the
\* generation is renewed without mu.
ExecuteRecovered(g) ==
  /\ pc = "executing"
  /\ FreshGeneration(g)
  /\ generation' = g
  /\ verdict' = "recovered"
  /\ pc' = "settling"
  /\ answer' = NoAnswer
  /\ UNCHANGED <<mailboxVars, closing, failed, admitting, current, closed>>

\* Execute panicked or asks for recovery: `failed' is set under mu.
ExecuteBroke ==
  /\ pc = "executing"
  /\ MuFree
  /\ failed' = TRUE
  /\ verdict' = "broken"
  /\ pc' = IF Recoverable THEN "recovering" ELSE "settling"
  /\ answer' = NoAnswer
  /\ UNCHANGED <<mailboxVars, closing, generation, admitting, current, closed>>

RecoverReturns(success, g) ==
  /\ pc = "recovering"
  /\ MuFree
  /\ failed' = ~success
  /\ IF success THEN FreshGeneration(g) /\ generation' = g
                ELSE UNCHANGED generation
  /\ verdict' = IF ~current.recovery THEN verdict
                ELSE IF success THEN "ok" ELSE "recoveryFailed"
  /\ pc' = "settling"
  /\ answer' = NoAnswer
  /\ UNCHANGED <<mailboxVars, closing, admitting, current, closed>>

\* Mutant: the receipt of a command that failed stays.
WithReceiptsKept(ids) ==
  [id \in DOMAIN receipts \ (ids \ {current.id}) |-> receipts[id]]

\* Delete the receipts of a set of identities.
WithoutReceipts(ids) == [id \in DOMAIN receipts \ ids |-> receipts[id]]

\* A success joins the retained replies; the loop then drops the oldest until
\* both limits hold.  The bytes of replies are abstracted: they may force any
\* number of drops beyond those the count forces, the new reply's included.
Retain(dropped) ==
  LET done == Append(completed, current.id)
  IN /\ dropped \in 0..Len(done)
     /\ Len(done) - dropped <= CompletedReceipts
     /\ completed' = SubSeq(done, dropped + 1, Len(done))
     /\ receipts' = WithoutReceipts({done[i] : i \in 1..dropped})

\* Mutant: the success of a recovery is retained like a command's.
AnySuccess == verdict = "ok"

CommandSucceeded == ~current.recovery /\ verdict = "ok"

\* The tail of the loop, under mu: account, keep or delete the receipt, and
\* close the future.
Settle(dropped) ==
  /\ pc = "settling"
  /\ MuFree
  /\ pending' = pending - 1
  /\ bytes' = bytes - current.bytes
  /\ CASE CommandSucceeded -> Retain(dropped)
       [] current.recovery /\ ~CommandSucceeded ->
            dropped = 0 /\ UNCHANGED <<receipts, completed>>
       [] OTHER -> /\ dropped = 0
                   /\ receipts' = WithoutReceipts({current.id})
                   /\ UNCHANGED completed
  /\ futures' = [futures EXCEPT ![current.future].result = verdict]
  /\ pc' = "idle"
  /\ current' = NoWork
  /\ verdict' = "pending"
  /\ answer' = NoAnswer
  /\ UNCHANGED <<queue, closing, failed, generation, admitting, closed>>

\* The closed channel is drained: the executor is closed, then done.
Finish ==
  /\ pc = "idle"
  /\ closing
  /\ queue = <<>>
  /\ ~closed
  /\ closed' = TRUE
  /\ answer' = NoAnswer
  /\ UNCHANGED <<mailboxVars, closing, failed, generation, admitting, ownerVars>>

Owner ==
  \/ TakeRecovery
  \/ TakeCommand
  \/ \E result \in Results : ExecuteReturns(result)
  \/ \E g \in Generations : ExecuteRecovered(g)
  \/ ExecuteBroke
  \/ \E success \in BOOLEAN, g \in Generations : RecoverReturns(success, g)
  \/ \E dropped \in 0..Len(completed) + 1 : Settle(dropped)
  \/ Finish

Next ==
  \/ \E c \in Command : SubmitJoins(c) \/ SubmitAdmits(c)
  \/ SubmitEnqueues
  \/ Recover
  \/ Close
  \/ Owner

Spec == Init /\ [][Next]_vars

\* The goroutine that holds mu and the owner are scheduled, and the executor
\* returns: Execute and Recover run under a context without cancellation, but
\* every call they make is local I/O or bounded by its own timeout.
FairSpec == Spec /\ WF_vars(SubmitEnqueues) /\ WF_vars(Owner)

-----------------------------------------------------------------------------
(* Properties *)

Unsettled == IF pc = "idle" THEN queue ELSE <<current>> \o queue

\* Every byte of the works, with the place of its work.
BytesOf(works) == UNION {{i} \X (1..works[i].bytes) : i \in DOMAIN works}

SumOfBytes(works) == Cardinality(BytesOf(works))

\* The counters respect the limits, and what they count is in the mailbox: so
\* the channel has room and is open whenever Submit sends to it under mu, which
\* the owner would need in order to make room.
LimitsKept ==
  /\ pending = Len(Unsettled)
  /\ pending + (IF MuFree THEN 0 ELSE 1) <= MaxCommands
  /\ bytes <= MaxBytes
  /\ admitting # NoCommand => Len(queue) < MaxCommands /\ ~closing

\* The counters that Submit compares with the limits are exact: no path of the
\* owner's loop leaks a slot or bytes, and the limits are never exceeded.
MailboxAccounting ==
  /\ LimitsKept
  /\ bytes = SumOfBytes(Unsettled)

CommandsUnsettled == {i \in 1..Len(Unsettled) : ~Unsettled[i].recovery}

\* The receipt table is exactly the commands in flight and the successes still
\* retained, each of them once: the loop's lookups by identity always find an
\* entry, and a request in flight or retained is never accepted a second time.
ReceiptsCoherent ==
  /\ \A i, j \in CommandsUnsettled :
       Unsettled[i].id = Unsettled[j].id => i = j
  /\ \A i, j \in 1..Len(completed) : completed[i] = completed[j] => i = j
  /\ \A i \in CommandsUnsettled, j \in 1..Len(completed) :
       Unsettled[i].id # completed[j]
  /\ DOMAIN receipts = {Unsettled[i].id : i \in CommandsUnsettled}
                          \cup {completed[j] : j \in 1..Len(completed)}

\* Whoever gets a future from Submit gets the one of the very request it sent,
\* and never that of an attempt that already failed: a retry after a failure
\* is executed, not answered with the old error.
AnswerIsOwnRequest ==
  answer.future # 0 =>
    LET f == futures[answer.future]
    IN /\ f.id = answer.command.id
       /\ f.digest = answer.command.digest
       /\ f.result \in {"pending", "ok"}

\* After an execution that left the executor unfit, no later command runs in
\* the same generation: the executor is recovered first.
FailureEndsGeneration ==
  \A f, g \in 1..Len(futures) :
    /\ f < g
    /\ futures[f].ran # 0
    /\ futures[f].result \in {"broken", "recovered"}
    => futures[g].ran # futures[f].ran

\* A command that expects a session generation runs in that generation only.
\* Submit reads the generation twice, and the owner stores a new one without
\* mu after an execution that recovered itself, so this does not hold.
ExpectedGenerationHonoured ==
  pc = "executing" => current.expected \in {NoExpectation, generation}

\* The outcomes of the work, whatever the mailbox looks like.
Outcomes(fs) == [f \in 1..Len(fs) |-> fs[f].result]

Ledger == INSTANCE AcceptedWork WITH
  results <- Outcomes(futures),
  accepting <- ~closing,
  finished <- closed

\* The runtime implements AcceptedWork: what is accepted settles once, in the
\* order of acceptance, nothing is accepted after Close, and what is closed has
\* nothing left.
KeepsAcceptedWork == Ledger!Safety

\* And everything that is accepted settles, and what is closing ends.
ImplementsAcceptedWork == Ledger!Spec

=============================================================================
